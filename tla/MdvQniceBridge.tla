--------------------------- MODULE MdvQniceBridge ---------------------------
(***************************************************************************)
(* CORE/vhdl/mdv_qnice_bridge.vhd: how QNICE loads an image into a           *)
(* microdrive's buffer and reads the buffer and its dirty bitmap back, over  *)
(* three four-phase handshakes between the QNICE clock (50 MHz) and the      *)
(* core clock (84 MHz).                                                    *)
(*                                                                         *)
(* QnicEdge and CoreEdge are one rising edge of either clock: every process  *)
(* of the bridge on that clock, and what surrounds it there.  External: the  *)
(* QNICE CPU with the firmware on it, which waits while qnice_wait_o is up   *)
(* (also in the fetch after an access, since mega65.vhd passes the signal    *)
(* on while the device is selected), the synchronisers, and mdv.v.  Of what  *)
(* the buffer shows on port A nothing is assumed: any word, valid at any     *)
(* time (DpRam is about that, and MdvReadBack about what comes of both).     *)
(*                                                                         *)
(* The firmware is the part of a load that meets the bridge: LOAD_IMAGE's    *)
(* bytes, the file's length and the poll for the verdict of the size check   *)
(* (p_mdv1_size_check in mega65.vhd) through the drive's qnice_csr.          *)
(*                                                                         *)
(* Device addresses are those of the code, with a buffer of Words words in   *)
(* a memory of which port A reaches Span: byte a of the buffer is at a.      *)
(* What follows the buffer is the next drive's, and the bitmap (one byte     *)
(* that tells whether anything is dirty) and the clear register have         *)
(* addresses of theirs behind the buffer's.                                 *)
(***************************************************************************)
EXTENDS Integers

CONSTANTS
  Words,         (* words of the buffer                                     *)
  Span,          (* words that port A's address reaches                     *)
  MaxBytes,      (* C_MDV1_MAX_BYTES: the longest image accepted            *)
  Byte,          (* what a byte may hold                                    *)
  Files,         (* bound: lengths of the files that are loaded             *)
  Image,         (* the byte of every file at a position                    *)
  Probed,        (* bound: bytes of the buffer that are read, or QL-written *)
  QlByte,        (* bound: what the QL writes                               *)
  MaxErrands,    (* bound: images loaded, and writes to the clear register  *)
  MaxQlWrites,   (* bound: bytes the QL writes                              *)
  MaxResets      (* bound: presses of the reset button                      *)

BufferByte  == 0 .. 2 * Words - 1
ReachedByte == 0 .. 2 * Span - 1
DIRTY_BASE == 2 * Words         \* C_MDV1_DIRTY_BASE
DIRTY_CLR  == 2 * Words + 2     \* C_MDV1_DIRTY_CLR: even, as in globals.vhd
Position   == UNION {0 .. n : n \in Files}
Address    == Position \union 0 .. DIRTY_CLR
Value      == Byte \union {0, 1}

ASSUME ConstantsAssumption ==
  /\ Words \in Nat /\ Span \in Nat /\ 0 < Words /\ Words <= Span
  /\ MaxBytes \in 0 .. 2 * Words
  /\ 0 \in Byte
  /\ Files \subseteq Nat /\ Files # {}
  /\ Image \in [Position -> Byte]
  /\ Probed \subseteq BufferByte /\ QlByte \subseteq Byte
  /\ {MaxErrands, MaxQlWrites, MaxResets} \subseteq Nat

VARIABLES
  (* QNICE: its bus cycle, where the firmware is, the length of the file it  *)
  (* loads and the next byte's position, and what is left of the bounds      *)
  cpu, qnice_addr, qnice_data, fw, file, pos, errandsLeft,
  (* qnice_csr and the size check behind it                                 *)
  req_status, req_length, resp_status, val_state,
  (* the bridge's registers in the QNICE clock                              *)
  ld_byte0, ld_word_addr, ld_word_data, ld_send, ld_busy,
  rd_addr, rd_send, rd_state, rd_req_prev, qnice_data_o, resp_ack, clear_src,
  (* the synchronisers                                                      *)
  dest_req, dest_out, src_rcv, loading_sync, clear_sync, ticked,
  (* the bridge's registers in the core clock                               *)
  reset_i, ld_ack, ld_state, ld_dl_addr, dl_data, dl_wr,
  req_ack, rdcore_state, rd_req_addr, rd_dl_addr, rd_result_data, rd_result_send,
  clear_sync_prev,
  (* the buffer and its bitmap, and bounds                                  *)
  mem, dirty, qlWritesLeft, resetsLeft,
  (* history: the memory as QNICE and the QL mean it to be; what the byte     *)
  (* being read has shown since it was asked for; clear writes not yet done;  *)
  (* a read the core had taken when it was reset; whether the last load wrote *)
  (* outside the buffer, and what LOAD_IMAGE returned for it                 *)
  want, seen, clears, dropped, spilled, verdict

busVars   == <<cpu, qnice_addr, qnice_data>>
fwVars    == <<fw, file, pos, errandsLeft, verdict>>
csrVars   == <<req_status, req_length>>
checkVars == <<resp_status, val_state>>
cpuVars   == <<busVars, fwVars, csrVars, checkVars>>
loadQVars == <<ld_byte0, ld_word_addr, ld_word_data, ld_send, ld_busy>>
readQVars == <<rd_addr, rd_send, rd_state, rd_req_prev, qnice_data_o, resp_ack>>
syncVars  == <<dest_req, dest_out, src_rcv, loading_sync, clear_sync>>
loadCVars == <<ld_ack, ld_state, ld_dl_addr, dl_data, dl_wr>>
readCVars == <<req_ack, rdcore_state, rd_req_addr, rd_dl_addr, rd_result_data,
               rd_result_send>>
bufVars   == <<mem, dirty, qlWritesLeft>>
histVars  == <<want, seen, clears, dropped, spilled>>
vars      == <<cpuVars, loadQVars, readQVars, clear_src, syncVars, ticked, reset_i,
               loadCVars, readCVars, clear_sync_prev, bufVars, resetsLeft, histVars>>

Channel == {"loader", "read_req", "read_resp"}

(* src_send, dest_ack and src_in of the three xpm_cdc_handshake instances.   *)
send(c) == CASE c = "loader"    -> ld_send
             [] c = "read_req"  -> rd_send
             [] c = "read_resp" -> rd_result_send
ack(c)  == CASE c = "loader"    -> ld_ack
             [] c = "read_req"  -> req_ack
             [] c = "read_resp" -> resp_ack

-----------------------------------------------------------------------------
(* The combinational signals.                                              *)

ce == cpu # "fetch"
we == cpu = "write"
Reads == ce /\ ~we

(* Seeded fault: only registered state makes QNICE wait.                     *)
WaitFromRegisters == ld_busy \/ rd_state # "IDLE"

(* Seeded fault: QNICE does not wait for the words it writes.                *)
WaitForReads == rd_state # "IDLE" \/ (Reads /\ ~rd_req_prev)

qnice_wait_o == ld_busy \/ rd_state # "IDLE" \/ (Reads /\ ~rd_req_prev)

(* The level that the bridge and mdv.v get of a load under way.              *)
loading == req_status = "LDNG"

clear_req == ce /\ we /\ qnice_addr = DIRTY_CLR

(* Seeded fault: the clear follows the level.                                *)
ClearWhileHigh == clear_sync

dirty_clear_o == clear_sync /\ ~clear_sync_prev

(* The word of a byte address: (17 downto 1), whatever is above.             *)
WordOf(a) == (a \div 2) % Span

dl_addr_o == IF rdcore_state # "IDLE" THEN rd_dl_addr ELSE ld_dl_addr

Init ==
  /\ cpu = "fetch" /\ qnice_addr = 0 /\ qnice_data = 0
  /\ fw = "shell" /\ file = 0 /\ pos = 0 /\ errandsLeft = MaxErrands
  /\ req_status = "NONE" /\ req_length = 0 /\ resp_status = "IDLE" /\ val_state = "VS_IDLE"
  /\ ld_byte0 = 0 /\ ld_word_addr = 0 /\ ld_word_data = <<0, 0>>
  /\ ld_send = FALSE /\ ld_busy = FALSE
  /\ rd_addr = 0 /\ rd_send = FALSE /\ rd_state = "IDLE" /\ rd_req_prev = FALSE
  /\ qnice_data_o = 0 /\ resp_ack = FALSE /\ clear_src = FALSE
  /\ dest_req = [c \in Channel |-> FALSE] /\ src_rcv = [c \in Channel |-> FALSE]
  /\ dest_out = [loader |-> <<0, 0, 0>>, read_req |-> 0, read_resp |-> 0]
  /\ loading_sync = FALSE /\ clear_sync = FALSE /\ ticked = FALSE
  /\ reset_i = FALSE
  /\ ld_ack = FALSE /\ ld_state = "IDLE" /\ ld_dl_addr = 0
  /\ dl_data = <<0, 0>> /\ dl_wr = FALSE
  /\ req_ack = FALSE /\ rdcore_state = "IDLE" /\ rd_req_addr = 0 /\ rd_dl_addr = 0
  /\ rd_result_data = 0 /\ rd_result_send = FALSE /\ clear_sync_prev = FALSE
  /\ mem = [a \in ReachedByte |-> 0] /\ dirty = 0
  /\ qlWritesLeft = MaxQlWrites /\ resetsLeft = MaxResets
  /\ want = mem /\ seen = {} /\ clears = 0 /\ dropped = FALSE
  /\ spilled = FALSE /\ verdict = "none"

-----------------------------------------------------------------------------
(* The QNICE clock.                                                        *)

(* Seeded fault: the next word may come before the acknowledge is down.      *)
FinishWordEarly ==
  /\ ld_busy /\ ld_send
  /\ ld_send' = ~src_rcv["loader"] /\ ld_busy' = ~src_rcv["loader"]

(* The word was received: lower the request, then wait for the acknowledge   *)
(* to be lowered.                                                          *)
FinishWord ==
  \/ /\ ld_busy /\ ld_send
     /\ ld_send' = ~src_rcv["loader"]
     /\ UNCHANGED ld_busy
  \/ /\ ld_busy /\ ~ld_send
     /\ ld_busy' = src_rcv["loader"]
     /\ UNCHANGED ld_send

loader_qnice ==
  \/ /\ ~ld_busy /\ ce /\ we /\ qnice_addr % 2 = 0
     /\ ld_byte0' = qnice_data
     /\ UNCHANGED <<ld_word_addr, ld_word_data, ld_send, ld_busy>>
  \/ /\ ~ld_busy /\ ce /\ we /\ qnice_addr % 2 = 1
     /\ ld_word_addr' = WordOf(qnice_addr)
     /\ ld_word_data' = <<ld_byte0, qnice_data>>
     /\ ld_send' = TRUE /\ ld_busy' = TRUE
     /\ UNCHANGED ld_byte0
  \/ FinishWord /\ UNCHANGED <<ld_byte0, ld_word_addr, ld_word_data>>
  \/ ~ld_busy /\ ~(ce /\ we) /\ UNCHANGED loadQVars

(* One step of reader_qnice's machine: from where, when, and to where.       *)
ReaderMoves(from, when, to) == rd_state = from /\ when /\ rd_state' = to

reader_qnice ==
  \/ /\ ReaderMoves("IDLE", Reads, "SEND_WAIT_RCV")
     /\ rd_addr' = qnice_addr /\ rd_send' = TRUE
     /\ UNCHANGED <<qnice_data_o, resp_ack>>
  \/ /\ ReaderMoves("SEND_WAIT_RCV", src_rcv["read_req"], "SEND_WAIT_RCV_LOW")
     /\ rd_send' = FALSE
     /\ UNCHANGED <<rd_addr, qnice_data_o, resp_ack>>
  \/ /\ ReaderMoves("SEND_WAIT_RCV_LOW", ~src_rcv["read_req"], "WAIT_RESP")
     /\ UNCHANGED <<rd_addr, rd_send, qnice_data_o, resp_ack>>
  \/ /\ ReaderMoves("WAIT_RESP", dest_req["read_resp"], "RESP_WAIT_LOW")
     /\ qnice_data_o' = dest_out.read_resp /\ resp_ack' = TRUE
     /\ UNCHANGED <<rd_addr, rd_send>>
  \/ /\ ReaderMoves("RESP_WAIT_LOW", ~dest_req["read_resp"], "IDLE")
     /\ resp_ack' = FALSE
     /\ UNCHANGED <<rd_addr, rd_send, qnice_data_o>>
  \/ /\ ~CASE rd_state = "IDLE"              -> Reads
           [] rd_state = "SEND_WAIT_RCV"     -> src_rcv["read_req"]
           [] rd_state = "SEND_WAIT_RCV_LOW" -> ~src_rcv["read_req"]
           [] rd_state = "WAIT_RESP"         -> dest_req["read_resp"]
           [] rd_state = "RESP_WAIT_LOW"     -> ~dest_req["read_resp"]
     /\ UNCHANGED <<rd_addr, rd_send, rd_state, qnice_data_o, resp_ack>>

p_rd_edge == rd_req_prev' = Reads

(* What QNICE's levels have left to cross.  An instruction takes longer than *)
(* the synchronisers, so the next access finds the last one's levels across. *)
Crossed ==
  /\ \A c \in {"loader", "read_req"} : dest_req[c] = send(c)
  /\ src_rcv["read_resp"] = resp_ack
  /\ loading_sync = loading

(* The shell: outside a load it reads bytes and clears the bitmap.           *)
ReadByte ==
  /\ fw = "shell"
  /\ cpu' = "read" /\ qnice_addr' \in Probed \union {DIRTY_BASE}
  /\ seen' = IF qnice_addr' = DIRTY_BASE THEN {dirty} ELSE {}
  /\ UNCHANGED <<qnice_data, fwVars, csrVars>>

ClearBitmap ==
  /\ fw = "shell" /\ errandsLeft > 0
  /\ cpu' = "write" /\ qnice_addr' = DIRTY_CLR
  /\ errandsLeft' = errandsLeft - 1
  /\ UNCHANGED <<qnice_data, fw, file, pos, csrVars, seen, verdict>>

(* LOAD_IMAGE: status "loading", the bytes of the file in order, however     *)
(* many there are, and at its end its length and status "OK".  A file that    *)
(* cannot be read stops the machine with a message (FATAL).  An access to    *)
(* qnice_csr does not reach the bridge, and never waits.                     *)
StartLoad ==
  /\ fw = "shell" /\ errandsLeft > 0
  /\ fw' = "load" /\ req_status' = "LDNG" /\ file' \in Files /\ pos' = 0
  /\ errandsLeft' = errandsLeft - 1 /\ verdict' = "none"
  /\ UNCHANGED <<busVars, req_length, seen>>

LoadByte ==
  /\ fw = "load" /\ pos < file
  /\ cpu' = "write" /\ qnice_addr' = pos /\ qnice_data' = Image[pos]
  /\ pos' = pos + 1
  /\ UNCHANGED <<fw, file, errandsLeft, csrVars, seen, verdict>>

ReadFails ==
  /\ fw = "load" /\ pos < file
  /\ fw' = "fatal"
  /\ UNCHANGED <<busVars, file, pos, errandsLeft, csrVars, seen, verdict>>

TellSize ==
  /\ fw = "load" /\ pos = file
  /\ fw' = "told" /\ req_length' = file
  /\ UNCHANGED <<busVars, file, pos, errandsLeft, req_status, seen, verdict>>

StartParser ==
  /\ fw = "told"
  /\ fw' = "poll" /\ req_status' = "OK"
  /\ UNCHANGED <<busVars, file, pos, errandsLeft, req_length, seen, verdict>>

(* _HNDLCRTROM_1, until there is a verdict.  LOAD_IMAGE returns it, and the   *)
(* shell either goes on or lets the user choose another file.               *)
Poll ==
  /\ fw = "poll" /\ resp_status # "IDLE"
  /\ fw' = "shell" /\ verdict' = resp_status
  /\ UNCHANGED <<busVars, file, pos, errandsLeft, csrVars, seen>>

Cpu ==
  \/ /\ cpu = "fetch" /\ ~qnice_wait_o /\ Crossed
     /\ \/ ReadByte \/ ClearBitmap
        \/ StartLoad \/ LoadByte \/ ReadFails \/ TellSize \/ StartParser \/ Poll
  \/ /\ ce /\ ~qnice_wait_o
     /\ cpu' = "fetch" /\ seen' = {}
     /\ UNCHANGED <<qnice_addr, qnice_data, fwVars, csrVars>>
  \/ /\ \/ qnice_wait_o
        \/ cpu = "fetch" /\ ~Crossed
        \/ cpu = "fetch" /\ fw \in {"shell", "fatal"}
        \/ cpu = "fetch" /\ fw = "poll" /\ resp_status = "IDLE"
     /\ UNCHANGED <<busVars, fwVars, csrVars, seen>>

(* Seeded fault: a verdict stays until the next one.                        *)
VerdictStays ==
  \/ /\ val_state = "VS_IDLE" /\ req_status = "OK"
     /\ resp_status' = IF req_length <= MaxBytes THEN "READY" ELSE "ERROR"
     /\ val_state' = "VS_DONE"
  \/ /\ ~(val_state = "VS_IDLE" /\ req_status = "OK")
     /\ UNCHANGED <<resp_status, val_state>>

(* Seeded fault: the verdict stands for one clock.                          *)
VerdictPulses ==
  \/ /\ val_state = "VS_IDLE" /\ req_status = "OK"
     /\ resp_status' = IF req_length <= MaxBytes THEN "READY" ELSE "ERROR"
     /\ val_state' = "VS_DONE"
  \/ /\ ~(val_state = "VS_IDLE" /\ req_status = "OK")
     /\ resp_status' = "IDLE"
     /\ val_state' = IF req_status = "OK" THEN val_state ELSE "VS_IDLE"

p_mdv1_size_check ==
  \/ /\ val_state = "VS_IDLE" /\ req_status = "OK"
     /\ resp_status' = IF req_length <= MaxBytes THEN "READY" ELSE "ERROR"
     /\ val_state' = "VS_DONE"
  \/ /\ req_status # "OK"
     /\ resp_status' = "IDLE" /\ val_state' = "VS_IDLE"
  \/ /\ val_state = "VS_DONE" /\ req_status = "OK"
     /\ UNCHANGED <<resp_status, val_state>>

(* QNICE goes on after the second byte of a word: it is to be in memory.      *)
WordWritten == cpu = "write" /\ cpu' = "fetch" /\ qnice_addr % 2 = 1

(* A rising edge, and the falling edge after it, on which qnice_csr and the   *)
(* size check work.  The core clock is the faster one: it ticks between any  *)
(* two edges of this.                                                       *)
QnicEdge ==
  /\ ticked /\ ticked' = FALSE
  /\ Cpu
  /\ p_mdv1_size_check
  /\ loader_qnice
  /\ reader_qnice
  /\ p_rd_edge
  /\ clear_src' = clear_req
  /\ LET a == 2 * WordOf(qnice_addr)
     IN  want' = IF WordWritten
                   THEN [want EXCEPT ![a] = Image[qnice_addr - 1], ![a + 1] = Image[qnice_addr]]
                   ELSE want
  /\ spilled' = IF fw = "shell" /\ fw' = "load" THEN FALSE
                ELSE spilled \/ (WordWritten /\ WordOf(qnice_addr) >= Words)
  /\ clears' = IF clear_req /\ ~clear_src THEN clears + 1 ELSE clears
  /\ UNCHANGED <<syncVars, reset_i, loadCVars, readCVars, clear_sync_prev, bufVars,
                 resetsLeft, dropped>>

-----------------------------------------------------------------------------
(* The synchronisers: a level crosses when it does, with the data that goes  *)
(* with it.                                                                *)

src_in(c) == CASE c = "loader"    -> <<ld_word_addr, ld_word_data[1], ld_word_data[2]>>
               [] c = "read_req"  -> rd_addr
               [] c = "read_resp" -> rd_result_data

Synchronised == /\ UNCHANGED <<cpuVars, loadQVars, readQVars, clear_src, clear_sync, ticked,
                               reset_i, loadCVars, readCVars, clear_sync_prev, bufVars,
                               resetsLeft, histVars>>

CrossReq(c) ==
  /\ dest_req[c] # send(c)
  /\ dest_req' = [dest_req EXCEPT ![c] = send(c)]
  /\ dest_out' = IF send(c) THEN [dest_out EXCEPT ![c] = src_in(c)] ELSE dest_out
  /\ UNCHANGED <<src_rcv, loading_sync>>
  /\ Synchronised

CrossRcv(c) ==
  /\ src_rcv[c] # ack(c)
  /\ src_rcv' = [src_rcv EXCEPT ![c] = ack(c)]
  /\ UNCHANGED <<dest_req, dest_out, loading_sync>>
  /\ Synchronised

CrossLoading ==
  /\ loading_sync # loading
  /\ loading_sync' = loading
  /\ UNCHANGED <<dest_req, dest_out, src_rcv>>
  /\ Synchronised

-----------------------------------------------------------------------------
(* The core clock.                                                         *)

loader_core ==
  \/ /\ reset_i
     /\ dl_wr' = FALSE /\ ld_ack' = FALSE /\ ld_state' = "IDLE"
     /\ UNCHANGED <<ld_dl_addr, dl_data>>
  \/ /\ ~reset_i /\ ld_state = "IDLE" /\ dest_req["loader"]
     /\ ld_dl_addr' = dest_out.loader[1]
     /\ dl_data' = <<dest_out.loader[2], dest_out.loader[3]>>
     /\ dl_wr' = TRUE /\ ld_ack' = TRUE /\ ld_state' = "WAIT_REQ_LOW"
  \/ /\ ~reset_i /\ ld_state = "WAIT_REQ_LOW" /\ ~dest_req["loader"]
     /\ dl_wr' = FALSE /\ ld_ack' = FALSE /\ ld_state' = "IDLE"
     /\ UNCHANGED <<ld_dl_addr, dl_data>>
  \/ /\ ~reset_i /\ dest_req["loader"] = (ld_state = "WAIT_REQ_LOW")
     /\ dl_wr' = FALSE
     /\ UNCHANGED <<ld_ack, ld_state, ld_dl_addr, dl_data>>

(* The byte of an answer: of the word that port A shows, or of the bitmap.    *)
ResultData(dl_q) ==
  IF rd_req_addr = DIRTY_BASE THEN dirty ELSE dl_q[1 + (rd_req_addr % 2)]

(* One step of reader_core's machine.                                      *)
CoreMoves(from, when, to) ==
  ~reset_i /\ rdcore_state = from /\ when /\ rdcore_state' = to

(* Seeded fault: the answer is offered for one cycle.                        *)
PulseResult ==
  \/ CoreMoves("SEND_WAIT_RCV", TRUE, "SEND_WAIT_RCV_LOW") /\ rd_result_send' = FALSE
  \/ CoreMoves("SEND_WAIT_RCV_LOW", ~src_rcv["read_resp"], "IDLE") /\ UNCHANGED rd_result_send

(* The answer stays until QNICE has acknowledged it.                        *)
FinishResult ==
  \/ /\ CoreMoves("SEND_WAIT_RCV", src_rcv["read_resp"], "SEND_WAIT_RCV_LOW")
     /\ rd_result_send' = FALSE
  \/ /\ CoreMoves("SEND_WAIT_RCV_LOW", ~src_rcv["read_resp"], "IDLE")
     /\ UNCHANGED rd_result_send

reader_core(dl_q_valid, dl_q) ==
  \/ /\ reset_i
     /\ req_ack' = FALSE /\ rd_result_send' = FALSE /\ rdcore_state' = "IDLE"
     /\ UNCHANGED <<rd_req_addr, rd_dl_addr, rd_result_data>>
  \/ /\ CoreMoves("IDLE", dest_req["read_req"], "REQ_WAIT_LOW")
     /\ rd_req_addr' = dest_out.read_req
     /\ rd_dl_addr' = WordOf(dest_out.read_req)
     /\ req_ack' = TRUE
     /\ UNCHANGED <<rd_result_data, rd_result_send>>
  \/ /\ CoreMoves("REQ_WAIT_LOW", ~dest_req["read_req"], "LATCH1")
     /\ req_ack' = FALSE
     /\ UNCHANGED <<rd_req_addr, rd_dl_addr, rd_result_data, rd_result_send>>
  \/ /\ CoreMoves("LATCH1", dl_q_valid, "LATCH2")
     /\ UNCHANGED <<req_ack, rd_req_addr, rd_dl_addr, rd_result_data, rd_result_send>>
  \/ /\ CoreMoves("LATCH2", TRUE, "SEND_WAIT_RCV")
     /\ rd_result_data' = ResultData(dl_q)
     /\ rd_result_send' = TRUE
     /\ UNCHANGED <<req_ack, rd_req_addr, rd_dl_addr>>
  \/ FinishResult /\ UNCHANGED <<req_ack, rd_req_addr, rd_dl_addr, rd_result_data>>
  \/ /\ ~reset_i
     /\ ~CASE rdcore_state = "IDLE"              -> dest_req["read_req"]
           [] rdcore_state = "REQ_WAIT_LOW"      -> ~dest_req["read_req"]
           [] rdcore_state = "LATCH1"            -> dl_q_valid
           [] rdcore_state = "LATCH2"            -> TRUE
           [] rdcore_state = "SEND_WAIT_RCV"     -> src_rcv["read_resp"]
           [] rdcore_state = "SEND_WAIT_RCV_LOW" -> ~src_rcv["read_resp"]
     /\ UNCHANGED readCVars

p_clear_edge == clear_sync_prev' = clear_sync

(* The buffer behind port A, the bitmap (p_dirty) and the QL's own writes,    *)
(* which mdv.v makes outside loads only.                                   *)
Buffer ==
  \/ /\ mem' = IF dl_wr THEN [mem EXCEPT ![2 * dl_addr_o] = dl_data[1],
                                         ![2 * dl_addr_o + 1] = dl_data[2]]
                        ELSE mem
     /\ dirty' = IF reset_i \/ dirty_clear_o THEN 0 ELSE dirty
     /\ UNCHANGED <<want, qlWritesLeft>>
  \/ /\ ~reset_i /\ ~dl_wr /\ ~loading_sync /\ qlWritesLeft > 0
     /\ \E a \in Probed, v \in QlByte :
          mem' = [mem EXCEPT ![a] = v] /\ want' = [want EXCEPT ![a] = v]
     /\ dirty' = IF dirty_clear_o THEN 0 ELSE 1
     /\ qlWritesLeft' = qlWritesLeft - 1

(* What the byte that QNICE reads shows in this clock: the bitmap itself, a   *)
(* byte of the buffer when port A is looked at for its word.                *)
Shown(dl_q) ==
  IF ~Reads THEN {}
  ELSE IF qnice_addr = DIRTY_BASE THEN {dirty'}
  ELSE IF ~reset_i /\ rdcore_state = "LATCH2" /\ dl_addr_o = WordOf(qnice_addr)
  THEN {dl_q[1 + (qnice_addr % 2)]}
  ELSE {}

(* Port A's output is looked at in LATCH2 only.                             *)
PortA == IF rdcore_state = "LATCH2" THEN Byte \X Byte ELSE {<<0, 0>>}

CoreEdge(dl_q_valid) ==
  /\ UNCHANGED <<cpuVars, loadQVars, readQVars, clear_src, dest_req, dest_out, src_rcv,
                 loading_sync, reset_i, resetsLeft>>
  /\ loader_core
  /\ p_clear_edge
  /\ clear_sync' = clear_src
  /\ Buffer
  /\ \E dl_q \in PortA :
       reader_core(dl_q_valid, dl_q) /\ seen' = seen \union Shown(dl_q)
  /\ UNCHANGED spilled
  /\ clears' = IF dirty_clear_o THEN clears - 1 ELSE clears
  /\ dropped' = (dropped \/ (reset_i /\ rdcore_state # "IDLE"))
  /\ ticked' = TRUE

-----------------------------------------------------------------------------
(* The reset button (reset_manager.vhd).  A press resets the core for 50 ms  *)
(* at least, which is ages for the synchronisers and for QNICE; from 1.5 s   *)
(* on it resets QNICE as well.                                             *)

Press ==
  /\ resetsLeft > 0 /\ ~reset_i
  /\ reset_i' = TRUE /\ resetsLeft' = resetsLeft - 1
  /\ UNCHANGED <<cpuVars, loadQVars, readQVars, clear_src, syncVars, ticked, loadCVars,
                 readCVars, clear_sync_prev, bufVars, histVars>>

(* The core's registers are in reset, every level has crossed, and QNICE has *)
(* done what it can do without the core.                                    *)
Settled ==
  /\ reset_i
  /\ ~ld_ack /\ ~req_ack /\ rdcore_state = "IDLE" /\ ~rd_result_send /\ ld_state = "IDLE"
  /\ \A c \in Channel : dest_req[c] = send(c) /\ ~src_rcv[c]
  /\ loading_sync = loading
  /\ rd_state \in {"IDLE", "SEND_WAIT_RCV", "WAIT_RESP"} /\ ld_busy = ld_send

Release ==
  /\ Settled
  /\ reset_i' = FALSE
  /\ UNCHANGED <<cpuVars, loadQVars, readQVars, clear_src, syncVars, ticked, loadCVars,
                 readCVars, clear_sync_prev, bufVars, resetsLeft, histVars>>

(* A long press: the CPU starts over, and the word of an unfinished transfer *)
(* stays out of the buffer.                                                *)
ResetQnice ==
  /\ Settled
  /\ cpu' = "fetch" /\ fw' = "shell" /\ verdict' = "none"
  /\ req_status' = "NONE" /\ req_length' = 0
  /\ resp_status' = "IDLE" /\ val_state' = "VS_IDLE"
  /\ ld_busy' = FALSE /\ ld_send' = FALSE
  /\ rd_state' = "IDLE" /\ rd_send' = FALSE
  /\ want' = mem /\ seen' = {} /\ dropped' = FALSE
  /\ UNCHANGED <<qnice_addr, qnice_data, file, pos, errandsLeft,
                 ld_byte0, ld_word_addr, ld_word_data,
                 rd_addr, rd_req_prev, qnice_data_o, resp_ack, clear_src,
                 syncVars, ticked, reset_i, loadCVars, readCVars, clear_sync_prev,
                 bufVars, resetsLeft, clears, spilled>>

-----------------------------------------------------------------------------
Next ==
  \/ QnicEdge
  \/ \E dl_q_valid \in BOOLEAN : CoreEdge(dl_q_valid)
  \/ \E c \in Channel : CrossReq(c) \/ CrossRcv(c)
  \/ CrossLoading
  \/ Press \/ Release \/ ResetQnice

Spec == Init /\ [][Next]_vars

(* Both clocks run, levels cross, port A becomes valid in the end, and the   *)
(* button is let go.                                                       *)
FairSpec ==
  /\ Spec
  /\ WF_vars(QnicEdge) /\ WF_vars(CoreEdge(TRUE))
  /\ \A c \in Channel : WF_vars(CrossReq(c) \/ CrossRcv(c))
  /\ WF_vars(CrossLoading)
  /\ WF_vars(Release)

-----------------------------------------------------------------------------
(* Properties.                                                             *)

\* The type of every register and signal.
TypeOK ==
  /\ cpu \in {"fetch", "read", "write"} /\ qnice_addr \in Address /\ qnice_data \in Byte
  /\ fw \in {"shell", "load", "told", "poll", "fatal"} /\ {file, pos} \subseteq Position
  /\ req_status \in {"NONE", "LDNG", "OK"} /\ req_length \in Position
  /\ resp_status \in {"IDLE", "READY", "ERROR"} /\ val_state \in {"VS_IDLE", "VS_DONE"}
  /\ errandsLeft \in 0 .. MaxErrands
  /\ ld_byte0 \in Byte /\ ld_word_addr \in 0 .. Span - 1 /\ ld_word_data \in Byte \X Byte
  /\ ld_send \in BOOLEAN /\ ld_busy \in BOOLEAN
  /\ rd_addr \in Address /\ rd_send \in BOOLEAN
  /\ rd_state \in {"IDLE", "SEND_WAIT_RCV", "SEND_WAIT_RCV_LOW", "WAIT_RESP", "RESP_WAIT_LOW"}
  /\ rd_req_prev \in BOOLEAN /\ qnice_data_o \in Value /\ resp_ack \in BOOLEAN
  /\ clear_src \in BOOLEAN
  /\ dest_req \in [Channel -> BOOLEAN] /\ src_rcv \in [Channel -> BOOLEAN]
  /\ dest_out \in [loader : (0 .. Span - 1) \X Byte \X Byte, read_req : Address,
                   read_resp : Value]
  /\ loading_sync \in BOOLEAN /\ clear_sync \in BOOLEAN /\ ticked \in BOOLEAN
  /\ reset_i \in BOOLEAN /\ ld_ack \in BOOLEAN /\ ld_state \in {"IDLE", "WAIT_REQ_LOW"}
  /\ ld_dl_addr \in 0 .. Span - 1 /\ dl_data \in Byte \X Byte /\ dl_wr \in BOOLEAN
  /\ req_ack \in BOOLEAN
  /\ rdcore_state \in {"IDLE", "REQ_WAIT_LOW", "LATCH1", "LATCH2", "SEND_WAIT_RCV",
                       "SEND_WAIT_RCV_LOW"}
  /\ rd_req_addr \in Address /\ rd_dl_addr \in 0 .. Span - 1
  /\ rd_result_data \in Value /\ rd_result_send \in BOOLEAN /\ clear_sync_prev \in BOOLEAN
  /\ mem \in [ReachedByte -> Byte] /\ dirty \in {0, 1}
  /\ qlWritesLeft \in 0 .. MaxQlWrites /\ resetsLeft \in 0 .. MaxResets
  /\ want \in [ReachedByte -> Byte] /\ seen \in SUBSET Value /\ clears \in 0 .. 1
  /\ dropped \in BOOLEAN /\ spilled \in BOOLEAN
  /\ verdict \in {"none", "READY", "ERROR"}

\* The CPU takes the answer to the read it waits for, and not to an earlier one
\* of the same or another address: the bitmap as it has been since it asked, or
\* the byte it asked for of the word that port A showed, at that word's address,
\* when reader_core looked in this very access.
AnswerIsThisReads == Reads /\ ~qnice_wait_o => qnice_data_o \in seen

\* When QNICE goes on after a word, the word is in the buffer, where and as it
\* was meant, whatever the reader does with the shared address and whenever the
\* core is reset.
WordsLand == ~ld_busy => mem = want

\* A word lands under the load flag: mdv.v sees no write after the load's end.
LandsInLoad == dl_wr => loading_sync

\* A write to the clear register becomes one pulse, no fewer and no more.
OneClear == clears \in 0 .. 1 /\ (dirty_clear_o => clears = 1)

\* What LOAD_IMAGE returns is about the file it has just loaded, and not about
\* the one before: an image is accepted exactly if it is not too long, and a load
\* that wrote into what follows the buffer is rejected, so that the user knows.
VerdictIsThisLoads ==
  verdict # "none" => /\ verdict = "READY" <=> file <= MaxBytes
                      /\ spilled => verdict = "ERROR"

\* A load ends: no handshake keeps a byte for ever, whatever happens to the core,
\* and the loader, which polls without a limit, gets a verdict.
LoadEnds == (fw = "load") ~> (fw \in {"shell", "fatal"})

\* Every access of QNICE ends, unless the core was reset under a read it had
\* already taken.
AccessesEnd == ce ~> (cpu = "fetch" \/ dropped)

\* Every access of QNICE ends, also when the core is reset meanwhile.
AccessesEndAfterReset == ce ~> cpu = "fetch"

(* What a level still has to change: up and down, or down.                   *)
Changes(level, rises) == IF level THEN 1 ELSE IF rises THEN 2 ELSE 0

(* The steps that the word under way still takes: of loader_qnice and         *)
(* loader_core, and the crossings between them.                             *)
ToWord == (IF ld_send THEN 2 ELSE 1) + Changes(ld_ack, ld_send)
          + Changes(dest_req["loader"], ld_send) + Changes(src_rcv["loader"], ld_send)

\* A word takes eight steps to memory and back: whichever side moves, it is one
\* less, as long as the core is not reset.
WordAdvances ==
  [][~reset_i /\ ~reset_i' /\ ld_busy =>
       /\ ToWord \in 1 .. 8
       /\ \/ ld_busy' /\ ToWord' = ToWord - 1
          \/ ~ld_busy' /\ ToWord = 1
          \/ UNCHANGED <<ld_busy, ld_send, ld_ack, dest_req["loader"], src_rcv["loader"]>>]_vars

(* The steps that the read under way still takes: of reader_qnice, of         *)
(* reader_core, which may still be busy with the end of the last one, and of  *)
(* the crossings between them.                                              *)
ToRead ==
  LET asks    == rd_state \in {"IDLE", "SEND_WAIT_RCV"}
      expects == rd_state # "RESP_WAIT_LOW"
  IN  (CASE rd_state = "IDLE"              -> 5
         [] rd_state = "SEND_WAIT_RCV"     -> 4
         [] rd_state = "SEND_WAIT_RCV_LOW" -> 3
         [] rd_state = "WAIT_RESP"         -> 2
         [] rd_state = "RESP_WAIT_LOW"     -> 1)
      + (CASE rdcore_state = "SEND_WAIT_RCV_LOW" -> IF asks THEN 6 ELSE 0
           [] rdcore_state = "IDLE"              -> 5
           [] rdcore_state = "REQ_WAIT_LOW"      -> 4
           [] rdcore_state = "LATCH1"            -> 3
           [] rdcore_state = "LATCH2"            -> 2
           [] rdcore_state = "SEND_WAIT_RCV"     -> 1)
      + Changes(dest_req["read_req"], asks) + Changes(src_rcv["read_req"], asks)
      + Changes(dest_req["read_resp"], expects)
      + (IF ~src_rcv["read_resp"] THEN 1 ELSE IF expects THEN 2 ELSE 0)

ReadWaits == Reads /\ qnice_wait_o /\ ~reset_i /\ ~dropped

\* A read takes 19 steps at most: whichever side moves, it is one less, unless
\* the core was reset under it.
ReadAdvances ==
  [][ReadWaits /\ ReadWaits' =>
       /\ ToRead \in 1 .. 19
       /\ \/ ToRead' = ToRead - 1
          \/ UNCHANGED <<rd_state, rdcore_state, dest_req, src_rcv>>]_vars

(* Somebody has a step to take: a level to cross, or a machine that sees      *)
(* what it waits for.                                                       *)
SomebodyMoves ==
  \/ \E c \in Channel : dest_req[c] # send(c) \/ src_rcv[c] # ack(c)
  \/ CASE rd_state = "IDLE"              -> Reads
       [] rd_state = "SEND_WAIT_RCV"     -> src_rcv["read_req"]
       [] rd_state = "SEND_WAIT_RCV_LOW" -> ~src_rcv["read_req"]
       [] rd_state = "WAIT_RESP"         -> dest_req["read_resp"]
       [] rd_state = "RESP_WAIT_LOW"     -> ~dest_req["read_resp"]
  \/ CASE rdcore_state = "IDLE"              -> dest_req["read_req"]
       [] rdcore_state = "REQ_WAIT_LOW"      -> ~dest_req["read_req"]
       [] rdcore_state \in {"LATCH1", "LATCH2"} -> TRUE
       [] rdcore_state = "SEND_WAIT_RCV"     -> src_rcv["read_resp"]
       [] rdcore_state = "SEND_WAIT_RCV_LOW" -> ~src_rcv["read_resp"]

\* The two sides of a read do not wait for one another, unless the core was
\* reset under it.
NoReadStuck == ReadWaits => SomebodyMoves

(* A read that the core has not forgotten: what it has of it with each step   *)
(* of reader_qnice.                                                         *)
ReadKept ==
  ~dropped =>
    /\ rd_state = "SEND_WAIT_RCV" /\ src_rcv["read_req"] => rdcore_state = "REQ_WAIT_LOW"
    /\ rd_state \in {"SEND_WAIT_RCV_LOW", "WAIT_RESP", "RESP_WAIT_LOW"} => rdcore_state # "IDLE"

(* The firmware's way through a load, and the access it has on the bus.      *)
Firmware ==
  /\ fw \in {"load", "told"} => loading
  /\ fw = "poll" => req_status = "OK"
  /\ fw = "load" => pos <= file
  /\ cpu = "read" => fw = "shell" /\ qnice_addr \in Probed \union {DIRTY_BASE}
  /\ cpu = "write" => \/ fw = "shell" /\ qnice_addr = DIRTY_CLR
                      \/ /\ fw = "load" /\ pos > 0
                         /\ qnice_addr = pos - 1 /\ qnice_data = Image[pos - 1]
  /\ fw = "load" /\ cpu = "fetch" /\ pos % 2 = 1 => ld_byte0 = Image[pos - 1]
  /\ cpu = "write" /\ qnice_addr % 2 = 1 => ld_byte0 = Image[qnice_addr - 1]

(* What the size check and the firmware know of the load under way.          *)
Checked ==
  /\ fw \in {"told", "poll"} => req_length = file
  /\ fw = "told" => resp_status = "IDLE" /\ val_state = "VS_IDLE"
  /\ fw = "poll" =>
       \/ resp_status = "IDLE" /\ val_state = "VS_IDLE"
       \/ resp_status = (IF file <= MaxBytes THEN "READY" ELSE "ERROR") /\ val_state = "VS_DONE"
  /\ fw # "shell" => verdict = "none"
  /\ (fw # "shell" \/ verdict # "none") /\ spilled => file > MaxBytes
  /\ verdict # "none" => verdict = IF file <= MaxBytes THEN "READY" ELSE "ERROR"

(* A word's handshake: where the four levels may be.                        *)
WordHandshake ==
  /\ ld_send \/ src_rcv["loader"] => ld_busy
  /\ ld_send /\ ld_ack => dest_req["loader"]
  /\ ~ld_send /\ ld_ack => src_rcv["loader"]
  /\ ~reset_i /\ ld_send /\ src_rcv["loader"] => ld_ack
  /\ ~reset_i /\ ~ld_send /\ dest_req["loader"] => ld_ack
  /\ ce => ~ld_busy /\ ~dest_req["loader"]
  /\ ld_ack <=> ld_state = "WAIT_REQ_LOW"
  /\ dl_wr => ld_ack
  /\ ld_busy => fw = "load" /\ cpu = "fetch"
  /\ fw = "load" /\ (ld_busy \/ cpu = "write") => loading_sync

Put(m, w, d) == [m EXCEPT ![2 * w] = d[1], ![2 * w + 1] = d[2]]

(* The word on its way: it is in memory once the core has acknowledged it.   *)
WordUnderWay ==
  /\ want = IF ld_busy THEN Put(mem, ld_word_addr, ld_word_data) ELSE mem
  /\ ld_busy /\ dest_req["loader"] =>
       dest_out.loader = <<ld_word_addr, ld_word_data[1], ld_word_data[2]>>
  /\ dl_wr => ld_dl_addr = ld_word_addr /\ dl_data = ld_word_data /\ rdcore_state = "IDLE"
  /\ ld_busy /\ ~dl_wr /\ (ld_ack \/ ~ld_send \/ src_rcv["loader"]) => want = mem

(* A read's request: its handshake, and nothing of it left while words come. *)
RequestHandshake ==
  /\ rd_send <=> rd_state = "SEND_WAIT_RCV"
  /\ req_ack <=> rdcore_state = "REQ_WAIT_LOW"
  /\ rd_send /\ req_ack => dest_req["read_req"]
  /\ ~rd_send /\ req_ack => src_rcv["read_req"]
  /\ ~reset_i /\ rd_send /\ src_rcv["read_req"] => req_ack
  /\ ~reset_i /\ ~rd_send /\ dest_req["read_req"] => req_ack
  /\ src_rcv["read_req"] => rd_state \in {"SEND_WAIT_RCV", "SEND_WAIT_RCV_LOW"}
  /\ rd_send /\ src_rcv["read_req"] => rdcore_state \in {"IDLE", "REQ_WAIT_LOW"}
  /\ dest_req["read_req"] =>
       /\ rdcore_state \notin {"LATCH1", "LATCH2", "SEND_WAIT_RCV"}
       /\ ~dest_req["read_resp"] /\ rd_state # "RESP_WAIT_LOW"
       /\ ~(ce /\ rd_state = "IDLE")
  /\ cpu = "write" \/ ld_busy =>
       rd_state = "IDLE" /\ ~dest_req["read_req"] /\ ~src_rcv["read_resp"]

(* A read's answer, and how far reader_core is with each step of             *)
(* reader_qnice.                                                           *)
AnswerHandshake ==
  /\ resp_ack <=> rd_state = "RESP_WAIT_LOW"
  /\ rd_result_send <=> rdcore_state = "SEND_WAIT_RCV"
  /\ rd_state = "IDLE" => rdcore_state \in {"IDLE", "SEND_WAIT_RCV_LOW"}
  /\ rd_state = "SEND_WAIT_RCV" =>
       rdcore_state \in {"IDLE", "SEND_WAIT_RCV_LOW", "REQ_WAIT_LOW"}
  /\ rd_state = "SEND_WAIT_RCV_LOW" =>
       rdcore_state \in {"IDLE", "REQ_WAIT_LOW", "LATCH1", "LATCH2", "SEND_WAIT_RCV"}
  /\ rd_state = "WAIT_RESP" =>
       rdcore_state \in {"IDLE", "LATCH1", "LATCH2", "SEND_WAIT_RCV"}
  /\ rd_state = "RESP_WAIT_LOW" =>
       \/ rdcore_state = "SEND_WAIT_RCV" /\ dest_req["read_resp"]
       \/ rdcore_state = "SEND_WAIT_RCV_LOW" /\ src_rcv["read_resp"]
       \/ rdcore_state = "IDLE" /\ reset_i
  /\ dest_req["read_resp"] =>
       \/ rd_state = "RESP_WAIT_LOW"
       \/ /\ rd_state \in {"SEND_WAIT_RCV_LOW", "WAIT_RESP"}
          /\ rdcore_state = "SEND_WAIT_RCV" \/ (rdcore_state = "IDLE" /\ reset_i)
  /\ src_rcv["read_resp"] =>
       \/ rdcore_state = "SEND_WAIT_RCV" /\ rd_state = "RESP_WAIT_LOW"
       \/ rdcore_state = "SEND_WAIT_RCV_LOW"
       \/ rdcore_state = "IDLE" /\ reset_i

(* The byte on its way to the CPU, from the address to qnice_data_o.         *)
AnswerUnderWay ==
  Reads =>
    /\ qnice_addr = DIRTY_BASE => dirty \in seen
    /\ rd_state # "IDLE" => rd_addr = qnice_addr
    /\ rd_state = "RESP_WAIT_LOW" \/ (rd_state = "IDLE" /\ rd_req_prev) =>
         qnice_data_o \in seen
    /\ dest_req["read_req"] => dest_out.read_req = qnice_addr
    /\ rdcore_state \in {"REQ_WAIT_LOW", "LATCH1", "LATCH2"} =>
         rd_req_addr = qnice_addr /\ rd_dl_addr = WordOf(qnice_addr)
    /\ rd_state \in {"SEND_WAIT_RCV_LOW", "WAIT_RESP"} =>
         /\ rdcore_state = "SEND_WAIT_RCV" => rd_result_data \in seen
         /\ dest_req["read_resp"] => dest_out.read_resp \in seen

(* A clear counts from QNICE's write to the end of its pulse.                *)
ClearUnderWay ==
  /\ clears = IF (clear_src /\ ~clear_sync) \/ dirty_clear_o THEN 1 ELSE 0
  /\ ticked => clear_sync = clear_src

(* The inductive invariant behind the safety properties.                    *)
IInv ==
  /\ TypeOK /\ Firmware /\ Checked /\ WordHandshake /\ WordUnderWay
  /\ RequestHandshake /\ AnswerHandshake /\ AnswerUnderWay /\ ClearUnderWay
=============================================================================
