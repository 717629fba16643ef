----------------------- MODULE MdvQniceBridge_proofs -----------------------
(***************************************************************************)
(* Proofs of the safety properties of MdvQniceBridge, for every buffer,      *)
(* reach of port A, limit, set of files and image, and any number of loads,  *)
(* clears, QL writes and presses of the reset button.                       *)
(*                                                                         *)
(* The invariant follows one transfer at a time.  A handshake has four       *)
(* levels (request and acknowledge, each on both sides): WordHandshake,      *)
(* RequestHandshake and AnswerHandshake say which of their combinations      *)
(* occur, in and out of reset, and that nothing of an access is left when    *)
(* the CPU begins the next.  On top of them WordUnderWay says where the word *)
(* is that memory does not have yet, and AnswerUnderWay that every register  *)
(* which holds an answer to the read under way holds what the byte has shown *)
(* since.  Firmware and Checked do the same for a load as a whole.           *)
(***************************************************************************)
EXTENDS MdvQniceBridge, TLAPS

(* The assumptions on the constants, one by one.                            *)
LEMMA Constants ==
  /\ Words \in Nat /\ Span \in Nat /\ 0 < Words /\ Words <= Span /\ MaxBytes \in 0 .. 2 * Words
  /\ 0 \in Byte /\ Probed \subseteq BufferByte /\ QlByte \subseteq Byte
  /\ MaxErrands \in Nat /\ MaxQlWrites \in Nat /\ MaxResets \in Nat
  /\ Image \in [Position -> Byte] /\ Files \subseteq Nat /\ Files # {}
  BY ConstantsAssumption

(* Every position of a file that is loaded is one.                           *)
LEMMA Positions ==
  /\ \A n \in Files : \A p \in 0 .. n : p \in Position
  /\ Position \subseteq Nat /\ 0 \in Position
<1>1. \A n \in Files : n \in Nat
  BY Constants
<1>2. \A n \in Files : 0 .. n \subseteq Position
  BY DEF Position
<1>3. Position \subseteq Nat
  BY <1>1 DEF Position
<1>4. PICK n \in Files : TRUE
  BY Constants
<1>5. 0 \in 0 .. n
  BY <1>1, <1>4
<1> QED
  BY <1>2, <1>3, <1>4, <1>5

(* A small number is its own remainder.                                     *)
LEMMA Small == ASSUME NEW x \in Nat, NEW n \in Nat, x < n PROVE x % n = x
  OBVIOUS

(* A remainder is below its modulus.                                        *)
LEMMA SmallMod == ASSUME NEW x \in Nat, NEW n \in Nat, 0 < n PROVE x % n \in 0 .. n - 1
  OBVIOUS

(* The word of a byte.                                                       *)
LEMMA WordFacts ==
  ASSUME NEW a \in Nat
  PROVE  /\ WordOf(a) \in 0 .. Span - 1
         /\ a \in BufferByte => 2 * WordOf(a) + (a % 2) = a
         /\ WordOf(a) >= Words => a >= 2 * Words
<1>1. a \div 2 \in Nat /\ 2 * (a \div 2) + (a % 2) = a /\ a % 2 \in {0, 1}
  OBVIOUS
<1>2. a < 2 * Words => a \div 2 < Span /\ a \div 2 < Words
  BY <1>1, Constants
<1>3. a < 2 * Words => WordOf(a) = a \div 2
  BY <1>1, <1>2, Small, Constants DEF WordOf
<1>4. WordOf(a) \in 0 .. Span - 1
  BY <1>1, SmallMod, Constants DEF WordOf
<1>5. a \in BufferByte => a < 2 * Words
  BY Constants DEF BufferByte
<1> QED
  BY <1>1, <1>2, <1>3, <1>4, <1>5, Constants

(* A word is its two bytes.                                                 *)
LEMMA Pairs == \A d \in Byte \X Byte : d[1] \in Byte /\ d[2] \in Byte /\ d = <<d[1], d[2]>>
  OBVIOUS

(* An address with a word is its three parts.                               *)
LEMMA Triples ==
  \A d \in (0 .. Span - 1) \X Byte \X Byte :
    d[1] \in 0 .. Span - 1 /\ d[2] \in Byte /\ d[3] \in Byte
  OBVIOUS

USE DEF busVars, fwVars, csrVars, checkVars, cpuVars, loadQVars, readQVars, syncVars,
        loadCVars, readCVars, bufVars, histVars, Synchronised

-----------------------------------------------------------------------------
(* The firmware and the size check.                                          *)

(* An access of the CPU to the bus, as the bridge's processes see it.        *)
LEMMA Accesses ==
  ASSUME IInv
  PROVE  /\ cpu \in {"fetch", "read", "write"} /\ qnice_addr \in Nat /\ pos \in Nat /\ file \in Nat
         /\ cpu = "write" => ~qnice_wait_o
         /\ DIRTY_CLR % 2 = 0 /\ DIRTY_CLR \in Nat
         /\ cpu = "write" /\ qnice_addr % 2 = 1 =>
              /\ fw = "load" /\ pos - 2 \in Position /\ pos - 1 \in Position
              /\ qnice_addr = pos - 1 /\ pos <= file
              /\ ld_byte0 = Image[qnice_addr - 1] /\ qnice_data = Image[qnice_addr]
<1>1. cpu \in {"fetch", "read", "write"} /\ qnice_addr \in Nat /\ pos \in Nat /\ file \in Position
  <2>1. Address \subseteq Nat
    BY Positions, Constants DEF Address, DIRTY_CLR
  <2> QED
    BY <2>1, Positions DEF IInv, TypeOK
<1>2. cpu = "write" => ~qnice_wait_o
  BY DEF IInv, WordHandshake, RequestHandshake, qnice_wait_o, Reads, ce, we
<1>3. DIRTY_CLR % 2 = 0 /\ DIRTY_CLR \in Nat
  BY Constants DEF DIRTY_CLR
<1>4. ASSUME cpu = "write", qnice_addr % 2 = 1
      PROVE  /\ fw = "load" /\ pos - 2 \in Position /\ pos - 1 \in Position
             /\ qnice_addr = pos - 1 /\ pos <= file
             /\ ld_byte0 = Image[qnice_addr - 1] /\ qnice_data = Image[qnice_addr]
  <2>1. fw = "load" /\ pos > 0 /\ qnice_addr = pos - 1 /\ qnice_data = Image[pos - 1]
    BY <1>3, <1>4 DEF IInv, Firmware
  <2>2. pos <= file /\ ld_byte0 = Image[qnice_addr - 1]
    BY <1>4, <2>1 DEF IInv, Firmware
  <2>3. PICK n \in Files : file \in 0 .. n
    BY <1>1 DEF Position
  <2>4. n \in Nat
    BY Constants
  <2>5. pos - 2 \in 0 .. n /\ pos - 1 \in 0 .. n
    BY <1>1, <1>4, <2>1, <2>2, <2>3, <2>4
  <2> QED
    BY <2>1, <2>2, <2>5, Positions
<1> QED
  BY <1>1, <1>2, <1>3, <1>4, Positions

(* Every step keeps Firmware: only QNICE's clock and its reset move it.     *)
LEMMA FirmwareStep == ASSUME IInv, Next PROVE Firmware'
<1> USE DEF IInv, Firmware, loading
<1>1. CASE QnicEdge
  <2>1. Cpu /\ loader_qnice
    BY <1>1 DEF QnicEdge
  <2>2. ~ld_busy /\ cpu = "write" /\ qnice_addr % 2 = 0 => ld_byte0' = qnice_data
    BY <2>1 DEF loader_qnice, FinishWord, ce, we
  <2>3. cpu = "fetch" => ld_byte0' = ld_byte0
    BY <2>1 DEF loader_qnice, FinishWord, ce, we
  <2>4. CASE cpu = "fetch" /\ ~qnice_wait_o /\ Crossed /\ (ReadByte \/ ClearBitmap)
    BY <2>3, <2>4, Accesses DEF ReadByte, ClearBitmap
  <2>5. CASE cpu = "fetch" /\ (ReadFails \/ TellSize \/ StartParser \/ Poll)
    BY <2>3, <2>5, Accesses DEF ReadFails, TellSize, StartParser, Poll
  <2>9. CASE cpu = "fetch" /\ StartLoad
    <3>1. /\ fw' = "load" /\ req_status' = "LDNG" /\ pos' = 0 /\ file' \in Nat /\ cpu' = "fetch"
      BY <2>9, Constants DEF StartLoad
    <3>2. 0 % 2 = 0
      OBVIOUS
    <3> QED
      BY <3>1, <3>2
  <2>6. CASE cpu = "fetch" /\ LoadByte
    BY <2>3, <2>6, Accesses DEF LoadByte
  <2>7. CASE ce /\ ~qnice_wait_o /\ cpu' = "fetch" /\ UNCHANGED <<qnice_addr, qnice_data, fwVars, csrVars>>
    <3>1. cpu = "write" => ~ld_busy
      BY DEF WordHandshake, ce
    <3> QED
      BY <2>2, <2>7, <3>1, Accesses DEF ce
  <2>8. CASE /\ qnice_wait_o \/ cpu = "fetch"
             /\ UNCHANGED <<busVars, fwVars, csrVars, seen>>
    BY <2>3, <2>8, Accesses
  <2> QED
    BY <2>1, <2>4, <2>5, <2>6, <2>7, <2>8, <2>9 DEF Cpu
<1>2. ASSUME NEW v \in BOOLEAN, CoreEdge(v) PROVE Firmware'
  BY <1>2 DEF CoreEdge
<1>3. ASSUME NEW c \in Channel, CrossReq(c) \/ CrossRcv(c) PROVE Firmware'
  BY <1>3 DEF CrossReq, CrossRcv
<1>4. CASE CrossLoading
  BY <1>4 DEF CrossLoading
<1>5. CASE Press \/ Release
  BY <1>5 DEF Press, Release
<1>6. CASE ResetQnice
  BY <1>6 DEF ResetQnice
<1> QED
  BY <1>1, <1>2, <1>3, <1>4, <1>5, <1>6 DEF Next

(* Every step keeps Checked: the verdict is there before the loader asks,   *)
(* and goes with the status that asked for it.                              *)
LEMMA CheckedStep == ASSUME IInv, Next PROVE Checked'
<1> USE DEF IInv, Checked
<1>1. CASE QnicEdge
  <2>1. Cpu /\ p_mdv1_size_check
    BY <1>1 DEF QnicEdge
  <2>2. spilled' = IF fw = "shell" /\ fw' = "load" THEN FALSE
                   ELSE spilled \/ (WordWritten /\ WordOf(qnice_addr) >= Words)
    BY <1>1 DEF QnicEdge
  <2>3. WordWritten /\ WordOf(qnice_addr) >= Words => fw = "load" /\ file > MaxBytes
    <3>1. qnice_addr >= 2 * Words /\ qnice_addr \in Nat => qnice_addr >= MaxBytes
      BY Constants
    <3> QED
      BY <3>1, Accesses, WordFacts, Constants DEF WordWritten
  <2>4. /\ spilled' => spilled \/ (fw = "load" /\ file > MaxBytes)
        /\ fw = "shell" /\ fw' = "load" => ~spilled'
    BY <2>2, <2>3
  <2>5. CASE cpu = "fetch" /\ (ReadByte \/ ClearBitmap \/ LoadByte)
    BY <2>1, <2>4, <2>5 DEF ReadByte, ClearBitmap, LoadByte, p_mdv1_size_check, Firmware, loading
  <2>6. CASE cpu = "fetch" /\ (StartLoad \/ ReadFails)
    BY <2>1, <2>4, <2>6 DEF StartLoad, ReadFails, p_mdv1_size_check, Firmware, loading
  <2>7. CASE cpu = "fetch" /\ TellSize
    BY <2>1, <2>4, <2>7 DEF TellSize, p_mdv1_size_check, Firmware, loading
  <2>8. CASE cpu = "fetch" /\ StartParser
    BY <2>1, <2>4, <2>8 DEF StartParser, p_mdv1_size_check, Firmware, loading
  <2>9. CASE cpu = "fetch" /\ Poll
    BY <2>1, <2>4, <2>9 DEF Poll, p_mdv1_size_check, Firmware, loading
  <2>10. CASE UNCHANGED <<fwVars, csrVars>>
    BY <2>1, <2>4, <2>10 DEF p_mdv1_size_check, Firmware, loading
  <2> QED
    BY <2>1, <2>5, <2>6, <2>7, <2>8, <2>9, <2>10 DEF Cpu
<1>2. ASSUME NEW v \in BOOLEAN, CoreEdge(v) PROVE Checked'
  BY <1>2 DEF CoreEdge
<1>3. ASSUME NEW c \in Channel, CrossReq(c) \/ CrossRcv(c) PROVE Checked'
  BY <1>3 DEF CrossReq, CrossRcv
<1>4. CASE CrossLoading
  BY <1>4 DEF CrossLoading
<1>5. CASE Press \/ Release
  BY <1>5 DEF Press, Release
<1>6. CASE ResetQnice
  BY <1>6 DEF ResetQnice
<1> QED
  BY <1>1, <1>2, <1>3, <1>4, <1>5, <1>6 DEF Next

-----------------------------------------------------------------------------
(* The words of a load.                                                      *)

(* The levels and states of the handshakes are what they look like.          *)
LEMMA Levels ==
  ASSUME IInv
  PROVE  /\ \A c \in Channel : dest_req[c] \in BOOLEAN /\ src_rcv[c] \in BOOLEAN
         /\ DOMAIN dest_req = Channel /\ DOMAIN src_rcv = Channel
         /\ "loader" \in Channel /\ "read_req" \in Channel /\ "read_resp" \in Channel
         /\ {ld_send, ld_busy, ld_ack, rd_send, resp_ack, req_ack, rd_result_send} \subseteq BOOLEAN
         /\ {reset_i, dl_wr, loading_sync, rd_req_prev, clear_src, clear_sync} \subseteq BOOLEAN
         /\ send("loader") = ld_send /\ ack("loader") = ld_ack
         /\ send("read_req") = rd_send /\ ack("read_req") = req_ack
         /\ send("read_resp") = rd_result_send /\ ack("read_resp") = resp_ack
  BY DEF IInv, TypeOK, Channel, send, ack

(* What the CPU does next to loader_qnice, by the state of the loader.       *)
LEMMA LoaderSteps ==
  ASSUME IInv, QnicEdge
  PROVE  \/ /\ ~ld_busy /\ ld_busy' /\ ld_send'
            /\ cpu = "write" /\ qnice_addr % 2 = 1 /\ WordWritten
            /\ fw' = "load" /\ cpu' = "fetch" /\ loading_sync /\ ~dest_req["loader"]
            /\ ld_word_addr' = WordOf(qnice_addr) /\ ld_word_data' = <<ld_byte0, qnice_data>>
         \/ /\ ~ld_busy /\ ~ld_busy' /\ ~ld_send' /\ ~WordWritten
            /\ ce' => ~dest_req["loader"]
            /\ fw' = "load" /\ cpu' = "write" => loading_sync
            /\ UNCHANGED <<ld_word_addr, ld_word_data>>
         \/ /\ ld_busy /\ fw = "load" /\ cpu = "fetch" /\ fw' = fw /\ cpu' = cpu /\ ~WordWritten
            /\ FinishWord
            /\ UNCHANGED <<ld_word_addr, ld_word_data>>
<1> USE Levels DEF ce, we
<1>1. Cpu /\ loader_qnice
  BY DEF QnicEdge
<1>2. ld_send => ld_busy
  BY DEF IInv, WordHandshake
<1>3. CASE ld_busy
  <2>1. fw = "load" /\ cpu = "fetch" /\ qnice_wait_o
    BY <1>3 DEF IInv, WordHandshake, qnice_wait_o
  <2>2. fw' = fw /\ cpu' = cpu
    BY <1>1, <2>1 DEF Cpu
  <2> QED
    BY <1>1, <1>3, <2>1, <2>2 DEF loader_qnice, WordWritten
<1>4. CASE ~ld_busy /\ cpu = "write"
  <2>1. fw' = fw /\ cpu' = "fetch"
    BY <1>1, <1>4, Accesses DEF Cpu
  <2>2. fw = "load" => loading_sync
    BY <1>4 DEF IInv, WordHandshake
  <2>3. ~dest_req["loader"]
    BY <1>4 DEF IInv, WordHandshake
  <2>4. CASE qnice_addr % 2 = 1
    <3>1. fw = "load"
      BY <1>4, <2>4, Accesses
    <3> QED
      BY <1>1, <1>4, <2>1, <2>2, <2>3, <2>4, <3>1 DEF loader_qnice, FinishWord, WordWritten
  <2>5. CASE qnice_addr % 2 # 1
    BY <1>1, <1>2, <1>4, <2>1, <2>3, <2>5 DEF loader_qnice, FinishWord, WordWritten
  <2> QED
    BY <2>4, <2>5
<1>5. CASE ~ld_busy /\ cpu # "write"
  <2>1. ~ld_busy' /\ ~ld_send' /\ ~WordWritten /\ UNCHANGED <<ld_word_addr, ld_word_data>>
    BY <1>1, <1>2, <1>5 DEF loader_qnice, FinishWord, WordWritten
  <2>2. (ce' => ~dest_req["loader"]) /\ (fw' = "load" /\ cpu' = "write" => loading_sync)
    <3>1. CASE cpu = "read"
      <4>1. ~dest_req["loader"]
        BY <3>1 DEF IInv, WordHandshake
      <4>2. cpu' # "write"
        BY <1>1, <3>1 DEF Cpu
      <4> QED
        BY <4>1, <4>2
    <3>2. CASE cpu = "fetch" /\ Crossed
      <4>1. dest_req["loader"] = ld_send /\ loading_sync = loading
        BY <3>2 DEF Crossed
      <4>2. fw' = "load" /\ cpu' = "write" => fw = "load"
        BY <1>1, <3>2 DEF Cpu, ReadByte, ClearBitmap, StartLoad, LoadByte, ReadFails, TellSize,
              StartParser, Poll
      <4>3. fw = "load" => loading
        BY DEF IInv, Firmware
      <4> QED
        BY <1>2, <1>5, <4>1, <4>2, <4>3
    <3>3. CASE cpu = "fetch" /\ ~Crossed
      BY <1>1, <3>3 DEF Cpu
    <3> QED
      BY <1>5, <3>1, <3>2, <3>3, Accesses
  <2> QED
    BY <1>5, <2>1, <2>2
<1> QED
  BY <1>3, <1>4, <1>5, Accesses

(* The two steps of loader_qnice with a word under way.                      *)
LEMMA FinishWordSteps ==
  ASSUME FinishWord
  PROVE  \/ ld_busy /\ ld_send /\ (ld_send' <=> ~src_rcv["loader"]) /\ ld_busy'
         \/ ld_busy /\ ~ld_send /\ ~ld_send' /\ (ld_busy' <=> src_rcv["loader"])
<1>1. CASE /\ ld_busy /\ ld_send
           /\ ld_send' = ~src_rcv["loader"]
           /\ UNCHANGED ld_busy
  BY <1>1
<1>2. CASE /\ ld_busy /\ ~ld_send
           /\ ld_busy' = src_rcv["loader"]
           /\ UNCHANGED ld_send
  BY <1>2
<1> QED
  BY <1>1, <1>2 DEF FinishWord

(* Every step keeps WordHandshake.                                          *)
LEMMA WordHandshakeStep == ASSUME IInv, Next PROVE WordHandshake'
<1> USE Levels DEF IInv, WordHandshake, ce
<1>1. CASE QnicEdge
  <2>1. UNCHANGED <<dest_req, src_rcv, loading_sync, reset_i, ld_ack, ld_state, dl_wr>>
    BY <1>1 DEF QnicEdge
  <2> QED
    BY <1>1, <2>1, LoaderSteps, FinishWordSteps
<1>2. ASSUME NEW v \in BOOLEAN, CoreEdge(v) PROVE WordHandshake'
  <2>1. /\ loader_core
        /\ UNCHANGED <<dest_req, src_rcv, loading_sync, reset_i, ld_send, ld_busy, cpu, fw>>
    BY <1>2 DEF CoreEdge
  <2> QED
    BY <2>1 DEF loader_core
<1>3. ASSUME NEW c \in Channel, CrossReq(c) PROVE WordHandshake'
  <2>1. /\ dest_req' = [dest_req EXCEPT ![c] = send(c)]
        /\ UNCHANGED <<src_rcv, loading_sync, reset_i, ld_send, ld_busy, cpu, fw,
                       ld_ack, ld_state, dl_wr>>
    BY <1>3 DEF CrossReq
  <2>2. dest_req'["loader"] = dest_req["loader"] \/ dest_req'["loader"] = ld_send
    BY <2>1
  <2> QED
    BY <2>1, <2>2
<1>4. ASSUME NEW c \in Channel, CrossRcv(c) PROVE WordHandshake'
  <2>1. /\ src_rcv' = [src_rcv EXCEPT ![c] = ack(c)]
        /\ UNCHANGED <<dest_req, loading_sync, reset_i, ld_send, ld_busy, cpu, fw,
                       ld_ack, ld_state, dl_wr>>
    BY <1>4 DEF CrossRcv
  <2>2. src_rcv'["loader"] = src_rcv["loader"] \/ src_rcv'["loader"] = ld_ack
    BY <2>1
  <2> QED
    BY <2>1, <2>2
<1>5. CASE CrossLoading
  <2>1. fw = "load" => loading
    BY DEF Firmware
  <2> QED
    BY <1>5, <2>1 DEF CrossLoading
<1>6. CASE Press
  BY <1>6 DEF Press
<1>7. CASE Release
  BY <1>7 DEF Release, Settled
<1>8. CASE ResetQnice
  BY <1>8 DEF ResetQnice, Settled
<1> QED
  BY <1>1, <1>2, <1>3, <1>4, <1>5, <1>6, <1>7, <1>8 DEF Next

(* A word is put where it is meant, and again where it already is.           *)
LEMMA PutFacts ==
  ASSUME NEW m \in [ReachedByte -> Byte], NEW w \in 0 .. Span - 1, NEW d \in Byte \X Byte
  PROVE  Put(m, w, d) \in [ReachedByte -> Byte] /\ Put(Put(m, w, d), w, d) = Put(m, w, d)
<1>1. d[1] \in Byte /\ d[2] \in Byte
  BY Pairs
<1>2. 2 * w # 2 * w + 1
  OBVIOUS
<1> QED
  BY <1>1, <1>2 DEF Put

(* Every step keeps WordUnderWay: between QNICE and memory is at most one   *)
(* word.                                                                    *)
LEMMA WordUnderWayStep == ASSUME IInv, Next PROVE WordUnderWay'
<1> USE Levels DEF IInv, WordUnderWay
<1>0. /\ mem \in [ReachedByte -> Byte] /\ ld_word_addr \in 0 .. Span - 1
      /\ ld_word_data \in Byte \X Byte
  BY DEF TypeOK
<1>h. /\ ld_send \/ src_rcv["loader"] => ld_busy
      /\ dl_wr => ld_ack
      /\ ~ld_send /\ ld_ack => src_rcv["loader"]
      /\ ~reset_i /\ ld_send /\ src_rcv["loader"] => ld_ack
      /\ ~reset_i /\ ~ld_send /\ dest_req["loader"] => ld_ack
      /\ ld_ack <=> ld_state = "WAIT_REQ_LOW"
      /\ ld_busy => loading_sync
      /\ ld_busy => fw = "load" /\ cpu = "fetch"
  BY DEF WordHandshake
<1>1. CASE QnicEdge
  <2>1. /\ UNCHANGED <<dest_req, src_rcv, dest_out, reset_i, ld_ack, ld_state, dl_wr, ld_dl_addr,
                       dl_data, mem, rdcore_state>>
        /\ want' = IF WordWritten
                   THEN [want EXCEPT ![2 * WordOf(qnice_addr)] = Image[qnice_addr - 1],
                                     ![2 * WordOf(qnice_addr) + 1] = Image[qnice_addr]]
                   ELSE want
    BY <1>1 DEF QnicEdge
  <2>2. CASE /\ ~ld_busy /\ ld_busy' /\ ld_send' /\ ~dest_req["loader"]
             /\ cpu = "write" /\ qnice_addr % 2 = 1 /\ WordWritten
             /\ ld_word_addr' = WordOf(qnice_addr) /\ ld_word_data' = <<ld_byte0, qnice_data>>
    <3>1. ld_byte0 = Image[qnice_addr - 1] /\ qnice_data = Image[qnice_addr]
      BY <2>2, Accesses
    <3>2. want' = Put(mem', ld_word_addr', ld_word_data')
      BY <2>1, <2>2, <3>1 DEF Put
    <3>3. ~ld_ack /\ ~dl_wr /\ ~src_rcv["loader"]
      BY <1>h, <2>2
    <3> QED
      BY <2>1, <2>2, <3>2, <3>3
  <2>3. CASE ~ld_busy /\ ~ld_busy' /\ ~WordWritten
    BY <1>h, <2>1, <2>3
  <2>4. CASE ld_busy /\ ~WordWritten /\ FinishWord /\ UNCHANGED <<ld_word_addr, ld_word_data>>
    <3>1. CASE ld_send /\ (ld_send' <=> ~src_rcv["loader"]) /\ ld_busy'
      BY <1>h, <2>1, <2>4, <3>1 DEF Put
    <3>2. CASE ~ld_send /\ ~ld_send' /\ (ld_busy' <=> src_rcv["loader"])
      BY <1>h, <2>1, <2>4, <3>2 DEF Put
    <3> QED
      BY <2>4, <3>1, <3>2, FinishWordSteps
  <2> QED
    BY <1>1, <2>2, <2>3, <2>4, LoaderSteps
<1>2. ASSUME NEW v \in BOOLEAN, CoreEdge(v) PROVE WordUnderWay'
  <2>0. PICK q \in PortA : reader_core(v, q)
    BY <1>2 DEF CoreEdge
  <2>1. /\ loader_core /\ Buffer
        /\ UNCHANGED <<dest_req, src_rcv, dest_out, loading_sync, reset_i, ld_send, ld_busy,
                       ld_word_addr, ld_word_data>>
    BY <1>2 DEF CoreEdge
  <2>2. /\ dl_wr => mem' = Put(mem, ld_word_addr, ld_word_data) /\ want' = want
        /\ ld_busy /\ ~dl_wr => mem' = mem /\ want' = want
        /\ ~ld_busy => want' = mem'
    <3>1. dl_wr => mem' = [mem EXCEPT ![2 * dl_addr_o] = dl_data[1],
                                      ![2 * dl_addr_o + 1] = dl_data[2]] /\ want' = want
      BY <2>1 DEF Buffer
    <3>2. dl_wr => mem' = Put(mem, ld_word_addr, ld_word_data) /\ want' = want
      BY <3>1 DEF Put, dl_addr_o
    <3>3. ld_busy /\ ~dl_wr => mem' = mem /\ want' = want
      BY <1>h, <2>1 DEF Buffer
    <3>4. ~ld_busy => ~dl_wr /\ want = mem
      BY <1>h
    <3>5. ~ld_busy => want' = mem'
      BY <2>1, <3>4 DEF Buffer
    <3> QED
      BY <3>2, <3>3, <3>5
  <2>3. want' = IF ld_busy' THEN Put(mem', ld_word_addr', ld_word_data') ELSE mem'
    BY <1>0, <1>h, <2>1, <2>2, PutFacts
  <2>4. dl_wr' => /\ ~reset_i /\ ld_busy /\ dest_req["loader"] /\ ld_ack'
                  /\ ld_dl_addr' = dest_out.loader[1]
                  /\ dl_data' = <<dest_out.loader[2], dest_out.loader[3]>>
    BY <1>h, <2>1 DEF loader_core
  <2>5. ld_busy => rdcore_state' = "IDLE" \/ ~dl_wr'
    <3>1. ld_busy => /\ rdcore_state \in {"IDLE", "SEND_WAIT_RCV_LOW"}
                     /\ ~dest_req["read_req"] /\ ~src_rcv["read_resp"]
      BY DEF RequestHandshake, AnswerHandshake
    <3> QED
      BY <2>0, <2>1, <3>1 DEF reader_core, CoreMoves, FinishResult
  <2>6. dl_wr' => /\ ld_dl_addr' = ld_word_addr' /\ dl_data' = ld_word_data'
                  /\ rdcore_state' = "IDLE"
    BY <1>0, <2>1, <2>4, <2>5, Pairs
  <2>7. ld_busy' /\ ~dl_wr' /\ (ld_ack' \/ ~ld_send' \/ src_rcv'["loader"]) => want' = mem'
    <3>1. CASE dl_wr
      <4>1. ld_busy => want = Put(mem, ld_word_addr, ld_word_data)
        OBVIOUS
      <4> QED
        BY <2>1, <2>2, <3>1, <4>1
    <3>2. CASE ~dl_wr
      <4>1. ld_ack' /\ ~dl_wr' => ld_ack
        BY <2>1 DEF loader_core
      <4> QED
        BY <2>1, <2>2, <3>2, <4>1
    <3> QED
      BY <3>1, <3>2
  <2> QED
    BY <2>1, <2>3, <2>6, <2>7
<1>3. ASSUME NEW c \in Channel, CrossReq(c) PROVE WordUnderWay'
  <2>1. /\ dest_req' = [dest_req EXCEPT ![c] = send(c)]
        /\ dest_out' = IF send(c) THEN [dest_out EXCEPT ![c] = src_in(c)] ELSE dest_out
        /\ UNCHANGED <<src_rcv, ld_send, ld_busy, ld_word_addr, ld_word_data, ld_dl_addr, dl_data,
                       ld_ack, dl_wr, rdcore_state, mem, want>>
    BY <1>3 DEF CrossReq
  <2>2. ld_busy /\ dest_req'["loader"] =>
          dest_out'.loader = <<ld_word_addr, ld_word_data[1], ld_word_data[2]>>
    <3>1. DOMAIN dest_out = Channel
      BY DEF TypeOK, Channel
    <3>2. CASE c = "loader"
      BY <2>1, <3>1, <3>2 DEF src_in
    <3>3. CASE c # "loader"
      <4>1. dest_out'.loader = dest_out.loader
        BY <2>1, <3>3
      <4> QED
        BY <2>1, <3>3, <4>1
    <3> QED
      BY <3>2, <3>3
  <2> QED
    BY <2>1, <2>2 DEF Put
<1>4. ASSUME NEW c \in Channel, CrossRcv(c) PROVE WordUnderWay'
  <2>1. /\ src_rcv' = [src_rcv EXCEPT ![c] = ack(c)]
        /\ UNCHANGED <<dest_req, dest_out, ld_send, ld_busy, ld_word_addr, ld_word_data, ld_dl_addr,
                       dl_data, ld_ack, dl_wr, rdcore_state, mem, want>>
    BY <1>4 DEF CrossRcv
  <2>2. src_rcv'["loader"] = src_rcv["loader"] \/ src_rcv'["loader"] = ld_ack
    BY <2>1
  <2> QED
    BY <2>1, <2>2 DEF Put
<1>5. CASE CrossLoading
  BY <1>5 DEF CrossLoading, Put
<1>6. CASE Press
  BY <1>6 DEF Press, Put
<1>7. CASE Release
  BY <1>7 DEF Release, Put
<1>8. CASE ResetQnice
  BY <1>8, <1>h DEF ResetQnice, Settled, Put
<1> QED
  BY <1>1, <1>2, <1>3, <1>4, <1>5, <1>6, <1>7, <1>8 DEF Next

-----------------------------------------------------------------------------
(* The two handshakes of a read.                                             *)

(* Between two edges the CPU stays where it is, begins an access or ends one. *)
LEMMA CpuSteps ==
  ASSUME IInv, QnicEdge
  PROVE  \/ UNCHANGED <<cpu, qnice_addr, seen>>
         \/ /\ cpu = "fetch" /\ ~qnice_wait_o /\ Crossed
            /\ \/ /\ cpu' = "read" /\ qnice_addr' \in Probed \union {DIRTY_BASE}
                  /\ seen' = IF qnice_addr' = DIRTY_BASE THEN {dirty} ELSE {}
               \/ cpu' = "write" /\ seen' = seen
         \/ ce /\ ~qnice_wait_o /\ cpu' = "fetch" /\ UNCHANGED qnice_addr /\ seen' = {}
<1>1. Cpu
  BY DEF QnicEdge
<1>2. CASE cpu = "fetch" /\ ~qnice_wait_o /\ Crossed /\ (ReadByte \/ ClearBitmap \/ LoadByte)
  BY <1>2 DEF ReadByte, ClearBitmap, LoadByte
<1>3. CASE StartLoad \/ ReadFails \/ TellSize \/ StartParser \/ Poll
  BY <1>3 DEF StartLoad, ReadFails, TellSize, StartParser, Poll
<1> QED
  BY <1>1, <1>2, <1>3 DEF Cpu

(* reader_qnice, with the levels it acts on.                                 *)
LEMMA ReaderSteps ==
  ASSUME IInv, reader_qnice
  PROVE  \/ /\ rd_state = "IDLE" /\ Reads /\ rd_state' = "SEND_WAIT_RCV"
            /\ rd_addr' = qnice_addr /\ rd_send' /\ UNCHANGED <<qnice_data_o, resp_ack>>
         \/ /\ rd_state = "SEND_WAIT_RCV" /\ src_rcv["read_req"] /\ rd_state' = "SEND_WAIT_RCV_LOW"
            /\ ~rd_send' /\ UNCHANGED <<rd_addr, qnice_data_o, resp_ack>>
         \/ /\ rd_state = "SEND_WAIT_RCV_LOW" /\ ~src_rcv["read_req"] /\ rd_state' = "WAIT_RESP"
            /\ UNCHANGED <<rd_addr, rd_send, qnice_data_o, resp_ack>>
         \/ /\ rd_state = "WAIT_RESP" /\ dest_req["read_resp"] /\ rd_state' = "RESP_WAIT_LOW"
            /\ qnice_data_o' = dest_out.read_resp /\ resp_ack' /\ UNCHANGED <<rd_addr, rd_send>>
         \/ /\ rd_state = "RESP_WAIT_LOW" /\ ~dest_req["read_resp"] /\ rd_state' = "IDLE"
            /\ ~resp_ack' /\ UNCHANGED <<rd_addr, rd_send, qnice_data_o>>
         \/ /\ rd_state = "IDLE" => ~Reads
            /\ UNCHANGED <<rd_addr, rd_send, rd_state, qnice_data_o, resp_ack>>
  BY DEF reader_qnice, ReaderMoves

(* reader_core, with the levels it acts on.                                  *)
LEMMA CoreReaderSteps ==
  ASSUME IInv, NEW v \in BOOLEAN, NEW q, reader_core(v, q)
  PROVE  \/ /\ reset_i /\ ~req_ack' /\ ~rd_result_send' /\ rdcore_state' = "IDLE"
            /\ UNCHANGED <<rd_req_addr, rd_dl_addr, rd_result_data>>
         \/ /\ ~reset_i /\ rdcore_state = "IDLE" /\ dest_req["read_req"]
            /\ rdcore_state' = "REQ_WAIT_LOW" /\ req_ack'
            /\ rd_req_addr' = dest_out.read_req /\ rd_dl_addr' = WordOf(dest_out.read_req)
            /\ UNCHANGED <<rd_result_data, rd_result_send>>
         \/ /\ ~reset_i /\ rdcore_state = "REQ_WAIT_LOW" /\ ~dest_req["read_req"]
            /\ rdcore_state' = "LATCH1" /\ ~req_ack'
            /\ UNCHANGED <<rd_req_addr, rd_dl_addr, rd_result_data, rd_result_send>>
         \/ /\ ~reset_i /\ rdcore_state = "LATCH1" /\ rdcore_state' = "LATCH2"
            /\ UNCHANGED <<req_ack, rd_req_addr, rd_dl_addr, rd_result_data, rd_result_send>>
         \/ /\ ~reset_i /\ rdcore_state = "LATCH2" /\ rdcore_state' = "SEND_WAIT_RCV"
            /\ rd_result_data' = ResultData(q) /\ rd_result_send'
            /\ UNCHANGED <<req_ack, rd_req_addr, rd_dl_addr>>
         \/ /\ ~reset_i /\ rdcore_state = "SEND_WAIT_RCV" /\ src_rcv["read_resp"]
            /\ rdcore_state' = "SEND_WAIT_RCV_LOW" /\ ~rd_result_send'
            /\ UNCHANGED <<req_ack, rd_req_addr, rd_dl_addr, rd_result_data>>
         \/ /\ ~reset_i /\ rdcore_state = "SEND_WAIT_RCV_LOW" /\ ~src_rcv["read_resp"]
            /\ rdcore_state' = "IDLE" 
            /\ UNCHANGED <<req_ack, rd_req_addr, rd_dl_addr, rd_result_data, rd_result_send>>
         \/ /\ ~reset_i /\ (rdcore_state = "IDLE" => ~dest_req["read_req"])
            /\ (rdcore_state = "REQ_WAIT_LOW" => dest_req["read_req"])
            /\ UNCHANGED readCVars
<1> DEFINE Quiet == ~CASE rdcore_state = "IDLE"              -> dest_req["read_req"]
                       [] rdcore_state = "REQ_WAIT_LOW"      -> ~dest_req["read_req"]
                       [] rdcore_state = "LATCH1"            -> v
                       [] rdcore_state = "LATCH2"            -> TRUE
                       [] rdcore_state = "SEND_WAIT_RCV"     -> src_rcv["read_resp"]
                       [] rdcore_state = "SEND_WAIT_RCV_LOW" -> ~src_rcv["read_resp"]
<1>1. ASSUME Quiet
      PROVE  /\ rdcore_state = "IDLE" => ~dest_req["read_req"]
             /\ rdcore_state = "REQ_WAIT_LOW" => dest_req["read_req"]
  <2>1. CASE rdcore_state = "IDLE"
    BY <1>1, <2>1
  <2>2. CASE rdcore_state = "REQ_WAIT_LOW"
    BY <1>1, <2>2
  <2> QED
    BY <2>1, <2>2
<1> HIDE DEF Quiet
<1>2. CASE ~reset_i /\ Quiet /\ UNCHANGED readCVars
  BY <1>1, <1>2
<1>3. CASE FinishResult /\ UNCHANGED <<req_ack, rd_req_addr, rd_dl_addr, rd_result_data>>
  BY <1>3 DEF FinishResult, CoreMoves
<1>4. CASE \/ /\ CoreMoves("LATCH1", v, "LATCH2")
              /\ UNCHANGED <<req_ack, rd_req_addr, rd_dl_addr, rd_result_data, rd_result_send>>
           \/ /\ CoreMoves("LATCH2", TRUE, "SEND_WAIT_RCV")
              /\ rd_result_data' = ResultData(q)
              /\ rd_result_send' = TRUE
              /\ UNCHANGED <<req_ack, rd_req_addr, rd_dl_addr>>
  BY <1>4 DEF CoreMoves
<1>5. CASE \/ /\ CoreMoves("IDLE", dest_req["read_req"], "REQ_WAIT_LOW")
              /\ rd_req_addr' = dest_out.read_req
              /\ rd_dl_addr' = WordOf(dest_out.read_req)
              /\ req_ack' = TRUE
              /\ UNCHANGED <<rd_result_data, rd_result_send>>
           \/ /\ CoreMoves("REQ_WAIT_LOW", ~dest_req["read_req"], "LATCH1")
              /\ req_ack' = FALSE
              /\ UNCHANGED <<rd_req_addr, rd_dl_addr, rd_result_data, rd_result_send>>
  BY <1>5 DEF CoreMoves
<1>6. CASE /\ reset_i
           /\ req_ack' = FALSE /\ rd_result_send' = FALSE /\ rdcore_state' = "IDLE"
           /\ UNCHANGED <<rd_req_addr, rd_dl_addr, rd_result_data>>
  BY <1>6
<1> QED
  BY <1>2, <1>3, <1>4, <1>5, <1>6, Zenon DEF reader_core, Quiet

(* Every step keeps RequestHandshake.                                       *)
LEMMA RequestHandshakeStep == ASSUME IInv, Next PROVE RequestHandshake'
<1> USE Levels DEF IInv, RequestHandshake
<1>a. AnswerHandshake
  OBVIOUS
<1>1. CASE QnicEdge
  <2>1. /\ UNCHANGED <<dest_req, src_rcv, reset_i, req_ack, rdcore_state, rd_result_send>>
        /\ reader_qnice
    BY <1>1 DEF QnicEdge
  <2>2. cpu' = "write" \/ ld_busy' =>
          rd_state' = "IDLE" /\ ~dest_req["read_req"] /\ ~src_rcv["read_resp"]
    <3>1. CASE cpu = "write" \/ ld_busy
      <4>1. ~Reads
        BY <3>1 DEF Reads, ce, we, WordHandshake
      <4> QED
        BY <2>1, <3>1, <4>1, ReaderSteps
    <3>2. CASE cpu # "write" /\ ~ld_busy
      <4>1. ~ld_busy'
        BY <1>1, <3>2, LoaderSteps
      <4>2. cpu' = "write" => cpu = "fetch" /\ ~qnice_wait_o /\ Crossed
        BY <1>1, <3>2, CpuSteps
      <4>3. cpu' = "write" => /\ rd_state = "IDLE" /\ ~Reads /\ ~dest_req["read_req"]
                              /\ ~src_rcv["read_resp"]
        BY <4>2, <1>a DEF AnswerHandshake, Crossed, qnice_wait_o, Reads, ce
      <4> QED
        BY <2>1, <4>1, <4>3, ReaderSteps
    <3> QED
      BY <3>1, <3>2
  <2>3. dest_req["read_req"] => ~(ce' /\ rd_state' = "IDLE")
    <3>1. ASSUME dest_req["read_req"], rd_state' = "IDLE" PROVE rd_state = "IDLE" /\ ~ce
      BY <2>1, <3>1, ReaderSteps
    <3>2. ASSUME ~ce, ce' PROVE Crossed
      BY <1>1, <3>2, CpuSteps DEF ce
    <3>3. Crossed /\ rd_state = "IDLE" => ~dest_req["read_req"]
      BY DEF Crossed
    <3> QED
      BY <3>1, <3>2, <3>3
  <2>4. rd_send' <=> rd_state' = "SEND_WAIT_RCV"
    BY <2>1, ReaderSteps
  <2>5. /\ rd_send' /\ req_ack => dest_req["read_req"]
        /\ ~rd_send' /\ req_ack => src_rcv["read_req"]
        /\ ~reset_i /\ rd_send' /\ src_rcv["read_req"] => req_ack
        /\ ~reset_i /\ ~rd_send' /\ dest_req["read_req"] => req_ack
    BY <2>1, ReaderSteps
  <2>6. /\ src_rcv["read_req"] => rd_state' \in {"SEND_WAIT_RCV", "SEND_WAIT_RCV_LOW"}
        /\ rd_send' /\ src_rcv["read_req"] => rdcore_state \in {"IDLE", "REQ_WAIT_LOW"}
    BY <2>1, ReaderSteps
  <2>7. dest_req["read_req"] =>
          /\ rdcore_state \notin {"LATCH1", "LATCH2", "SEND_WAIT_RCV"}
          /\ ~dest_req["read_resp"] /\ rd_state' # "RESP_WAIT_LOW"
    BY <2>1, ReaderSteps
  <2> QED
    BY <2>1, <2>2, <2>3, <2>4, <2>5, <2>6, <2>7
<1>2. ASSUME NEW v \in BOOLEAN, CoreEdge(v) PROVE RequestHandshake'
  <2>0. PICK q \in PortA : reader_core(v, q)
    BY <1>2 DEF CoreEdge
  <2>1. UNCHANGED <<dest_req, src_rcv, reset_i, rd_send, rd_state, resp_ack, cpu, ld_busy>>
    BY <1>2 DEF CoreEdge
  <2> QED
    BY <2>0, <2>1, <1>a, CoreReaderSteps DEF AnswerHandshake, readCVars, ce
<1>3. ASSUME NEW c \in Channel, CrossReq(c) PROVE RequestHandshake'
  <2>1. /\ dest_req' = [dest_req EXCEPT ![c] = send(c)]
        /\ UNCHANGED <<src_rcv, reset_i, rd_send, rd_state, req_ack, rdcore_state, cpu, ld_busy>>
    BY <1>3 DEF CrossReq
  <2>2. /\ dest_req'["read_req"] = dest_req["read_req"] \/ dest_req'["read_req"] = rd_send
        /\ \/ dest_req'["read_resp"] = dest_req["read_resp"]
           \/ dest_req'["read_resp"] = rd_result_send /\ dest_req'["read_req"] = dest_req["read_req"]
    BY <2>1 DEF Channel
  <2> QED
    BY <2>1, <2>2, <1>a DEF AnswerHandshake, ce
<1>4. ASSUME NEW c \in Channel, CrossRcv(c) PROVE RequestHandshake'
  <2>1. /\ src_rcv' = [src_rcv EXCEPT ![c] = ack(c)]
        /\ UNCHANGED <<dest_req, reset_i, rd_send, rd_state, req_ack, rdcore_state, cpu, ld_busy>>
    BY <1>4 DEF CrossRcv
  <2>2. /\ src_rcv'["read_req"] = src_rcv["read_req"] \/ src_rcv'["read_req"] = req_ack
        /\ src_rcv'["read_resp"] = src_rcv["read_resp"] \/ src_rcv'["read_resp"] = resp_ack
    BY <2>1
  <2> QED
    BY <2>1, <2>2, <1>a DEF AnswerHandshake, ce
<1>5. CASE CrossLoading
  BY <1>5 DEF CrossLoading, ce
<1>6. CASE Press
  BY <1>6 DEF Press, ce
<1>7. CASE Release
  BY <1>7 DEF Release, Settled, ce
<1>8. CASE ResetQnice
  BY <1>8, <1>a DEF ResetQnice, Settled, ce, AnswerHandshake
<1> QED
  BY <1>1, <1>2, <1>3, <1>4, <1>5, <1>6, <1>7, <1>8 DEF Next

(* Every step keeps AnswerHandshake.                                        *)
LEMMA AnswerHandshakeStep == ASSUME IInv, Next PROVE AnswerHandshake'
<1> USE Levels DEF IInv, AnswerHandshake
<1>a. RequestHandshake
  OBVIOUS
<1>1. CASE QnicEdge
  <2>1. /\ UNCHANGED <<dest_req, src_rcv, reset_i, req_ack, rdcore_state, rd_result_send>>
        /\ reader_qnice
    BY <1>1 DEF QnicEdge
  <2>2. (resp_ack' <=> rd_state' = "RESP_WAIT_LOW") /\ (rd_result_send <=> rdcore_state = "SEND_WAIT_RCV")
    BY <2>1, ReaderSteps
  <2>3. /\ src_rcv["read_req"] /\ rd_send => rdcore_state \in {"IDLE", "REQ_WAIT_LOW"}
        /\ ~src_rcv["read_req"] /\ ~rd_send => rdcore_state # "REQ_WAIT_LOW"
        /\ rd_send <=> rd_state = "SEND_WAIT_RCV"
    BY <1>a DEF RequestHandshake
  <2>4. /\ rd_state' = "IDLE" => rdcore_state \in {"IDLE", "SEND_WAIT_RCV_LOW"}
        /\ rd_state' = "SEND_WAIT_RCV" =>
             rdcore_state \in {"IDLE", "SEND_WAIT_RCV_LOW", "REQ_WAIT_LOW"}
        /\ rd_state' = "SEND_WAIT_RCV_LOW" =>
             rdcore_state \in {"IDLE", "REQ_WAIT_LOW", "LATCH1", "LATCH2", "SEND_WAIT_RCV"}
        /\ rd_state' = "WAIT_RESP" =>
             rdcore_state \in {"IDLE", "LATCH1", "LATCH2", "SEND_WAIT_RCV"}
    BY <2>1, <2>3, ReaderSteps
  <2>5. rd_state' = "RESP_WAIT_LOW" =>
          \/ rdcore_state = "SEND_WAIT_RCV" /\ dest_req["read_resp"]
          \/ rdcore_state = "SEND_WAIT_RCV_LOW" /\ src_rcv["read_resp"]
          \/ rdcore_state = "IDLE" /\ reset_i
    BY <2>1, ReaderSteps
  <2>6. dest_req["read_resp"] =>
          \/ rd_state' = "RESP_WAIT_LOW"
          \/ /\ rd_state' \in {"SEND_WAIT_RCV_LOW", "WAIT_RESP"}
             /\ rdcore_state = "SEND_WAIT_RCV" \/ (rdcore_state = "IDLE" /\ reset_i)
    BY <2>1, ReaderSteps
  <2>7. src_rcv["read_resp"] =>
          \/ rdcore_state = "SEND_WAIT_RCV" /\ rd_state' = "RESP_WAIT_LOW"
          \/ rdcore_state = "SEND_WAIT_RCV_LOW"
          \/ rdcore_state = "IDLE" /\ reset_i
    BY <2>1, ReaderSteps
  <2> QED
    BY <2>1, <2>2, <2>4, <2>5, <2>6, <2>7
<1>2. ASSUME NEW v \in BOOLEAN, CoreEdge(v) PROVE AnswerHandshake'
  <2>0. PICK q \in PortA : reader_core(v, q)
    BY <1>2 DEF CoreEdge
  <2>1. UNCHANGED <<dest_req, src_rcv, reset_i, rd_send, rd_state, resp_ack>>
    BY <1>2 DEF CoreEdge
  <2> QED
    BY <2>0, <2>1, <1>a, CoreReaderSteps DEF RequestHandshake, readCVars
<1>3. ASSUME NEW c \in Channel, CrossReq(c) PROVE AnswerHandshake'
  <2>1. /\ dest_req' = [dest_req EXCEPT ![c] = send(c)]
        /\ UNCHANGED <<src_rcv, reset_i, rd_state, resp_ack, rdcore_state, rd_result_send>>
    BY <1>3 DEF CrossReq
  <2>2. dest_req'["read_resp"] = dest_req["read_resp"] \/ dest_req'["read_resp"] = rd_result_send
    BY <2>1
  <2>3. CASE dest_req'["read_resp"] = dest_req["read_resp"]
    BY <2>1, <2>3
  <2>4. CASE dest_req'["read_resp"] = rd_result_send
    <3>1. rd_state \in {"IDLE", "SEND_WAIT_RCV", "SEND_WAIT_RCV_LOW", "WAIT_RESP", "RESP_WAIT_LOW"}
      BY DEF TypeOK
    <3> QED
      BY <2>1, <2>4, <3>1
  <2> QED
    BY <2>2, <2>3, <2>4
<1>4. ASSUME NEW c \in Channel, CrossRcv(c) PROVE AnswerHandshake'
  <2>1. /\ src_rcv' = [src_rcv EXCEPT ![c] = ack(c)]
        /\ UNCHANGED <<dest_req, reset_i, rd_state, resp_ack, rdcore_state, rd_result_send>>
    BY <1>4 DEF CrossRcv
  <2>2. src_rcv'["read_resp"] = src_rcv["read_resp"] \/ src_rcv'["read_resp"] = resp_ack
    BY <2>1
  <2> QED
    BY <2>1, <2>2
<1>5. CASE CrossLoading
  BY <1>5 DEF CrossLoading
<1>6. CASE Press
  BY <1>6 DEF Press
<1>7. CASE Release
  BY <1>7 DEF Release, Settled
<1>8. CASE ResetQnice
  BY <1>8, <1>a DEF ResetQnice, Settled, RequestHandshake
<1> QED
  BY <1>1, <1>2, <1>3, <1>4, <1>5, <1>6, <1>7, <1>8 DEF Next

-----------------------------------------------------------------------------
(* The byte that is read, and the clear pulse.                               *)

(* The answer is what the byte shows in this clock: of the word that port A   *)
(* has at the byte's address, the byte that was asked for.                   *)
LEMMA ResultIsShown ==
  ASSUME IInv, Reads, ~reset_i, rdcore_state = "LATCH2", NEW q
  PROVE  IF qnice_addr = DIRTY_BASE THEN ResultData(q) = dirty ELSE ResultData(q) \in Shown(q)
<1>1. rd_req_addr = qnice_addr /\ rd_dl_addr = WordOf(qnice_addr)
  BY DEF IInv, AnswerUnderWay
<1>2. dl_addr_o = WordOf(qnice_addr)
  BY <1>1 DEF dl_addr_o
<1>3. CASE qnice_addr = DIRTY_BASE
  BY <1>1, <1>3 DEF ResultData
<1>4. CASE qnice_addr # DIRTY_BASE
  <2>1. ResultData(q) = q[1 + (qnice_addr % 2)]
    BY <1>1, <1>4 DEF ResultData
  <2>2. Shown(q) = {q[1 + (qnice_addr % 2)]}
    BY <1>2, <1>4 DEF Shown
  <2> QED
    BY <1>4, <2>1, <2>2
<1> QED
  BY <1>3, <1>4

(* Every step keeps AnswerUnderWay: an answer is taken from the byte that   *)
(* was asked for, and only for the read under way.                          *)
LEMMA AnswerUnderWayStep == ASSUME IInv, Next PROVE AnswerUnderWay'
<1> USE Levels DEF IInv, AnswerUnderWay
<1>r. Reads <=> cpu = "read"
  BY Accesses DEF Reads, ce, we
<1>s. Reads' => cpu' = "read" \/ cpu' \notin {"fetch", "write"}
  BY DEF Reads, ce, we
<1>1. CASE QnicEdge
  <2>1. /\ UNCHANGED <<dest_req, dest_out, reset_i, rdcore_state, rd_req_addr, rd_dl_addr,
                       rd_result_data, mem, dirty>>
        /\ reader_qnice /\ rd_req_prev' = Reads
    BY <1>1 DEF QnicEdge, p_rd_edge
  <2>2. CASE UNCHANGED <<cpu, qnice_addr, seen>> /\ Reads
    <3>2. /\ rd_state = "IDLE" => ~dest_req["read_req"]
          /\ src_rcv["read_req"] /\ rd_send => rdcore_state \in {"IDLE", "REQ_WAIT_LOW"}
          /\ rd_send <=> rd_state = "SEND_WAIT_RCV"
          /\ dest_req["read_resp"] => rd_state # "SEND_WAIT_RCV"
      BY <2>2 DEF RequestHandshake, AnswerHandshake, Reads
    <3>3. rd_state' # "IDLE" => rd_addr' = qnice_addr'
      BY <2>1, <2>2, ReaderSteps
    <3>4. rd_state' = "RESP_WAIT_LOW" \/ rd_state' = "IDLE" => qnice_data_o' \in seen'
      BY <2>1, <2>2, ReaderSteps
    <3>5. rd_state' \in {"SEND_WAIT_RCV_LOW", "WAIT_RESP"} =>
            /\ rdcore_state' = "SEND_WAIT_RCV" => rd_result_data' \in seen'
            /\ dest_req'["read_resp"] => dest_out'.read_resp \in seen'
      BY <2>1, <2>2, <3>2, ReaderSteps
    <3>6. /\ dest_req'["read_req"] => dest_out'.read_req = qnice_addr'
          /\ rdcore_state' \in {"REQ_WAIT_LOW", "LATCH1", "LATCH2"} =>
               rd_req_addr' = qnice_addr' /\ rd_dl_addr' = WordOf(qnice_addr)'
      BY <2>1, <2>2 DEF WordOf
    <3>7. qnice_addr' = DIRTY_BASE' => dirty' \in seen'
      BY <2>1, <2>2 DEF DIRTY_BASE
    <3> QED
      BY <3>3, <3>4, <3>5, <3>6, <3>7
  <2>3. CASE UNCHANGED <<cpu, qnice_addr, seen>> /\ ~Reads
    BY <2>3 DEF Reads, ce, we
  <2>4. CASE /\ cpu = "fetch" /\ ~qnice_wait_o /\ Crossed
             /\ cpu' = "read" /\ seen' = IF qnice_addr' = DIRTY_BASE THEN {dirty} ELSE {}
    <3>1. rd_state = "IDLE" /\ ~Reads /\ ~dest_req["read_req"]
      BY <2>4, <1>r DEF qnice_wait_o, Crossed, RequestHandshake
    <3>2. rd_state' = "IDLE" /\ ~rd_req_prev'
      BY <2>1, <3>1, ReaderSteps
    <3>3. rdcore_state \in {"IDLE", "SEND_WAIT_RCV_LOW"}
      BY <3>1 DEF AnswerHandshake
    <3>4. qnice_addr' = DIRTY_BASE' => dirty' \in seen'
      BY <2>1, <2>4 DEF DIRTY_BASE
    <3> QED
      BY <2>1, <2>4, <3>1, <3>2, <3>3, <3>4
  <2>5. CASE cpu' = "write" \/ cpu' = "fetch"
    BY <2>5, <1>s
  <2> QED
    BY <1>1, <2>2, <2>3, <2>4, <2>5, CpuSteps
<1>2. ASSUME NEW v \in BOOLEAN, CoreEdge(v) PROVE AnswerUnderWay'
  <2>0. PICK q \in PortA : reader_core(v, q) /\ seen' = seen \union Shown(q)
    BY <1>2 DEF CoreEdge
  <2>1. UNCHANGED <<dest_req, dest_out, reset_i, cpu, qnice_addr, rd_state, rd_addr, rd_req_prev,
                    qnice_data_o>>
    BY <1>2 DEF CoreEdge
  <2>2. CASE Reads
    <3>1. seen \subseteq seen' /\ Shown(q) \subseteq seen'
      BY <2>0
    <3>5. qnice_addr' = DIRTY_BASE' => dirty' \in seen'
      BY <2>1, <2>2, <3>1 DEF Shown, DIRTY_BASE
    <3>2. rdcore_state' \in {"REQ_WAIT_LOW", "LATCH1", "LATCH2"} =>
               rd_req_addr' = qnice_addr' /\ rd_dl_addr' = WordOf(qnice_addr)'
      BY <2>0, <2>1, <2>2, CoreReaderSteps DEF readCVars, WordOf
    <3>3. rdcore_state' = "SEND_WAIT_RCV" =>
            \/ rdcore_state = "SEND_WAIT_RCV" /\ rd_result_data' = rd_result_data
            \/ ~reset_i /\ rdcore_state = "LATCH2" /\ rd_result_data' = ResultData(q)
      BY <2>0, CoreReaderSteps DEF readCVars
    <3>4. rd_state \in {"SEND_WAIT_RCV_LOW", "WAIT_RESP"} /\ rdcore_state' = "SEND_WAIT_RCV" =>
            rd_result_data' \in seen'
      BY <2>2, <3>1, <3>3, ResultIsShown
    <3> QED
      BY <2>1, <2>2, <3>1, <3>2, <3>4, <3>5
  <2>3. CASE ~Reads
    BY <2>1, <2>3 DEF Reads, ce, we
  <2> QED
    BY <2>2, <2>3
<1>3. ASSUME NEW c \in Channel, CrossReq(c) PROVE AnswerUnderWay'
  <2>1. /\ dest_req' = [dest_req EXCEPT ![c] = send(c)]
        /\ dest_out' = IF send(c) THEN [dest_out EXCEPT ![c] = src_in(c)] ELSE dest_out
        /\ UNCHANGED <<cpu, qnice_addr, seen, rd_state, rd_addr, rd_req_prev, qnice_data_o,
                       rdcore_state, rd_req_addr, rd_dl_addr, rd_result_data, mem, dirty>>
    BY <1>3 DEF CrossReq
  <2>2. DOMAIN dest_out = Channel
    BY DEF TypeOK, Channel
  <2>3. Reads /\ dest_req'["read_req"] => dest_out'.read_req = qnice_addr
    <3>1. CASE c = "read_req"
      <4>1. dest_req'["read_req"] = rd_send
        BY <2>1, <3>1
      <4>2. rd_send => dest_out'.read_req = rd_addr
        BY <2>1, <2>2, <3>1 DEF src_in
      <4>3. rd_send /\ Reads => rd_addr = qnice_addr
        BY DEF RequestHandshake
      <4> QED
        BY <4>1, <4>2, <4>3
    <3>2. CASE c # "read_req"
      BY <2>1, <2>2, <3>2
    <3> QED
      BY <3>1, <3>2
  <2>4. Reads /\ rd_state \in {"SEND_WAIT_RCV_LOW", "WAIT_RESP"} /\ dest_req'["read_resp"] =>
          dest_out'.read_resp \in seen
    <3>1. CASE c = "read_resp"
      <4>1. dest_req'["read_resp"] = rd_result_send
        BY <2>1, <3>1
      <4>2. rd_result_send => dest_out'.read_resp = rd_result_data
        BY <2>1, <2>2, <3>1 DEF src_in
      <4>3. rd_result_send => rdcore_state = "SEND_WAIT_RCV"
        BY DEF AnswerHandshake
      <4> QED
        BY <4>1, <4>2, <4>3
    <3>2. CASE c # "read_resp"
      BY <2>1, <2>2, <3>2
    <3> QED
      BY <3>1, <3>2
  <2>5. (Reads' <=> Reads) /\ DIRTY_BASE' = DIRTY_BASE /\ WordOf(qnice_addr)' = WordOf(qnice_addr)
    BY <2>1 DEF Reads, ce, we, DIRTY_BASE, WordOf
  <2> QED
    BY <2>1, <2>3, <2>4, <2>5
<1>4. ASSUME NEW c \in Channel, CrossRcv(c) PROVE AnswerUnderWay'
  BY <1>4 DEF CrossRcv, Reads, ce, we, DIRTY_BASE, WordOf
<1>5. CASE CrossLoading
  BY <1>5 DEF CrossLoading, Reads, ce, we, DIRTY_BASE, WordOf
<1>6. CASE Press
  BY <1>6 DEF Press, Reads, ce, we, DIRTY_BASE, WordOf
<1>7. CASE Release
  BY <1>7 DEF Release, Reads, ce, we, DIRTY_BASE, WordOf
<1>8. CASE ResetQnice
  BY <1>8 DEF ResetQnice, Reads, ce
<1> QED
  BY <1>1, <1>2, <1>3, <1>4, <1>5, <1>6, <1>7, <1>8 DEF Next

(* Every step keeps ClearUnderWay: the core ticks between two edges of      *)
(* QNICE.                                                                   *)
LEMMA ClearUnderWayStep == ASSUME IInv, Next PROVE ClearUnderWay'
<1> USE DEF IInv, ClearUnderWay, dirty_clear_o
<1>1. CASE QnicEdge
  <2>1. /\ ticked /\ ~ticked' /\ clear_src' = clear_req
        /\ clears' = IF clear_req /\ ~clear_src THEN clears + 1 ELSE clears
        /\ UNCHANGED <<clear_sync, clear_sync_prev>>
    BY <1>1 DEF QnicEdge
  <2>2. clear_req \in BOOLEAN
    BY DEF clear_req, ce
  <2> QED
    BY <2>1, <2>2
<1>2. ASSUME NEW v \in BOOLEAN, CoreEdge(v) PROVE ClearUnderWay'
  <2>1. /\ clear_sync_prev' = clear_sync /\ clear_sync' = clear_src /\ UNCHANGED clear_src
        /\ clears' = IF dirty_clear_o THEN clears - 1 ELSE clears
    BY <1>2 DEF CoreEdge, p_clear_edge
  <2> QED
    BY <2>1
<1>3. ASSUME NEW c \in Channel, CrossReq(c) \/ CrossRcv(c) PROVE ClearUnderWay'
  BY <1>3 DEF CrossReq, CrossRcv
<1>4. CASE CrossLoading
  BY <1>4 DEF CrossLoading
<1>5. CASE Press \/ Release
  BY <1>5 DEF Press, Release
<1>6. CASE ResetQnice
  BY <1>6 DEF ResetQnice
<1> QED
  BY <1>1, <1>2, <1>3, <1>4, <1>5, <1>6 DEF Next

-----------------------------------------------------------------------------
(* Types.                                                                    *)

(* The parts of TypeOK, by the process that writes them.                     *)
CpuTypes ==
  /\ cpu \in {"fetch", "read", "write"} /\ qnice_addr \in Address /\ qnice_data \in Byte
  /\ fw \in {"shell", "load", "told", "poll", "fatal"} /\ {file, pos} \subseteq Position
  /\ req_status \in {"NONE", "LDNG", "OK"} /\ req_length \in Position
  /\ errandsLeft \in 0 .. MaxErrands /\ verdict \in {"none", "READY", "ERROR"}
CheckTypes == resp_status \in {"IDLE", "READY", "ERROR"} /\ val_state \in {"VS_IDLE", "VS_DONE"}
LoaderTypes ==
  /\ ld_byte0 \in Byte /\ ld_word_addr \in 0 .. Span - 1 /\ ld_word_data \in Byte \X Byte
  /\ ld_send \in BOOLEAN /\ ld_busy \in BOOLEAN
ReaderTypes ==
  /\ rd_addr \in Address /\ rd_send \in BOOLEAN
  /\ rd_state \in {"IDLE", "SEND_WAIT_RCV", "SEND_WAIT_RCV_LOW", "WAIT_RESP", "RESP_WAIT_LOW"}
  /\ rd_req_prev \in BOOLEAN /\ qnice_data_o \in Value /\ resp_ack \in BOOLEAN
  /\ clear_src \in BOOLEAN
SyncTypes ==
  /\ dest_req \in [Channel -> BOOLEAN] /\ src_rcv \in [Channel -> BOOLEAN]
  /\ dest_out \in [loader : (0 .. Span - 1) \X Byte \X Byte, read_req : Address,
                   read_resp : Value]
  /\ loading_sync \in BOOLEAN
CoreTypes ==
  /\ ld_ack \in BOOLEAN /\ ld_state \in {"IDLE", "WAIT_REQ_LOW"}
  /\ ld_dl_addr \in 0 .. Span - 1 /\ dl_data \in Byte \X Byte /\ dl_wr \in BOOLEAN
  /\ req_ack \in BOOLEAN
  /\ rdcore_state \in {"IDLE", "REQ_WAIT_LOW", "LATCH1", "LATCH2", "SEND_WAIT_RCV",
                       "SEND_WAIT_RCV_LOW"}
  /\ rd_req_addr \in Address /\ rd_dl_addr \in 0 .. Span - 1
  /\ rd_result_data \in Value /\ rd_result_send \in BOOLEAN
BufferTypes ==
  /\ mem \in [ReachedByte -> Byte] /\ dirty \in {0, 1} /\ qlWritesLeft \in 0 .. MaxQlWrites
  /\ want \in [ReachedByte -> Byte]
RestTypes ==
  /\ clear_sync \in BOOLEAN /\ ticked \in BOOLEAN /\ reset_i \in BOOLEAN
  /\ clear_sync_prev \in BOOLEAN /\ resetsLeft \in 0 .. MaxResets
  /\ seen \in SUBSET Value /\ clears \in 0 .. 1 /\ dropped \in BOOLEAN /\ spilled \in BOOLEAN

(* TypeOK is its parts.                                                     *)
LEMMA TypeParts ==
  TypeOK <=> /\ CpuTypes /\ CheckTypes /\ LoaderTypes /\ ReaderTypes /\ SyncTypes /\ CoreTypes
             /\ BufferTypes /\ RestTypes
  BY DEF TypeOK, CpuTypes, CheckTypes, LoaderTypes, ReaderTypes, SyncTypes, CoreTypes, BufferTypes,
         RestTypes

(* TypeOK' follows from its parts.                                          *)
LEMMA TypePartsNext ==
  ASSUME CpuTypes', CheckTypes', LoaderTypes', ReaderTypes', SyncTypes', CoreTypes', BufferTypes',
         RestTypes'
  PROVE  TypeOK'
  BY DEF TypeOK, CpuTypes, CheckTypes, LoaderTypes, ReaderTypes, SyncTypes, CoreTypes, BufferTypes,
         RestTypes

(* What a byte of the device, or an answer, may be.                          *)
LEMMA ByteTypes ==
  ASSUME TypeOK
  PROVE  /\ PortA \subseteq Byte \X Byte
         /\ \A q \in Byte \X Byte : ResultData(q) \in Value /\ Shown(q) \subseteq Value \union {dirty'}
<1>1. PortA \subseteq Byte \X Byte
  BY Constants DEF PortA
<1>2. rd_req_addr \in Nat /\ qnice_addr \in Nat
  BY Positions, Constants DEF TypeOK, Address, DIRTY_CLR
<1>3. \A a \in Nat : 1 + (a % 2) \in {1, 2}
  OBVIOUS
<1>4. \A q \in Byte \X Byte, k \in {1, 2} : q[k] \in Value
  BY Pairs DEF Value
<1>5. dirty \in Value
  BY DEF TypeOK, Value
<1>6. ASSUME NEW q \in Byte \X Byte
      PROVE  ResultData(q) \in Value /\ Shown(q) \subseteq Value \union {dirty'}
  <2>1. q[1 + (rd_req_addr % 2)] \in Value /\ q[1 + (qnice_addr % 2)] \in Value
    BY <1>2, <1>3, <1>4
  <2> QED
    BY <1>5, <2>1 DEF ResultData, Shown
<1> QED
  BY <1>1, <1>6

(* An edge of the QNICE clock keeps the types.                              *)
LEMMA QnicTypes == ASSUME IInv, QnicEdge PROVE TypeOK'
<1>0. /\ CpuTypes /\ CheckTypes /\ LoaderTypes /\ ReaderTypes /\ SyncTypes /\ CoreTypes
      /\ BufferTypes /\ RestTypes /\ TypeOK
  BY TypeParts DEF IInv
<1>1. Position \subseteq Address /\ DIRTY_CLR \in Address /\ DIRTY_BASE \in Address
      /\ Probed \subseteq Address
  <2>1. 0 .. DIRTY_CLR \subseteq Address
    BY DEF Address
  <2>2. DIRTY_CLR \in 0 .. DIRTY_CLR /\ DIRTY_BASE \in 0 .. DIRTY_CLR /\ BufferByte \subseteq 0 .. DIRTY_CLR
    BY Constants DEF DIRTY_CLR, DIRTY_BASE, BufferByte
  <2> QED
    BY <2>1, <2>2, Constants DEF Address
<1>2. CpuTypes'
  <2>0. Cpu
    BY DEF QnicEdge
  <2> USE <1>0, <1>1 DEF CpuTypes
  <2>1. CASE ReadByte
    BY <2>1 DEF ReadByte
  <2>2. CASE ClearBitmap
    BY <2>2, Constants DEF ClearBitmap
  <2>3. CASE StartLoad
    <3>1. file' \in Position /\ pos' \in Position
      <4>1. file' \in Files /\ pos' = 0
        BY <2>3 DEF StartLoad
      <4>2. file' \in Nat
        BY <4>1, Constants
      <4>3. file' \in 0 .. file'
        BY <4>2
      <4> QED
        BY <4>1, <4>3, Positions
    <3>2. errandsLeft' \in 0 .. MaxErrands
      BY <2>3, Constants DEF StartLoad
    <3> QED
      BY <2>3, <3>1, <3>2 DEF StartLoad
  <2>4. CASE LoadByte
    <3>1. pos + 1 \in Position
      <4>1. PICK n \in Files : file \in 0 .. n
        BY DEF Position
      <4>2. n \in Nat /\ pos \in Nat /\ pos < file
        BY <2>4, Constants, Positions DEF LoadByte
      <4>3. pos + 1 \in 0 .. n
        BY <4>1, <4>2
      <4> QED
        BY <4>3, Positions
    <3>2. Image[pos] \in Byte /\ pos \in Address
      BY Constants
    <3> QED
      BY <2>4, <3>1, <3>2 DEF LoadByte
  <2>5. CASE ReadFails \/ TellSize \/ StartParser
    BY <2>5 DEF ReadFails, TellSize, StartParser
  <2>6. CASE Poll
    BY <2>6 DEF Poll, CheckTypes
  <2>7. CASE cpu' = "fetch" /\ UNCHANGED <<qnice_addr, qnice_data, fwVars, csrVars>>
    BY <2>7
  <2>8. CASE UNCHANGED <<busVars, fwVars, csrVars, seen>>
    BY <2>8
  <2> QED
    BY <2>0, <2>1, <2>2, <2>3, <2>4, <2>5, <2>6, <2>7, <2>8 DEF Cpu
<1>3. CheckTypes'
  BY <1>0 DEF QnicEdge, p_mdv1_size_check, CheckTypes
<1>4. LoaderTypes'
  <2>1. loader_qnice
    BY DEF QnicEdge
  <2>2. WordOf(qnice_addr) \in 0 .. Span - 1
    BY Accesses, WordFacts
  <2>3. <<ld_byte0, qnice_data>> \in Byte \X Byte
    BY <1>0 DEF LoaderTypes, CpuTypes
  <2>4. (~src_rcv["loader"]) \in BOOLEAN /\ src_rcv["loader"] \in BOOLEAN
    BY Levels
  <2> QED
    BY <1>0, <2>1, <2>2, <2>3, <2>4 DEF loader_qnice, FinishWord, LoaderTypes, CpuTypes
<1>5. ReaderTypes'
  <2>1. reader_qnice /\ rd_req_prev' = Reads /\ clear_src' = clear_req
    BY DEF QnicEdge, p_rd_edge
  <2>2. rd_req_prev' \in BOOLEAN /\ clear_src' \in BOOLEAN
    BY <2>1 DEF Reads, clear_req, ce
  <2>3. dest_out.read_resp \in Value
    BY <1>0 DEF SyncTypes
  <2> QED
    BY <1>0, <2>1, <2>2, <2>3 DEF reader_qnice, ReaderMoves, ReaderTypes, CpuTypes
<1>6. SyncTypes' /\ CoreTypes'
  BY <1>0 DEF QnicEdge, SyncTypes, CoreTypes
<1>7. BufferTypes'
  <2>1. WordWritten => Image[qnice_addr - 1] \in Byte /\ Image[qnice_addr] \in Byte
    BY Accesses, Constants DEF WordWritten
  <2> QED
    BY <1>0, <2>1 DEF QnicEdge, BufferTypes
<1>8. RestTypes'
  <2>1. seen' \in SUBSET Value
    <3>1. dirty \in Value
      BY <1>0 DEF BufferTypes, Value
    <3> QED
      BY <1>0, <3>1, CpuSteps DEF RestTypes
  <2>2. clears' \in 0 .. 1
    BY ClearUnderWayStep DEF Next, ClearUnderWay
  <2>3. spilled' \in BOOLEAN
    <3>1. (spilled \/ (WordWritten /\ WordOf(qnice_addr) >= Words)) \in BOOLEAN
      OBVIOUS
    <3> QED
      BY <3>1 DEF QnicEdge
  <2> QED
    BY <1>0, <2>1, <2>2, <2>3 DEF QnicEdge, RestTypes
<1> QED
  BY <1>2, <1>3, <1>4, <1>5, <1>6, <1>7, <1>8, TypePartsNext

(* An edge of the core's clock keeps the types.                             *)
LEMMA CoreTypesStep == ASSUME IInv, NEW v \in BOOLEAN, CoreEdge(v) PROVE TypeOK'
<1>0. /\ CpuTypes /\ CheckTypes /\ LoaderTypes /\ ReaderTypes /\ SyncTypes /\ CoreTypes
      /\ BufferTypes /\ RestTypes /\ TypeOK
  BY TypeParts DEF IInv
<1>1. CpuTypes' /\ CheckTypes' /\ LoaderTypes' /\ ReaderTypes' /\ SyncTypes'
  BY <1>0 DEF CoreEdge, CpuTypes, CheckTypes, LoaderTypes, ReaderTypes, SyncTypes
<1>2. CoreTypes'
  <2>0. PICK q \in PortA : reader_core(v, q)
    BY DEF CoreEdge
  <2>1. loader_core
    BY DEF CoreEdge
  <2>2. /\ dest_out.loader \in (0 .. Span - 1) \X Byte \X Byte
        /\ dest_out.read_req \in Address
    BY <1>0 DEF SyncTypes
  <2>3. /\ dest_out.loader[1] \in 0 .. Span - 1
        /\ <<dest_out.loader[2], dest_out.loader[3]>> \in Byte \X Byte
    BY <2>2, Triples
  <2>4. WordOf(dest_out.read_req) \in 0 .. Span - 1
    <3>1. Address \subseteq Nat
      BY Positions, Constants DEF Address, DIRTY_CLR
    <3> QED
      BY <2>2, <3>1, WordFacts
  <2>5. ResultData(q) \in Value
    BY <1>0, <2>0, ByteTypes
  <2>6. /\ ld_ack' \in BOOLEAN /\ ld_state' \in {"IDLE", "WAIT_REQ_LOW"} /\ dl_wr' \in BOOLEAN
        /\ ld_dl_addr' \in 0 .. Span - 1 /\ dl_data' \in Byte \X Byte
    BY <1>0, <2>1, <2>3 DEF loader_core, CoreTypes
  <2>7. /\ req_ack' \in BOOLEAN /\ rd_result_send' \in BOOLEAN
        /\ rdcore_state' \in {"IDLE", "REQ_WAIT_LOW", "LATCH1", "LATCH2", "SEND_WAIT_RCV",
                               "SEND_WAIT_RCV_LOW"}
        /\ rd_req_addr' \in Address /\ rd_dl_addr' \in 0 .. Span - 1 /\ rd_result_data' \in Value
    BY <1>0, <2>0, <2>2, <2>4, <2>5 DEF reader_core, CoreMoves, FinishResult, CoreTypes
  <2> QED
    BY <2>6, <2>7 DEF CoreTypes
<1>3. BufferTypes'
  <2>1. Buffer
    BY DEF CoreEdge
  <2>2. dl_data[1] \in Byte /\ dl_data[2] \in Byte
    BY <1>0, Pairs DEF CoreTypes
  <2>3. CASE /\ mem' = IF dl_wr THEN [mem EXCEPT ![2 * dl_addr_o] = dl_data[1],
                                         ![2 * dl_addr_o + 1] = dl_data[2]]
                        ELSE mem
             /\ dirty' = IF reset_i \/ dirty_clear_o THEN 0 ELSE dirty
             /\ UNCHANGED <<want, qlWritesLeft>>
    <3>1. mem' \in [ReachedByte -> Byte]
      BY <1>0, <2>2, <2>3 DEF BufferTypes
    <3> QED
      BY <1>0, <2>3, <3>1 DEF BufferTypes
  <2>4. ASSUME NEW a \in Probed, NEW b \in QlByte,
               mem' = [mem EXCEPT ![a] = b], want' = [want EXCEPT ![a] = b],
               dirty' = IF dirty_clear_o THEN 0 ELSE 1,
               qlWritesLeft > 0, qlWritesLeft' = qlWritesLeft - 1
        PROVE  BufferTypes'
    <3>1. b \in Byte
      BY Constants
    <3>2. mem' \in [ReachedByte -> Byte]
      BY <1>0, <2>4, <3>1 DEF BufferTypes
    <3>3. want' \in [ReachedByte -> Byte]
      BY <1>0, <2>4, <3>1 DEF BufferTypes
    <3>4. dirty' \in {0, 1}
      BY <2>4
    <3>5. qlWritesLeft' \in 0 .. MaxQlWrites
      BY <1>0, <2>4, Constants DEF BufferTypes
    <3> QED
      BY <3>2, <3>3, <3>4, <3>5 DEF BufferTypes
  <2> QED
    BY <2>1, <2>3, <2>4 DEF Buffer
<1>4. RestTypes'
  <2>1. Next
    BY DEF Next
  <2>2. clears' \in 0 .. 1
    BY <2>1, ClearUnderWayStep DEF ClearUnderWay
  <2>3. seen' \in SUBSET Value
    <3>1. PICK q \in PortA : seen' = seen \union Shown(q)
      BY DEF CoreEdge
    <3>2. dirty' \in Value
      BY <1>3 DEF BufferTypes, Value
    <3>3. Shown(q) \subseteq Value \union {dirty'}
      BY <1>0, ByteTypes
    <3> QED
      BY <1>0, <3>1, <3>2, <3>3 DEF RestTypes
  <2>4. dropped' \in BOOLEAN
    <3>1. (dropped \/ (reset_i /\ rdcore_state # "IDLE")) \in BOOLEAN
      OBVIOUS
    <3> QED
      BY <3>1 DEF CoreEdge
  <2> QED
    BY <1>0, <2>2, <2>3, <2>4 DEF CoreEdge, p_clear_edge, RestTypes, ReaderTypes
<1> QED
  BY <1>1, <1>2, <1>3, <1>4, TypePartsNext

(* Every step keeps the types.                                              *)
LEMMA TypeStep == ASSUME IInv, Next PROVE TypeOK'
<1>0. /\ CpuTypes /\ CheckTypes /\ LoaderTypes /\ ReaderTypes /\ SyncTypes /\ CoreTypes
      /\ BufferTypes /\ RestTypes /\ TypeOK
  BY TypeParts DEF IInv
<1>1. ASSUME NEW c \in Channel, CrossReq(c) PROVE TypeOK'
  <2>1. /\ dest_req' = [dest_req EXCEPT ![c] = send(c)]
        /\ dest_out' = IF send(c) THEN [dest_out EXCEPT ![c] = src_in(c)] ELSE dest_out
        /\ UNCHANGED <<src_rcv, loading_sync>> /\ Synchronised
    BY <1>1 DEF CrossReq
  <2>2. \A x \in Channel : send(x) \in BOOLEAN
    BY Levels DEF Channel
  <2>3. dest_req' \in [Channel -> BOOLEAN]
    BY <1>0, <2>1, <2>2 DEF SyncTypes
  <2>4. dest_out' \in [loader : (0 .. Span - 1) \X Byte \X Byte, read_req : Address,
                   read_resp : Value]
    <3>1. CASE c = "loader"
      <4>1. src_in(c) \in (0 .. Span - 1) \X Byte \X Byte
        BY <1>0, <3>1, Pairs DEF src_in, LoaderTypes
      <4> QED
        BY <1>0, <2>1, <3>1, <4>1 DEF SyncTypes
    <3>2. CASE c = "read_req"
      <4>1. src_in(c) \in Address
        BY <1>0, <3>2 DEF src_in, ReaderTypes
      <4> QED
        BY <1>0, <2>1, <3>2, <4>1 DEF SyncTypes
    <3>3. CASE c = "read_resp"
      <4>1. src_in(c) \in Value
        BY <1>0, <3>3 DEF src_in, CoreTypes
      <4> QED
        BY <1>0, <2>1, <3>3, <4>1 DEF SyncTypes
    <3> QED
      BY <3>1, <3>2, <3>3 DEF Channel
  <2>5. SyncTypes'
    BY <1>0, <2>1, <2>3, <2>4 DEF SyncTypes
  <2>6. CpuTypes' /\ CheckTypes' /\ LoaderTypes' /\ ReaderTypes' /\ CoreTypes'
    BY <1>0, <2>1 DEF CpuTypes, CheckTypes, LoaderTypes, ReaderTypes, CoreTypes
  <2>7. BufferTypes' /\ RestTypes'
    BY <1>0, <2>1 DEF BufferTypes, RestTypes
  <2> QED
    BY <2>5, <2>6, <2>7, TypePartsNext
<1>2. ASSUME NEW c \in Channel, CrossRcv(c) PROVE TypeOK'
  <2>1. /\ src_rcv' = [src_rcv EXCEPT ![c] = ack(c)]
        /\ UNCHANGED <<dest_req, dest_out, loading_sync>> /\ Synchronised
    BY <1>2 DEF CrossRcv
  <2>2. \A x \in Channel : ack(x) \in BOOLEAN
    BY Levels DEF Channel
  <2>3. src_rcv' \in [Channel -> BOOLEAN]
    BY <1>0, <2>1, <2>2 DEF SyncTypes
  <2> QED
    BY <1>0, <2>1, <2>3 DEF TypeOK
<1>3. CASE CrossLoading
  <2>1. loading_sync' = loading /\ UNCHANGED <<dest_req, dest_out, src_rcv>> /\ Synchronised
    BY <1>3 DEF CrossLoading
  <2>2. loading \in BOOLEAN
    BY DEF loading
  <2> QED
    BY <1>0, <2>1, <2>2 DEF TypeOK
<1>4. CASE Press
  <2>1. /\ CpuTypes' /\ CheckTypes' /\ LoaderTypes' /\ ReaderTypes' /\ SyncTypes' /\ CoreTypes'
        /\ BufferTypes'
    BY <1>0, <1>4 DEF Press, CpuTypes, CheckTypes, LoaderTypes, ReaderTypes, SyncTypes, CoreTypes,
       BufferTypes
  <2>2. reset_i' \in BOOLEAN /\ resetsLeft' \in 0 .. MaxResets
    BY <1>0, <1>4, Constants DEF Press, RestTypes
  <2>3. RestTypes'
    BY <1>0, <1>4, <2>2 DEF Press, RestTypes
  <2> QED
    BY <2>1, <2>3, TypePartsNext
<1>5. CASE Release
  <2>1. /\ CpuTypes' /\ CheckTypes' /\ LoaderTypes' /\ ReaderTypes' /\ SyncTypes' /\ CoreTypes'
        /\ BufferTypes'
    BY <1>0, <1>5 DEF Release, CpuTypes, CheckTypes, LoaderTypes, ReaderTypes, SyncTypes, CoreTypes,
       BufferTypes
  <2>2. RestTypes'
    BY <1>0, <1>5 DEF Release, RestTypes
  <2> QED
    BY <2>1, <2>2, TypePartsNext
<1>6. CASE ResetQnice
  <2>1. CpuTypes'
    BY <1>0, <1>6, Positions DEF ResetQnice, CpuTypes
  <2>2. CheckTypes' /\ LoaderTypes' /\ ReaderTypes'
    BY <1>0, <1>6 DEF ResetQnice, CheckTypes, LoaderTypes, ReaderTypes
  <2>3. SyncTypes' /\ CoreTypes'
    BY <1>0, <1>6 DEF ResetQnice, SyncTypes, CoreTypes
  <2>4. BufferTypes'
    BY <1>0, <1>6 DEF ResetQnice, BufferTypes
  <2>5. RestTypes'
    BY <1>0, <1>6 DEF ResetQnice, RestTypes
  <2> QED
    BY <2>1, <2>2, <2>3, <2>4, <2>5, TypePartsNext
<1> QED
  BY <1>1, <1>2, <1>3, <1>4, <1>5, <1>6, QnicTypes, CoreTypesStep DEF Next

-----------------------------------------------------------------------------
(* The invariant holds at first.                                            *)
LEMMA InitHolds == Init => IInv
<1> SUFFICES ASSUME Init PROVE IInv
  OBVIOUS
<1>1. TypeOK
  <2>1. mem \in [ReachedByte -> Byte] /\ want \in [ReachedByte -> Byte]
    BY Constants DEF Init
  <2>2. dest_req \in [Channel -> BOOLEAN] /\ src_rcv \in [Channel -> BOOLEAN]
    BY DEF Init
  <2>3. 0 \in Address /\ 0 \in Value /\ 0 \in Position /\ 0 \in 0 .. Span - 1
    BY Constants, Positions DEF Address, Value
  <2>4. dest_out \in [loader : (0 .. Span - 1) \X Byte \X Byte, read_req : Address,
                   read_resp : Value]
    BY <2>3, Constants DEF Init
  <2>5. CpuTypes /\ CheckTypes
    BY <2>1, <2>3, Constants DEF Init, CpuTypes, CheckTypes
  <2>6. LoaderTypes /\ ReaderTypes
    BY <2>3, Constants DEF Init, LoaderTypes, ReaderTypes
  <2>7. SyncTypes
    BY <2>2, <2>4 DEF Init, SyncTypes
  <2>8. CoreTypes
    BY <2>3, Constants DEF Init, CoreTypes
  <2>9. BufferTypes
    BY <2>1, Constants DEF Init, BufferTypes
  <2>10. RestTypes
    <3>1. resetsLeft \in 0 .. MaxResets /\ clears \in 0 .. 1 /\ seen \in SUBSET Value
      BY Constants DEF Init
    <3> QED
      BY <3>1 DEF Init, RestTypes
  <2> QED
    BY <2>5, <2>6, <2>7, <2>8, <2>9, <2>10, TypeParts
<1>2. Firmware /\ Checked
  BY DEF Init, Firmware, Checked, loading
<1>3. WordHandshake
  BY DEF Init, WordHandshake, ce, Channel
<1>4. WordUnderWay
  BY DEF Init, WordUnderWay
<1>5. RequestHandshake
  BY DEF Init, RequestHandshake, ce, Channel
<1>6. AnswerHandshake
  BY DEF Init, AnswerHandshake, Channel
<1>7. AnswerUnderWay /\ ClearUnderWay
  BY DEF Init, AnswerUnderWay, ClearUnderWay, Reads, ce, dirty_clear_o
<1> QED
  BY <1>1, <1>2, <1>3, <1>4, <1>5, <1>6, <1>7 DEF IInv

(* The invariant is inductive.                                              *)
LEMMA StepHolds == IInv /\ [Next]_vars => IInv'
<1>1. ASSUME IInv, Next PROVE IInv'
  BY <1>1, TypeStep, FirmwareStep, CheckedStep, WordHandshakeStep, WordUnderWayStep,
     RequestHandshakeStep, AnswerHandshakeStep, AnswerUnderWayStep, ClearUnderWayStep DEF IInv
<1>2. ASSUME IInv, UNCHANGED vars PROVE IInv'
  <2> USE <1>2 DEF IInv, vars
  <2>1. TypeOK'
    BY DEF TypeOK
  <2>2. Firmware' /\ Checked'
    BY DEF Firmware, Checked, loading
  <2>3. WordHandshake' /\ WordUnderWay'
    BY DEF WordHandshake, WordUnderWay, Put, ce
  <2>4. RequestHandshake' /\ AnswerHandshake'
    BY DEF RequestHandshake, AnswerHandshake, ce
  <2>5. AnswerUnderWay' /\ ClearUnderWay'
    BY DEF AnswerUnderWay, ClearUnderWay, Reads, ce, we, DIRTY_BASE, WordOf, dirty_clear_o
  <2> QED
    BY <2>1, <2>2, <2>3, <2>4, <2>5
<1> QED
  BY <1>1, <1>2

(* The invariant that follows a word, a read and a clear from one clock to    *)
(* the other.                                                                *)
THEOREM Inductive == Spec => []IInv
  BY InitHolds, StepHolds, PTL DEF Spec

(* Type correctness of the bridge and of the loader.                          *)
THEOREM TypeCorrect == Spec => []TypeOK
<1>1. IInv => TypeOK
  BY DEF IInv
<1> QED
  BY <1>1, Inductive, PTL

(* The CPU takes the answer to the read it waits for and to no earlier one:   *)
(* what port A showed, at the address of this read, when reader_core looked.  *)
(* Port A's output is free here: whether what it shows is the word of that    *)
(* address is mdv_dpram.vhd's matter, and not always so (MdvReadBack).        *)
THEOREM AnswersAreThisReads == Spec => []AnswerIsThisReads
<1>1. IInv => AnswerIsThisReads
  BY DEF IInv, AnswerIsThisReads, AnswerUnderWay, qnice_wait_o
<1> QED
  BY <1>1, Inductive, PTL

(* When QNICE goes on after a word, the word is in the buffer, also when the  *)
(* core was reset meanwhile.                                                 *)
THEOREM WordsAreWritten == Spec => []WordsLand
<1>1. IInv => WordsLand
  BY DEF IInv, WordsLand, WordUnderWay
<1> QED
  BY <1>1, Inductive, PTL

(* No word lands after its load's flag is down.                               *)
THEOREM WordsAreLoads == Spec => []LandsInLoad
<1>1. IInv => LandsInLoad
  <2> SUFFICES ASSUME IInv, dl_wr PROVE loading_sync
    BY DEF LandsInLoad
  <2>1. ld_busy
    BY DEF IInv, WordHandshake
  <2> QED
    BY <2>1 DEF IInv, WordHandshake
<1> QED
  BY <1>1, Inductive, PTL

(* A write to the clear register is one pulse in the core.                    *)
THEOREM ClearsOnce == Spec => []OneClear
<1>1. IInv => OneClear
  BY DEF IInv, OneClear, ClearUnderWay
<1> QED
  BY <1>1, Inductive, PTL

(* LOAD_IMAGE returns the verdict on the file it has just loaded.              *)
THEOREM VerdictsMatch == Spec => []VerdictIsThisLoads
<1>1. IInv => VerdictIsThisLoads
  <2> SUFFICES ASSUME IInv, verdict # "none"
               PROVE  (verdict = "READY" <=> file <= MaxBytes) /\ (spilled => verdict = "ERROR")
    BY DEF VerdictIsThisLoads
  <2>1. verdict = IF file <= MaxBytes THEN "READY" ELSE "ERROR"
    BY DEF IInv, Checked
  <2>2. spilled => file > MaxBytes
    BY DEF IInv, Checked
  <2>3. file \in Nat /\ MaxBytes \in Nat
    BY Accesses, Constants
  <2> QED
    BY <2>1, <2>2, <2>3
<1> QED
  BY <1>1, Inductive, PTL

-----------------------------------------------------------------------------
(* How far a transfer is from its end.                                       *)

(* The six parts of the word's handshake agree with one another.             *)
LEMMA WordLevels ==
  ASSUME IInv, ~reset_i, ld_busy
  PROVE  /\ ld_send /\ src_rcv["loader"] => ld_ack
         /\ ld_send /\ ld_ack => dest_req["loader"]
         /\ ~ld_send /\ dest_req["loader"] => ld_ack
         /\ ~ld_send /\ ld_ack => src_rcv["loader"]
BY Levels DEF IInv, WordHandshake

(* Each step of a word's transfer is one less.                                *)
LEMMA WordCounts ==
  ASSUME IInv, Next, ~reset_i, ~reset_i', ld_busy
  PROVE  /\ ToWord \in 1 .. 8
         /\ \/ ld_busy' /\ ToWord' = ToWord - 1
            \/ ~ld_busy' /\ ToWord = 1
            \/ UNCHANGED <<ld_busy, ld_send, ld_ack, dest_req["loader"], src_rcv["loader"]>>
<1> USE Levels, WordLevels
<1>1. ToWord \in 1 .. 8
  BY DEF ToWord, Changes
<1>2. CASE QnicEdge
  <2>1. FinishWord /\ UNCHANGED <<ld_ack, dest_req, src_rcv>>
    BY <1>2, LoaderSteps DEF QnicEdge
  <2>2. CASE ld_send /\ src_rcv["loader"]
    <3>1. ld_busy' /\ ~ld_send'
      BY <2>1, <2>2, FinishWordSteps
    <3> QED
      BY <1>1, <2>1, <2>2, <3>1 DEF ToWord, Changes
  <2>3. CASE ld_send /\ ~src_rcv["loader"]
    <3>1. UNCHANGED <<ld_busy, ld_send>>
      BY <2>1, <2>3 DEF FinishWord
    <3> QED
      BY <1>1, <2>1, <3>1
  <2>4. CASE ~ld_send /\ src_rcv["loader"]
    <3>1. UNCHANGED <<ld_busy, ld_send>>
      BY <2>1, <2>4 DEF FinishWord
    <3> QED
      BY <1>1, <2>1, <3>1
  <2>5. CASE ~ld_send /\ ~src_rcv["loader"]
    <3>1. ~ld_busy'
      BY <2>1, <2>5, FinishWordSteps
    <3>2. ~ld_ack /\ ~dest_req["loader"]
      BY <2>5
    <3>3. ToWord = 1
      BY <2>5, <3>2 DEF ToWord, Changes
    <3> QED
      BY <1>1, <3>1, <3>3
  <2> QED
    BY <2>2, <2>3, <2>4, <2>5
<1>3. ASSUME NEW v \in BOOLEAN, CoreEdge(v)
      PROVE  \/ ld_busy' /\ ToWord' = ToWord - 1
             \/ UNCHANGED <<ld_busy, ld_send, ld_ack, dest_req["loader"], src_rcv["loader"]>>
  <2>1. loader_core /\ UNCHANGED <<ld_busy, ld_send, dest_req, src_rcv>>
    BY <1>3 DEF CoreEdge
  <2>2. ld_ack <=> ld_state = "WAIT_REQ_LOW"
    BY DEF IInv, WordHandshake
  <2>3. CASE ld_state = "IDLE" /\ dest_req["loader"]
    <3>1. ld_ack' /\ ~ld_ack /\ ld_send /\ ~src_rcv["loader"]
      BY <2>1, <2>2, <2>3 DEF loader_core
    <3>2. ToWord = 7 /\ ToWord' = 6
      BY <2>1, <2>3, <3>1 DEF ToWord, Changes
    <3> QED
      BY <2>1, <3>2
  <2>4. CASE ld_state = "WAIT_REQ_LOW" /\ ~dest_req["loader"]
    <3>1. ~ld_ack' /\ ld_ack /\ ~ld_send
      BY <2>1, <2>2, <2>4 DEF loader_core
    <3> QED
      BY <2>1, <3>1 DEF ToWord, Changes
  <2>5. CASE dest_req["loader"] = (ld_state = "WAIT_REQ_LOW")
    BY <2>1, <2>5 DEF loader_core
  <2> QED
    BY <2>1, <2>3, <2>4, <2>5 DEF loader_core
<1>4. ASSUME NEW c \in Channel, CrossReq(c)
      PROVE  \/ ld_busy' /\ ToWord' = ToWord - 1
             \/ UNCHANGED <<ld_busy, ld_send, ld_ack, dest_req["loader"], src_rcv["loader"]>>
  <2>1. /\ dest_req' = [dest_req EXCEPT ![c] = send(c)] /\ dest_req[c] # send(c)
        /\ UNCHANGED <<ld_busy, ld_send, ld_ack, src_rcv>>
    BY <1>4 DEF CrossReq, Synchronised, loadQVars, loadCVars
  <2>2. CASE c = "loader"
    <3>1. dest_req'["loader"] = ld_send /\ dest_req["loader"] = ~ld_send
      BY <2>1, <2>2
    <3> QED
      BY <2>1, <3>1 DEF ToWord, Changes
  <2>3. CASE c # "loader"
    BY <2>1, <2>3
  <2> QED
    BY <2>2, <2>3
<1>5. ASSUME NEW c \in Channel, CrossRcv(c)
      PROVE  \/ ld_busy' /\ ToWord' = ToWord - 1
             \/ UNCHANGED <<ld_busy, ld_send, ld_ack, dest_req["loader"], src_rcv["loader"]>>
  <2>1. /\ src_rcv' = [src_rcv EXCEPT ![c] = ack(c)] /\ src_rcv[c] # ack(c)
        /\ UNCHANGED <<ld_busy, ld_send, ld_ack, dest_req>>
    BY <1>5 DEF CrossRcv, Synchronised, loadQVars, loadCVars
  <2>2. CASE c = "loader"
    <3>1. src_rcv'["loader"] = ld_ack /\ src_rcv["loader"] = ~ld_ack /\ ld_ack = ld_send
      BY <2>1, <2>2
    <3> QED
      BY <2>1, <3>1 DEF ToWord, Changes
  <2>3. CASE c # "loader"
    BY <2>1, <2>3
  <2> QED
    BY <2>2, <2>3
<1>6. CASE CrossLoading
  BY <1>1, <1>6 DEF CrossLoading, Synchronised, loadQVars, loadCVars
<1>7. ~Press /\ ~Release /\ ~ResetQnice
  BY DEF Press, Release, ResetQnice, Settled
<1> QED
  BY <1>1, <1>2, <1>3, <1>4, <1>5, <1>6, <1>7 DEF Next

(* A word is eight steps, none of which is undone.                            *)
THEOREM WordsAdvance == Spec => WordAdvances
<1>1. ASSUME IInv, [Next]_vars
      PROVE  [~reset_i /\ ~reset_i' /\ ld_busy =>
                /\ ToWord \in 1 .. 8
                /\ \/ ld_busy' /\ ToWord' = ToWord - 1
                   \/ ~ld_busy' /\ ToWord = 1
                   \/ UNCHANGED <<ld_busy, ld_send, ld_ack, dest_req["loader"],
                                  src_rcv["loader"]>>]_vars
  BY <1>1, WordCounts
<1> QED
  BY <1>1, Inductive, PTL DEF WordAdvances, Spec

(* The core keeps a read that it was not reset under.                         *)
LEMMA ReadKeptStep == ASSUME IInv, ReadKept, Next PROVE ReadKept'
<1> USE Levels DEF ReadKept
<1>1. RequestHandshake /\ AnswerHandshake
  BY DEF IInv
<1>2. CASE QnicEdge
  <2>1. reader_qnice /\ UNCHANGED <<src_rcv, rdcore_state, dropped>>
    BY <1>2 DEF QnicEdge
  <2> QED
    BY <1>1, <2>1, ReaderSteps DEF RequestHandshake
<1>3. ASSUME NEW v \in BOOLEAN, CoreEdge(v) PROVE ReadKept'
  <2>0. PICK q \in PortA : reader_core(v, q)
    BY <1>3 DEF CoreEdge
  <2>1. /\ UNCHANGED <<src_rcv, rd_state>>
        /\ dropped' = (dropped \/ (reset_i /\ rdcore_state # "IDLE"))
    BY <1>3 DEF CoreEdge
  <2> QED
    BY <1>1, <2>0, <2>1, CoreReaderSteps DEF RequestHandshake, AnswerHandshake, readCVars
<1>4. ASSUME NEW c \in Channel, CrossReq(c) PROVE ReadKept'
  BY <1>4 DEF CrossReq, Synchronised, readQVars, readCVars, histVars
<1>5. ASSUME NEW c \in Channel, CrossRcv(c) PROVE ReadKept'
  <2>1. /\ src_rcv' = [src_rcv EXCEPT ![c] = ack(c)]
        /\ UNCHANGED <<rd_state, rdcore_state, dropped>>
    BY <1>5 DEF CrossRcv, Synchronised, readQVars, readCVars, histVars
  <2>2. src_rcv'["read_req"] = src_rcv["read_req"] \/ src_rcv'["read_req"] = req_ack
    BY <2>1
  <2> QED
    BY <1>1, <2>1, <2>2 DEF RequestHandshake
<1>6. CASE CrossLoading
  BY <1>6 DEF CrossLoading, Synchronised, readQVars, readCVars, histVars
<1>7. CASE Press
  BY <1>7 DEF Press, readQVars, syncVars, readCVars, histVars
<1>8. CASE Release
  BY <1>8 DEF Release, readQVars, syncVars, readCVars, histVars
<1>9. CASE ResetQnice
  BY <1>9 DEF ResetQnice
<1> QED
  BY <1>2, <1>3, <1>4, <1>5, <1>6, <1>7, <1>8, <1>9 DEF Next

(* A read is kept by the core until its end or a reset.                       *)
LEMMA ReadsAreKept == Spec => []ReadKept
<1>1. Init => ReadKept
  BY DEF Init, ReadKept
<1>2. ASSUME IInv, ReadKept, [Next]_vars PROVE ReadKept'
  <2>1. CASE Next
    BY <1>2, <2>1, ReadKeptStep
  <2>2. CASE UNCHANGED vars
    BY <1>2, <2>2 DEF ReadKept, vars, readQVars, syncVars, readCVars, histVars
  <2> QED
    BY <1>2, <2>1, <2>2
<1> QED
  BY <1>1, <1>2, Inductive, PTL DEF Spec

(* What is left of a read, side by side.                                     *)
Asks    == rd_state \in {"IDLE", "SEND_WAIT_RCV"}
Expects == rd_state # "RESP_WAIT_LOW"
OfQnice == CASE rd_state = "IDLE"              -> 5
             [] rd_state = "SEND_WAIT_RCV"     -> 4
             [] rd_state = "SEND_WAIT_RCV_LOW" -> 3
             [] rd_state = "WAIT_RESP"         -> 2
             [] rd_state = "RESP_WAIT_LOW"     -> 1
OfCore  == CASE rdcore_state = "SEND_WAIT_RCV_LOW" -> IF Asks THEN 6 ELSE 0
             [] rdcore_state = "IDLE"              -> 5
             [] rdcore_state = "REQ_WAIT_LOW"      -> 4
             [] rdcore_state = "LATCH1"            -> 3
             [] rdcore_state = "LATCH2"            -> 2
             [] rdcore_state = "SEND_WAIT_RCV"     -> 1
OfReq   == Changes(dest_req["read_req"], Asks)
OfReqB  == Changes(src_rcv["read_req"], Asks)
OfResp  == Changes(dest_req["read_resp"], Expects)
OfRespB == IF ~src_rcv["read_resp"] THEN 1 ELSE IF Expects THEN 2 ELSE 0

(* The parts and their sum.                                                  *)
Parts ==
  /\ OfQnice \in 1 .. 5 /\ OfCore \in 0 .. 6 /\ OfReq \in 0 .. 2 /\ OfReqB \in 0 .. 2
  /\ OfResp \in 0 .. 2 /\ OfRespB \in 0 .. 2
  /\ ToRead = OfQnice + OfCore + OfReq + OfReqB + OfResp + OfRespB

LEMMA ReadParts == IInv => Parts
<1> SUFFICES ASSUME IInv PROVE Parts
  OBVIOUS
<1>1. /\ rd_state \in {"IDLE", "SEND_WAIT_RCV", "SEND_WAIT_RCV_LOW", "WAIT_RESP", "RESP_WAIT_LOW"}
      /\ rdcore_state \in {"IDLE", "REQ_WAIT_LOW", "LATCH1", "LATCH2", "SEND_WAIT_RCV",
                           "SEND_WAIT_RCV_LOW"}
  BY DEF IInv, TypeOK
<1>2. OfQnice \in 1 .. 5
  BY <1>1 DEF OfQnice
<1>3. OfCore \in 0 .. 6
  BY <1>1 DEF OfCore
<1>4. OfReq \in 0 .. 2 /\ OfReqB \in 0 .. 2 /\ OfResp \in 0 .. 2 /\ OfRespB \in 0 .. 2
  BY DEF OfReq, OfReqB, OfResp, OfRespB, Changes
<1>5. ToRead = OfQnice + OfCore + OfReq + OfReqB + OfResp + OfRespB
  BY DEF ToRead, OfQnice, OfCore, OfReq, OfReqB, OfResp, OfRespB, Asks, Expects
<1> QED
  BY <1>2, <1>3, <1>4, <1>5 DEF Parts

(* One part less is one step less.                                           *)
LEMMA OnePartLess ==
  ASSUME Parts, Parts',
         \/ /\ OfQnice' = OfQnice - 1 /\ OfCore' = OfCore /\ OfReq' = OfReq
            /\ OfReqB' = OfReqB /\ OfResp' = OfResp /\ OfRespB' = OfRespB
         \/ /\ OfQnice' = OfQnice /\ OfCore' = OfCore - 1 /\ OfReq' = OfReq
            /\ OfReqB' = OfReqB /\ OfResp' = OfResp /\ OfRespB' = OfRespB
         \/ /\ OfQnice' = OfQnice /\ OfCore' = OfCore /\ OfReq' = OfReq - 1
            /\ OfReqB' = OfReqB /\ OfResp' = OfResp /\ OfRespB' = OfRespB
         \/ /\ OfQnice' = OfQnice /\ OfCore' = OfCore /\ OfReq' = OfReq
            /\ OfReqB' = OfReqB - 1 /\ OfResp' = OfResp /\ OfRespB' = OfRespB
         \/ /\ OfQnice' = OfQnice /\ OfCore' = OfCore /\ OfReq' = OfReq
            /\ OfReqB' = OfReqB /\ OfResp' = OfResp - 1 /\ OfRespB' = OfRespB
         \/ /\ OfQnice' = OfQnice /\ OfCore' = OfCore /\ OfReq' = OfReq
            /\ OfReqB' = OfReqB /\ OfResp' = OfResp /\ OfRespB' = OfRespB - 1
  PROVE  ToRead' = ToRead - 1
<1>1. PICK q \in Int, c \in Int, r \in Int, s \in Int, t \in Int, u \in Int :
        /\ q = OfQnice /\ c = OfCore /\ r = OfReq /\ s = OfReqB /\ t = OfResp /\ u = OfRespB
        /\ ToRead = q + c + r + s + t + u
  BY DEF Parts
<1>2. \/ ToRead' = (q - 1) + c + r + s + t + u \/ ToRead' = q + (c - 1) + r + s + t + u
      \/ ToRead' = q + c + (r - 1) + s + t + u \/ ToRead' = q + c + r + (s - 1) + t + u
      \/ ToRead' = q + c + r + s + (t - 1) + u \/ ToRead' = q + c + r + s + t + (u - 1)
  BY <1>1 DEF Parts
<1>3. ToRead' = (q + c + r + s + t + u) - 1
  BY <1>2
<1> QED
  BY <1>1, <1>3

(* How many steps a read takes at most.                                      *)
LEMMA ReadBound == ASSUME Parts PROVE ToRead \in 1 .. 19
<1>1. PICK q \in 1 .. 5, c \in 0 .. 6, r \in 0 .. 2, s \in 0 .. 2, t \in 0 .. 2, u \in 0 .. 2 :
        ToRead = q + c + r + s + t + u
  BY DEF Parts
<1>2. q + c + r + s + t + u \in 1 .. 19
  OBVIOUS
<1> QED
  BY <1>1, <1>2

(* Each step of a read is one less.                                           *)
LEMMA ReadCounts ==
  ASSUME IInv, IInv', ReadKept, Next, ReadWaits, ReadWaits'
  PROVE  \/ ToRead' = ToRead - 1
         \/ UNCHANGED <<rd_state, rdcore_state, dest_req, src_rcv>>
<1> USE Levels
<1>1. Parts /\ Parts'
  BY ReadParts, PTL
<1>2. /\ Reads /\ ~reset_i /\ ~dropped /\ ~reset_i' /\ ~dropped'
      /\ ~ld_busy /\ ~ld_send /\ ~ld_ack /\ ~dest_req["loader"] /\ ~src_rcv["loader"]
  BY DEF ReadWaits, Reads, IInv, WordHandshake
<1>3. ReadKept /\ RequestHandshake /\ AnswerHandshake
  BY DEF IInv
<1>4. CASE QnicEdge
  <2>1. /\ reader_qnice /\ rd_req_prev' /\ UNCHANGED <<src_rcv, dest_req, rdcore_state, req_ack>>
    BY <1>2, <1>4 DEF QnicEdge, p_rd_edge
  <2>2. CASE rd_state = "IDLE" /\ rd_state' = "SEND_WAIT_RCV"
    <3>1. Asks' = Asks /\ Expects' = Expects
      BY <2>2 DEF Asks, Expects
    <3>2. OfCore' = OfCore /\ OfReq' = OfReq /\ OfReqB' = OfReqB /\ OfResp' = OfResp
          /\ OfRespB' = OfRespB
      BY <2>1, <3>1 DEF OfCore, OfReq, OfReqB, OfResp, OfRespB
    <3>3. OfQnice' = OfQnice - 1
      BY <2>2 DEF OfQnice
    <3> QED
      BY <1>1, <3>2, <3>3, OnePartLess
  <2>3. CASE rd_state = "SEND_WAIT_RCV" /\ src_rcv["read_req"] /\ rd_state' = "SEND_WAIT_RCV_LOW"
    <3>1. rdcore_state = "REQ_WAIT_LOW" /\ dest_req["read_req"]
      BY <1>2, <1>3, <2>3 DEF ReadKept, RequestHandshake
    <3>2. OfCore' = OfCore /\ OfReq' = OfReq /\ OfReqB' = OfReqB /\ OfResp' = OfResp
          /\ OfRespB' = OfRespB
      BY <2>1, <2>3, <3>1 DEF OfCore, OfReq, OfReqB, OfResp, OfRespB, Asks, Expects, Changes
    <3>3. OfQnice' = OfQnice - 1
      BY <2>3 DEF OfQnice
    <3> QED
      BY <1>1, <3>2, <3>3, OnePartLess
  <2>4. CASE rd_state = "SEND_WAIT_RCV_LOW" /\ rd_state' = "WAIT_RESP"
    <3>1. Asks' = Asks /\ Expects' = Expects
      BY <2>4 DEF Asks, Expects
    <3>2. OfCore' = OfCore /\ OfReq' = OfReq /\ OfReqB' = OfReqB /\ OfResp' = OfResp
          /\ OfRespB' = OfRespB
      BY <2>1, <3>1 DEF OfCore, OfReq, OfReqB, OfResp, OfRespB
    <3>3. OfQnice' = OfQnice - 1
      BY <2>4 DEF OfQnice
    <3> QED
      BY <1>1, <3>2, <3>3, OnePartLess
  <2>5. CASE rd_state = "WAIT_RESP" /\ dest_req["read_resp"] /\ rd_state' = "RESP_WAIT_LOW"
    <3>1. ~src_rcv["read_resp"]
      BY <1>2, <1>3, <2>5 DEF AnswerHandshake
    <3>2. OfCore' = OfCore /\ OfReq' = OfReq /\ OfReqB' = OfReqB /\ OfResp' = OfResp
          /\ OfRespB' = OfRespB
      BY <2>1, <2>5, <3>1 DEF OfCore, OfReq, OfReqB, OfResp, OfRespB, Asks, Expects, Changes
    <3>3. OfQnice' = OfQnice - 1
      BY <2>5 DEF OfQnice
    <3> QED
      BY <1>1, <3>2, <3>3, OnePartLess
  <2>6. CASE rd_state = "RESP_WAIT_LOW" /\ rd_state' = "IDLE"
    <3>1. ~ld_busy'
      BY DEF ReadWaits, Reads, IInv, WordHandshake
    <3> QED
      BY <2>1, <2>6, <3>1 DEF ReadWaits, qnice_wait_o
  <2>7. CASE UNCHANGED rd_state
    BY <2>1, <2>7
  <2> QED
    BY <2>1, <2>2, <2>3, <2>4, <2>5, <2>6, <2>7, ReaderSteps
<1>5. ASSUME NEW v \in BOOLEAN, CoreEdge(v)
      PROVE  \/ ToRead' = ToRead - 1
             \/ UNCHANGED <<rd_state, rdcore_state, dest_req, src_rcv>>
  <2>0. PICK q \in PortA : reader_core(v, q)
    BY <1>5 DEF CoreEdge
  <2>1. UNCHANGED <<rd_state, dest_req, src_rcv>>
    BY <1>5 DEF CoreEdge
  <2>2. OfQnice' = OfQnice /\ OfReq' = OfReq /\ OfReqB' = OfReqB /\ OfResp' = OfResp
        /\ OfRespB' = OfRespB /\ Asks' = Asks
    BY <2>1 DEF OfQnice, OfReq, OfReqB, OfResp, OfRespB, Asks, Expects
  <2>3. UNCHANGED rdcore_state \/ OfCore' = OfCore - 1
    <3>1. /\ rdcore_state = "SEND_WAIT_RCV" /\ src_rcv["read_resp"] => ~Asks
          /\ rdcore_state = "SEND_WAIT_RCV_LOW" /\ ~src_rcv["read_resp"] => Asks
      BY <1>2, <1>3 DEF AnswerHandshake, Asks, IInv, TypeOK
    <3> QED
      BY <1>2, <2>0, <2>1, <2>2, <3>1, CoreReaderSteps DEF OfCore, readCVars
  <2> QED
    BY <1>1, <2>1, <2>2, <2>3, OnePartLess
<1>6. ASSUME NEW c \in Channel, CrossReq(c) PROVE ToRead' = ToRead - 1
  <2>1. /\ dest_req' = [dest_req EXCEPT ![c] = send(c)] /\ dest_req[c] # send(c)
        /\ UNCHANGED <<rd_state, rdcore_state, src_rcv>>
    BY <1>6 DEF CrossReq, Synchronised, readQVars, readCVars
  <2>2. OfQnice' = OfQnice /\ OfCore' = OfCore /\ OfReqB' = OfReqB /\ OfRespB' = OfRespB
        /\ Asks' = Asks /\ Expects' = Expects
    BY <2>1 DEF OfQnice, OfCore, OfReqB, OfRespB, Asks, Expects
  <2>3. c # "loader"
    BY <1>2, <2>1
  <2>4. CASE c = "read_req"
    <3>1. dest_req'["read_req"] = rd_send /\ dest_req["read_req"] = ~rd_send
          /\ dest_req'["read_resp"] = dest_req["read_resp"]
      BY <2>1, <2>4
    <3>2. rd_send <=> Asks
      BY <1>2, <1>3, <3>1 DEF RequestHandshake, Asks, Reads
    <3>3. OfReq' = OfReq - 1
      BY <2>2, <3>1, <3>2 DEF OfReq, Changes
    <3> QED
      BY <1>1, <2>2, <3>1, <3>3, OnePartLess DEF OfResp
  <2>5. CASE c = "read_resp"
    <3>1. dest_req'["read_resp"] = rd_result_send /\ dest_req["read_resp"] = ~rd_result_send
          /\ dest_req'["read_req"] = dest_req["read_req"]
      BY <2>1, <2>5
    <3>2. rd_result_send <=> Expects
      BY <1>2, <1>3, <3>1 DEF AnswerHandshake, Expects
    <3>3. OfResp' = OfResp - 1
      BY <2>2, <3>1, <3>2 DEF OfResp, Changes
    <3> QED
      BY <1>1, <2>2, <3>1, <3>3, OnePartLess DEF OfReq
  <2> QED
    BY <2>3, <2>4, <2>5 DEF Channel
<1>7. ASSUME NEW c \in Channel, CrossRcv(c) PROVE ToRead' = ToRead - 1
  <2>1. /\ src_rcv' = [src_rcv EXCEPT ![c] = ack(c)] /\ src_rcv[c] # ack(c)
        /\ UNCHANGED <<rd_state, rdcore_state, dest_req>>
    BY <1>7 DEF CrossRcv, Synchronised, readQVars, readCVars
  <2>2. OfQnice' = OfQnice /\ OfCore' = OfCore /\ OfReq' = OfReq /\ OfResp' = OfResp
        /\ Asks' = Asks /\ Expects' = Expects
    BY <2>1 DEF OfQnice, OfCore, OfReq, OfResp, Asks, Expects
  <2>3. c # "loader"
    BY <1>2, <2>1
  <2>4. CASE c = "read_req"
    <3>1. src_rcv'["read_req"] = req_ack /\ src_rcv["read_req"] = ~req_ack
          /\ src_rcv'["read_resp"] = src_rcv["read_resp"]
      BY <2>1, <2>4
    <3>2. req_ack <=> Asks
      BY <1>2, <1>3, <3>1 DEF RequestHandshake, Asks
    <3>3. OfReqB' = OfReqB - 1
      BY <2>2, <3>1, <3>2 DEF OfReqB, Changes
    <3> QED
      BY <1>1, <2>2, <3>1, <3>3, OnePartLess DEF OfRespB
  <2>5. CASE c = "read_resp"
    <3>1. src_rcv'["read_resp"] = resp_ack /\ src_rcv["read_resp"] = ~resp_ack
          /\ src_rcv'["read_req"] = src_rcv["read_req"]
      BY <2>1, <2>5
    <3>2. resp_ack <=> ~Expects
      BY <1>3 DEF AnswerHandshake, Expects
    <3>3. OfRespB' = OfRespB - 1
      BY <2>2, <3>1, <3>2 DEF OfRespB
    <3> QED
      BY <1>1, <2>2, <3>1, <3>3, OnePartLess DEF OfReqB
  <2> QED
    BY <2>3, <2>4, <2>5 DEF Channel
<1>8. CASE CrossLoading
  BY <1>8 DEF CrossLoading, Synchronised, readQVars, readCVars
<1>9. ~Press /\ ~Release /\ ~ResetQnice
  BY <1>2 DEF Press, Release, ResetQnice, Settled
<1> QED
  BY <1>4, <1>5, <1>6, <1>7, <1>8, <1>9 DEF Next

(* A read is 19 steps at most, none of which is undone.                       *)
THEOREM ReadsAdvance == Spec => ReadAdvances
<1>1. ASSUME IInv, IInv', ReadKept, [Next]_vars
      PROVE  [ReadWaits /\ ReadWaits' =>
                /\ ToRead \in 1 .. 19
                /\ \/ ToRead' = ToRead - 1
                   \/ UNCHANGED <<rd_state, rdcore_state, dest_req, src_rcv>>]_vars
  BY <1>1, ReadParts, ReadBound, ReadCounts
<1> QED
  BY <1>1, Inductive, ReadsAreKept, PTL DEF ReadAdvances, Spec

(* And there is always a next one, on one of the sides.                       *)
THEOREM ReadsDoNotStick == Spec => []NoReadStuck
<1>1. IInv /\ ReadKept => NoReadStuck
  <2> SUFFICES ASSUME IInv, ReadKept, ReadWaits,
                      \A c \in Channel : dest_req[c] = send(c) /\ src_rcv[c] = ack(c)
               PROVE  SomebodyMoves
    BY DEF NoReadStuck, SomebodyMoves
  <2> USE Levels DEF SomebodyMoves
  <2>1. RequestHandshake /\ AnswerHandshake /\ ~dropped /\ ~reset_i /\ Reads
    BY DEF IInv, ReadWaits
  <2>2. /\ dest_req["read_req"] = rd_send /\ src_rcv["read_req"] = req_ack
        /\ dest_req["read_resp"] = rd_result_send /\ src_rcv["read_resp"] = resp_ack
    OBVIOUS
  <2>3. /\ rd_send <=> rd_state = "SEND_WAIT_RCV"
        /\ req_ack <=> rdcore_state = "REQ_WAIT_LOW"
        /\ resp_ack <=> rd_state = "RESP_WAIT_LOW"
        /\ rd_result_send <=> rdcore_state = "SEND_WAIT_RCV"
    BY <2>1 DEF RequestHandshake, AnswerHandshake
  <2>4. CASE rd_state = "IDLE"
    BY <2>1, <2>4
  <2>5. CASE rd_state = "SEND_WAIT_RCV"
    <3>1. rdcore_state \in {"IDLE", "SEND_WAIT_RCV_LOW", "REQ_WAIT_LOW"}
      BY <2>1, <2>5 DEF AnswerHandshake
    <3> QED
      BY <2>2, <2>3, <2>5, <3>1
  <2>6. CASE rd_state \in {"SEND_WAIT_RCV_LOW", "WAIT_RESP"}
    <3>1. rdcore_state \in {"REQ_WAIT_LOW", "LATCH1", "LATCH2", "SEND_WAIT_RCV"}
      BY <2>1, <2>6 DEF AnswerHandshake, ReadKept
    <3> QED
      BY <2>2, <2>3, <2>6, <3>1
  <2>7. CASE rd_state = "RESP_WAIT_LOW"
    <3>1. rdcore_state \in {"SEND_WAIT_RCV", "SEND_WAIT_RCV_LOW"}
      BY <2>1, <2>7 DEF AnswerHandshake
    <3> QED
      BY <2>2, <2>3, <2>7, <3>1
  <2> QED
    BY <2>4, <2>5, <2>6, <2>7 DEF IInv, TypeOK
<1> QED
  BY <1>1, Inductive, ReadsAreKept, PTL
=============================================================================
