--------------------------- MODULE AvmCache_proofs ---------------------------
(***************************************************************************)
(* The read cache (AvmCache) for any line, address range and content: IInv  *)
(* is inductive, and under it every clock edge is a step of the plain       *)
(* memory WordMemory, with Stored in the place of its words.  Then the path  *)
(* behind it (HyperRamPath), for FIFOs of any depth that hold a line: it is *)
(* the memory that AvmCache assumes.                                        *)
(***************************************************************************)
EXTENDS HyperRamPath, SequenceTheorems, TLAPS

(* The line is two halves, and addresses are integers.                      *)
LEMMA Sizes ==
  /\ Line \in Nat /\ Half \in Nat /\ Line = Half + Half /\ Half >= 1
  /\ LastAddr \in Nat /\ NoAddr \notin Addr
  /\ Addr \subseteq MemAddr /\ Addr \subseteq Int
BY ConstantsAssumption DEF Half, Addr, MemAddr

(* A merged word is a word.                                                 *)
LEMMA MergeType ==
  ASSUME NEW w \in Word, NEW v \in Word, NEW be
  PROVE  Merge(w, v, be) \in Word
BY DEF Merge, Word

(* The two modules merge words alike.                                       *)
LEMMA SameMerge ==
  ASSUME NEW w, NEW v, NEW be
  PROVE  Promise!Merge(w, v, be) = Merge(w, v, be)
BY DEF Merge, Promise!Merge

LEMMA SameWord ==
  Promise!Word = Word
BY DEF Word, Promise!Word

(* The client's part of an edge.                                            *)
LEMMA ClientType ==
  ASSUME TypeOK, NEW accepted \in BOOLEAN, Promise!Client(accepted),
         s_readdatavalid' \in BOOLEAN
  PROVE  /\ s_write' \in BOOLEAN /\ s_read' \in BOOLEAN /\ s_address' \in Addr
         /\ s_writedata' \in Word /\ s_byteenable' \in SUBSET Lane
         /\ asked' \in Addr \union {NoAddr} /\ writesLeft' \in 0 .. MaxWrites
<1> USE DEF Promise!Client, Promise!NewRequest, Promise!request
<1>1. /\ s_write \in BOOLEAN /\ s_read \in BOOLEAN /\ s_address \in Addr
      /\ s_writedata \in Word /\ s_byteenable \in SUBSET Lane
      /\ asked \in Addr \union {NoAddr} /\ writesLeft \in 0 .. MaxWrites
      /\ WriteData \subseteq Word /\ MaxWrites \in Nat
  BY ConstantsAssumption DEF TypeOK
<1>2. asked' \in Addr \union {NoAddr}
  BY <1>1
<1>3. writesLeft' = writesLeft \/ (writesLeft > 0 /\ writesLeft' = writesLeft - 1)
  BY <1>1
<1>4. writesLeft' \in 0 .. MaxWrites
  BY <1>1, <1>3
<1>5. /\ s_write' \in BOOLEAN /\ s_read' \in BOOLEAN /\ s_address' \in Addr
      /\ s_writedata' \in Word /\ s_byteenable' \in SUBSET Lane
  BY <1>1
<1> QED
  BY <1>2, <1>4, <1>5

(* The registers start in the invariant.                                    *)
LEMMA InitIInv ==
  Init => IInv
<1> SUFFICES ASSUME Init PROVE IInv
  OBVIOUS
<1>1. Zero \in Word /\ 0 \in Addr /\ 0 \in MemAddr
  BY Sizes, ConstantsAssumption DEF Zero, Word, Addr, MemAddr
<1>2. TypeOK
  <2>1. /\ s_write \in BOOLEAN /\ s_read \in BOOLEAN /\ s_address \in Addr
        /\ s_writedata \in Word /\ s_byteenable \in SUBSET Lane
        /\ asked \in Addr \union {NoAddr} /\ writesLeft \in 0 .. MaxWrites
    <3>1. WriteData \subseteq Word /\ MaxWrites \in 0 .. MaxWrites
      BY ConstantsAssumption
    <3>2. Promise!ClientInit
      BY DEF Init
    <3> QED
      BY <3>1, <3>2 DEF Promise!ClientInit
  <2>2. cache_data \in [0 .. Line - 1 -> Word]
    BY <1>1 DEF Init
  <2>3. /\ cache_addr \in 0 .. LastAddr + 1 /\ cache_count \in 0 .. Line
        /\ m_burstcount \in 0 .. Line /\ left \in 0 .. Line /\ next \in Nat
    BY Sizes DEF Init
  <2>4. mem \in [MemAddr -> Word]
    BY ConstantsAssumption DEF Init
  <2> QED
    BY <1>1, <2>1, <2>2, <2>3, <2>4 DEF Init, TypeOK
<1>3. LineCoherent /\ FillShape /\ ClientShape
  BY Sizes DEF Init, LineCoherent, FillShape, ClientShape, Promise!ClientInit
<1> QED
  BY <1>2, <1>3 DEF IInv

(* What the client is to see is a memory of words.                          *)
LEMMA StoredType ==
  ASSUME TypeOK
  PROVE  Stored \in [MemAddr -> Word]
<1>1. mem \in [MemAddr -> Word] /\ m_address \in MemAddr /\ m_writedata \in Word
  BY DEF TypeOK
<1>2. Merge(mem[m_address], m_writedata, m_byteenable) \in Word
  BY <1>1, MergeType
<1> QED
  BY <1>1, <1>2 DEF Stored

(* A word that arrives is the one the line lacks next, and the client's.    *)
LEMMA ArrivingWord ==
  ASSUME IInv, NEW wait \in BOOLEAN, NEW valid \in BOOLEAN, Memory(wait, valid), valid
  PROVE  /\ state = "READING_ST" /\ ~m_read /\ ~m_write
         /\ cache_count \in 0 .. Line - 1
         /\ next = cache_addr + cache_count /\ next \in MemAddr
         /\ m_readdata(valid) = Stored[cache_addr + cache_count]
         /\ m_readdata(valid) \in Word
<1>1. left > 0 /\ left \in 0 .. Line /\ state \in {"IDLE_ST", "READING_ST"}
      /\ cache_addr \in 0 .. LastAddr + 1 /\ cache_count \in 0 .. Line
      /\ mem \in [MemAddr -> Word]
  BY DEF IInv, TypeOK, Memory, Ledger
<1>2. state = "READING_ST" /\ ~m_write /\ ~m_read
      /\ next = cache_addr + cache_count /\ cache_count + left = Line
  BY <1>1 DEF IInv, FillShape
<1>3. cache_count \in 0 .. Line - 1 /\ next \in MemAddr
  BY <1>1, <1>2, Sizes DEF MemAddr
<1>4. m_readdata(valid) = mem[next] /\ Stored = mem
  BY <1>2 DEF m_readdata, Stored
<1> QED
  BY <1>1, <1>2, <1>3, <1>4

(* What an edge may do, and in which state.                                 *)
LEMMA EdgeCases ==
  ASSUME IInv, NEW wait \in BOOLEAN, NEW valid \in BOOLEAN, Clock(wait, valid)
  PROVE  \/ (* nothing asked of the cache, or nothing accepted *)
            /\ state = "IDLE_ST" /\ ~valid
            /\ s_waitrequest(wait, valid) \/ ~(s_write \/ s_read)
            /\ Withdraw(wait) /\ NoAnswer /\ UNCHANGED <<state, lineVars>>
         \/ /\ state = "IDLE_ST" /\ ~valid /\ ~s_waitrequest(wait, valid)
            /\ IdleWrite
         \/ /\ state = "IDLE_ST" /\ ~valid /\ ~s_waitrequest(wait, valid)
            /\ s_read /\ InLine /\ IdleHit(wait)
         \/ /\ state = "IDLE_ST" /\ ~valid /\ ~s_waitrequest(wait, valid)
            /\ IdleMiss
         \/ /\ state = "READING_ST" /\ ~valid
            /\ ReadingAnswer(wait, valid) /\ Withdraw(wait) /\ UNCHANGED <<state, lineVars>>
         \/ /\ state = "READING_ST" /\ valid
            /\ ReadingAnswer(wait, valid) /\ Beat(wait)
<1>1. Memory(wait, valid) /\ (Idle(wait) \/ Reading(wait, valid))
  BY DEF Clock
<1>2. CASE Idle(wait)
  <2>1. state = "IDLE_ST" /\ ~valid
    BY <1>1, <1>2, ArrivingWord DEF Idle
  <2>2. s_waitrequest(wait, valid) = s_waitrequest(wait, FALSE)
    BY <2>1 DEF s_waitrequest
  <2>3. cache_rd_hit_s(FALSE) => s_read /\ InLine
    BY DEF cache_rd_hit_s
  <2>4. CASE ~s_waitrequest(wait, FALSE) /\ (IdleWrite \/ IdleHit(wait) \/ IdleMiss)
    <3>1. IdleHit(wait) => s_read /\ InLine
      BY <2>3 DEF IdleHit
    <3> QED
      BY <2>1, <2>2, <2>4, <3>1
  <2>5. CASE /\ s_waitrequest(wait, FALSE) \/ ~(s_write \/ s_read)
             /\ Withdraw(wait) /\ NoAnswer /\ UNCHANGED <<state, lineVars>>
    BY <2>1, <2>2, <2>5
  <2> QED
    BY <1>2, <2>4, <2>5 DEF Idle
<1>3. CASE Reading(wait, valid)
  BY <1>3 DEF Reading
<1> QED
  BY <1>1, <1>2, <1>3

(* A write that is accepted is done; nothing else changes what is stored.   *)
LEMMA StoredStep ==
  ASSUME IInv, NEW wait \in BOOLEAN, NEW valid \in BOOLEAN, Clock(wait, valid)
  PROVE  IF s_write /\ ~s_waitrequest(wait, valid)
           THEN Stored' = [Stored EXCEPT ![s_address] = Merge(@, s_writedata, s_byteenable)]
           ELSE Stored' = Stored
<1>1. /\ mem' = IF ~wait THEN Stored ELSE mem
      /\ m_write \in BOOLEAN /\ m_read \in BOOLEAN
      /\ s_write \in BOOLEAN /\ s_read \in BOOLEAN /\ ~(s_write /\ s_read)
  BY DEF Clock, Memory, Ledger, IInv, TypeOK, ClientShape
<1>2. ASSUME Withdraw(wait)
      PROVE  Stored' = Stored
  <2>1. m_write' = (m_write /\ wait) /\ UNCHANGED <<m_address, m_writedata, m_byteenable>>
    BY <1>2 DEF Withdraw, mRequest
  <2>2. CASE wait
    <3>1. mem' = mem /\ m_write' = m_write
      BY <1>1, <2>1, <2>2
    <3> QED
      BY <2>1, <3>1 DEF Stored, Merge
  <2>3. CASE ~wait
    <3>1. mem' = Stored /\ ~m_write'
      BY <1>1, <2>1, <2>3
    <3> QED
      BY <3>1 DEF Stored
  <2> QED
    BY <2>2, <2>3
<1>3. ASSUME ~m_write', m_write => ~wait
      PROVE  Stored' = Stored
  <2>1. mem' = Stored
    BY <1>1, <1>3 DEF Stored
  <2> QED
    BY <1>3, <2>1 DEF Stored
<1>4. ASSUME state = "IDLE_ST", ~s_waitrequest(wait, valid)
      PROVE  m_write => ~wait
  BY <1>1, <1>4 DEF s_waitrequest
<1>5. ASSUME state = "READING_ST"
      PROVE  ~m_write /\ (s_write => s_waitrequest(wait, valid))
  BY <1>5 DEF IInv, FillShape, s_waitrequest
<1>6. CASE state = "IDLE_ST" /\ (s_waitrequest(wait, valid) \/ ~(s_write \/ s_read)) /\ Withdraw(wait)
  BY <1>2, <1>6
<1>7. CASE state = "IDLE_ST" /\ ~s_waitrequest(wait, valid) /\ IdleWrite
  <2>1. mem' = Stored
    BY <1>1, <1>4, <1>7 DEF Stored
  <2>2. /\ s_write /\ m_write'
        /\ m_address' = s_address /\ m_writedata' = s_writedata /\ m_byteenable' = s_byteenable
    BY <1>7 DEF IdleWrite
  <2> QED
    BY <1>7, <2>1, <2>2 DEF Stored, Merge
<1>8. CASE state = "IDLE_ST" /\ ~s_waitrequest(wait, valid) /\ s_read /\ IdleHit(wait)
  <2>1. Withdraw(wait) \/ Fetch(cache_addr + Line, Half)
    BY <1>8 DEF IdleHit
  <2>2. Stored' = Stored
    BY <1>2, <1>3, <1>4, <1>8, <2>1 DEF Fetch
  <2> QED
    BY <1>1, <1>8, <2>2
<1>9. CASE state = "IDLE_ST" /\ ~s_waitrequest(wait, valid) /\ IdleMiss
  <2>1. s_read /\ ~m_write'
    BY <1>9 DEF IdleMiss, Miss, Fetch
  <2> QED
    BY <1>1, <1>3, <1>4, <1>9, <2>1
<1>10. CASE state = "READING_ST" /\ (Withdraw(wait) \/ Beat(wait))
  <2>1. Withdraw(wait) \/ ~m_write'
    BY <1>10 DEF Beat, Miss, Fetch
  <2> QED
    BY <1>2, <1>3, <1>5, <1>10, <2>1
<1> QED
  BY <1>6, <1>7, <1>8, <1>9, <1>10, EdgeCases

(* One edge keeps every register in its type.                               *)
LEMMA StepTypeOK ==
  ASSUME IInv, NEW wait \in BOOLEAN, NEW valid \in BOOLEAN, Clock(wait, valid)
  PROVE  TypeOK'
<1>1. /\ s_write \in BOOLEAN /\ s_read \in BOOLEAN /\ s_address \in Addr
      /\ s_writedata \in Word /\ s_byteenable \in SUBSET Lane
      /\ cache_data \in [0 .. Line - 1 -> Word]
      /\ cache_addr \in 0 .. LastAddr + 1 /\ cache_count \in 0 .. Line
      /\ rd_burstcount \in {0, 1}
      /\ m_write \in BOOLEAN /\ m_read \in BOOLEAN /\ m_address \in MemAddr
      /\ m_writedata \in Word /\ m_byteenable \in SUBSET Lane
      /\ m_burstcount \in 0 .. Line
      /\ left \in 0 .. Line /\ next \in Nat
      /\ state \in {"IDLE_ST", "READING_ST"}
  BY DEF IInv, TypeOK
<1>2. Zero \in Word
  BY ConstantsAssumption DEF Zero, Word
<1>3. Memory(wait, valid) /\ Promise!Client(~s_waitrequest(wait, valid))
  BY DEF Clock
<1>4. mem' \in [MemAddr -> Word]
  <2>1. mem \in [MemAddr -> Word] /\ Stored \in [MemAddr -> Word]
    BY StoredType DEF IInv, TypeOK
  <2> QED
    BY <1>3, <2>1 DEF Memory, Ledger
<1>5. left' \in 0 .. Line /\ next' \in Nat
  <2>1. m_address \in Nat
    BY <1>1, Sizes DEF MemAddr
  <2>2. \/ left' = m_burstcount /\ next' = m_address
        \/ left > 0 /\ left' = left - 1 /\ next' = next + 1
        \/ left' = left /\ next' = next
    BY <1>3 DEF Memory, Ledger
  <2> QED
    BY <1>1, <2>1, <2>2, Sizes
<1>6. InLine => offset \in 0 .. Line - 1
  BY <1>1, Sizes DEF InLine
<1>7. valid => m_readdata(valid) \in Word /\ cache_count \in 0 .. Line - 1
  BY <1>3, ArrivingWord
<1>8. cache_data' \in [0 .. Line - 1 -> Word]
  <2>1. CASE UNCHANGED cache_data
    BY <1>1, <2>1
  <2>2. CASE IdleWrite
    <3>1. InLine => Merge(cache_data[offset], s_writedata, s_byteenable) \in Word
      BY <1>1, <1>6, MergeType
    <3> QED
      BY <1>1, <1>6, <2>2, <3>1 DEF IdleWrite, cache_wr_hit_s
  <2>3. CASE cache_data' = [i \in 0 .. Line - 1 |->
                              IF i < Half THEN cache_data[i + Half] ELSE cache_data[i]]
    <3>1. \A i \in 0 .. Line - 1 : i < Half => i + Half \in 0 .. Line - 1
      BY Sizes
    <3> QED
      BY <1>1, <2>3, <3>1
  <2>4. CASE valid /\ cache_data' = [cache_data EXCEPT ![cache_count] = m_readdata(TRUE)]
    BY <1>1, <1>7, <2>4 DEF m_readdata
  <2> QED
    BY <2>1, <2>2, <2>3, <2>4, EdgeCases DEF IdleHit, IdleMiss, Beat, lineVars
<1>9. /\ cache_addr' \in 0 .. LastAddr + 1 /\ cache_count' \in 0 .. Line
      /\ rd_burstcount' \in {0, 1} /\ state' \in {"IDLE_ST", "READING_ST"}
  <2>1. CASE UNCHANGED <<state, lineVars>>
    BY <1>1, <2>1 DEF lineVars
  <2>2. CASE Miss
    BY <1>1, <2>2, Sizes DEF Miss, Fetch, Addr
  <2>3. CASE IdleWrite
    BY <1>1, <2>3 DEF IdleWrite
  <2>4. CASE /\ state' = "READING_ST" /\ offset = Half - 1
             /\ cache_addr' = cache_addr + Half /\ cache_count' = Half /\ rd_burstcount' = 0
    BY <1>1, <2>4, Sizes DEF offset, Addr
  <2>5. CASE valid /\ Beat(wait)
    <3>1. \/ Miss
          \/ /\ state' = "IDLE_ST" /\ cache_count' = Line /\ rd_burstcount' = 0
             /\ cache_addr' = cache_addr
          \/ /\ cache_count < Line - 1 /\ cache_count' = cache_count + 1
             /\ rd_burstcount' = 0 /\ state' = state /\ cache_addr' = cache_addr
      BY <2>5 DEF Beat
    <3> QED
      BY <1>1, <2>2, <3>1, Sizes
  <2> QED
    BY <2>1, <2>2, <2>3, <2>4, <2>5, EdgeCases DEF IdleHit, IdleMiss, Fetch
<1>10. /\ m_write' \in BOOLEAN /\ m_read' \in BOOLEAN /\ m_address' \in MemAddr
       /\ m_writedata' \in Word /\ m_byteenable' \in SUBSET Lane
       /\ m_burstcount' \in 0 .. Line
  <2>1. CASE Withdraw(wait)
    BY <1>1, <2>1 DEF Withdraw, mRequest
  <2>0. /\ Line \in 0 .. Line /\ Half \in 0 .. Line /\ 1 \in 0 .. Line
        /\ s_address \in MemAddr
    BY <1>1, Sizes
  <2>2. CASE Miss
    BY <1>1, <2>0, <2>2 DEF Miss, Fetch
  <2>3. CASE IdleWrite
    BY <1>1, <2>0, <2>3 DEF IdleWrite
  <2>4. CASE offset = Half - 1 /\ Fetch(cache_addr + Line, Half)
    <3>1. cache_addr + Line \in MemAddr
      BY <1>1, <2>4, Sizes DEF offset, Addr, MemAddr
    <3> QED
      BY <1>1, <2>0, <2>4, <3>1 DEF Fetch
  <2> QED
    BY <2>1, <2>2, <2>3, <2>4, EdgeCases DEF IdleHit, IdleMiss, Beat
<1>11. s_readdatavalid' \in BOOLEAN /\ s_readdata' \in Word
  <2>1. CASE NoAnswer
    BY <1>2, <2>1 DEF NoAnswer
  <2>2. CASE InLine /\ Respond(cache_data[offset])
    BY <1>1, <1>6, <2>2 DEF Respond
  <2>3. CASE valid /\ Respond(m_readdata(valid))
    BY <1>7, <2>3 DEF Respond
  <2>4. ReadingAnswer(wait, valid) =>
          \/ NoAnswer
          \/ InLine /\ Respond(cache_data[offset])
          \/ valid /\ Respond(m_readdata(valid))
    <3>1. ~(InLine /\ offset = cache_count)
      BY <1>1 DEF InLine
    <3> QED
      BY <3>1 DEF ReadingAnswer, cache_rd_hit_s
  <2> QED
    BY <2>1, <2>2, <2>3, <2>4, EdgeCases DEF IdleWrite, IdleHit, IdleMiss
<1>12. /\ s_write' \in BOOLEAN /\ s_read' \in BOOLEAN /\ s_address' \in Addr
       /\ s_writedata' \in Word /\ s_byteenable' \in SUBSET Lane
       /\ asked' \in Addr \union {NoAddr} /\ writesLeft' \in 0 .. MaxWrites
  <2>1. (~s_waitrequest(wait, valid)) \in BOOLEAN
    OBVIOUS
  <2> QED
    BY <1>3, <1>11, <2>1, ClientType DEF IInv
<1> QED
  BY <1>4, <1>5, <1>8, <1>9, <1>10, <1>11, <1>12 DEF TypeOK

(* One edge keeps the line what the client is to see.                       *)
LEMMA StepLineCoherent ==
  ASSUME IInv, NEW wait \in BOOLEAN, NEW valid \in BOOLEAN, Clock(wait, valid)
  PROVE  LineCoherent'
<1>1. /\ s_write \in BOOLEAN /\ s_read \in BOOLEAN /\ s_address \in Addr
      /\ cache_data \in [0 .. Line - 1 -> Word]
      /\ cache_addr \in 0 .. LastAddr + 1 /\ cache_count \in 0 .. Line
      /\ ~(s_write /\ s_read)
      /\ Stored \in [MemAddr -> Word]
      /\ Addr \subseteq Int /\ Addr \subseteq MemAddr
  BY Sizes, StoredType DEF IInv, TypeOK, ClientShape
<1>2. \A i \in 0 .. Line - 1 : i < cache_count => cache_data[i] = Stored[cache_addr + i]
  BY DEF IInv, LineCoherent
<1>3. ~(s_write /\ ~s_waitrequest(wait, valid)) => Stored' = Stored
  BY StoredStep
<1>4. state = "READING_ST" => ~(s_write /\ ~s_waitrequest(wait, valid))
  BY DEF s_waitrequest
<1>5. CASE UNCHANGED lineVars /\ Stored' = Stored
  BY <1>2, <1>5 DEF LineCoherent, lineVars
<1>6. CASE ~s_waitrequest(wait, valid) /\ IdleWrite
  <2>1. /\ s_write
        /\ Stored' = [Stored EXCEPT ![s_address] = Merge(@, s_writedata, s_byteenable)]
        /\ UNCHANGED <<cache_addr, cache_count>>
        /\ cache_data' = IF InLine
                           THEN [cache_data EXCEPT ![offset] = Merge(@, s_writedata, s_byteenable)]
                           ELSE cache_data
    BY <1>6, StoredStep DEF IdleWrite, cache_wr_hit_s
  <2> SUFFICES ASSUME NEW i \in 0 .. Line - 1, i < cache_count
               PROVE  cache_data'[i] = Stored'[cache_addr + i]
    BY <2>1 DEF LineCoherent
  <2>2. cache_data[i] = Stored[cache_addr + i] /\ s_address \in Int /\ s_address \in MemAddr
    BY <1>1, <1>2
  <2>3. CASE s_address = cache_addr + i
    <3>1. InLine /\ offset = i
      BY <1>1, <2>3, Sizes DEF InLine, offset
    <3>2. Stored'[cache_addr + i] = Merge(Stored[cache_addr + i], s_writedata, s_byteenable)
      BY <1>1, <2>1, <2>2, <2>3
    <3>3. cache_data'[i] = Merge(cache_data[i], s_writedata, s_byteenable)
      BY <1>1, <2>1, <3>1
    <3> QED
      BY <2>2, <3>2, <3>3
  <2>4. CASE s_address # cache_addr + i
    <3>1. offset # i
      BY <1>1, <2>2, <2>4 DEF offset
    <3>2. cache_data'[i] = cache_data[i]
      BY <1>1, <2>1, <3>1
    <3>3. Stored'[cache_addr + i] = Stored[cache_addr + i]
      BY <1>1, <2>1, <2>4
    <3> QED
      BY <2>2, <3>2, <3>3
  <2> QED
    BY <2>3, <2>4
<1>7. CASE cache_count' = 0
  BY <1>7 DEF LineCoherent
<1>8. CASE /\ state = "IDLE_ST" /\ InLine /\ Stored' = Stored
           /\ cache_data' = [i \in 0 .. Line - 1 |->
                               IF i < Half THEN cache_data[i + Half] ELSE cache_data[i]]
           /\ cache_addr' = cache_addr + Half /\ cache_count' = Half
  <2>1. cache_count = Line
    BY <1>1, <1>8 DEF InLine, IInv, FillShape
  <2> SUFFICES ASSUME NEW i \in 0 .. Line - 1, i < Half
               PROVE  cache_data'[i] = Stored[cache_addr + Half + i]
    BY <1>8 DEF LineCoherent
  <2>2. cache_data'[i] = cache_data[i + Half]
    BY <1>8
  <2>3. i + Half \in 0 .. Line - 1 /\ i + Half < cache_count
        /\ cache_addr + (i + Half) = cache_addr + Half + i
    BY <1>1, <2>1, Sizes
  <2> QED
    BY <1>2, <2>2, <2>3
<1>9. CASE /\ valid /\ Stored' = Stored /\ UNCHANGED cache_addr
           /\ cache_data' = [cache_data EXCEPT ![cache_count] = m_readdata(TRUE)]
           /\ cache_count' = cache_count + 1
  <2>1. m_readdata(TRUE) = Stored[cache_addr + cache_count] /\ cache_count \in 0 .. Line - 1
    BY <1>9, ArrivingWord DEF Clock, m_readdata
  <2> SUFFICES ASSUME NEW i \in 0 .. Line - 1, i < cache_count + 1
               PROVE  cache_data'[i] = Stored[cache_addr + i]
    BY <1>9 DEF LineCoherent
  <2>2. CASE i = cache_count
    BY <1>1, <1>9, <2>1, <2>2
  <2>3. CASE i # cache_count
    BY <1>1, <1>2, <1>9, <2>1, <2>3
  <2> QED
    BY <2>2, <2>3
<1>10. ASSUME state = "IDLE_ST", s_read, IdleHit(wait)
       PROVE  UNCHANGED lineVars
              \/ /\ cache_data' = [i \in 0 .. Line - 1 |->
                                    IF i < Half THEN cache_data[i + Half] ELSE cache_data[i]]
                 /\ cache_addr' = cache_addr + Half /\ cache_count' = Half
  BY <1>10 DEF IdleHit
<1>11. ASSUME valid, Beat(wait)
       PROVE  \/ cache_count' = 0
              \/ /\ UNCHANGED cache_addr
                 /\ cache_data' = [cache_data EXCEPT ![cache_count] = m_readdata(TRUE)]
                 /\ cache_count' = cache_count + 1
  <2>1. \/ Miss
        \/ cache_count = Line - 1 /\ cache_count' = Line /\ UNCHANGED cache_addr
        \/ cache_count' = cache_count + 1 /\ UNCHANGED cache_addr
    BY <1>11 DEF Beat
  <2>2. cache_data' = [cache_data EXCEPT ![cache_count] = m_readdata(TRUE)]
    BY <1>11 DEF Beat
  <2>3. cache_count = Line - 1 => Line = cache_count + 1
    BY <1>1, Sizes
  <2> QED
    BY <2>1, <2>2, <2>3 DEF Miss
<1>12. IdleMiss => cache_count' = 0 /\ s_read
  BY DEF IdleMiss, Miss
<1> QED
  BY <1>1, <1>3, <1>4, <1>5, <1>6, <1>7, <1>8, <1>9, <1>10, <1>11, <1>12, EdgeCases

(* One edge keeps what is on its way what the line lacks.                   *)
LEMMA StepFillShape ==
  ASSUME IInv, NEW wait \in BOOLEAN, NEW valid \in BOOLEAN, Clock(wait, valid)
  PROVE  FillShape'
<1>1. /\ s_write \in BOOLEAN /\ s_read \in BOOLEAN /\ s_address \in Addr
      /\ cache_addr \in 0 .. LastAddr + 1 /\ cache_count \in 0 .. Line
      /\ m_write \in BOOLEAN /\ m_read \in BOOLEAN
      /\ left \in 0 .. Line /\ next \in Nat /\ rd_burstcount \in {0, 1}
      /\ state \in {"IDLE_ST", "READING_ST"}
      /\ Addr \subseteq Int
  BY Sizes DEF IInv, TypeOK
<1>2. FillShape /\ ClientShape
  BY DEF IInv
<1>3. \/ m_read /\ ~wait /\ left' = m_burstcount /\ next' = m_address
      \/ ~(m_read /\ ~wait) /\ valid /\ left' = left - 1 /\ next' = next + 1
      \/ ~(m_read /\ ~wait) /\ ~valid /\ left' = left /\ next' = next
  BY DEF Clock, Memory, Ledger
<1>4. valid => /\ state = "READING_ST" /\ ~m_read /\ ~m_write
               /\ cache_count \in 0 .. Line - 1
  BY ArrivingWord DEF Clock
<1>5. ASSUME Withdraw(wait)
      PROVE  /\ m_write' = (m_write /\ wait) /\ m_read' = (m_read /\ wait)
             /\ m_address' = m_address /\ m_burstcount' = m_burstcount
  BY <1>5 DEF Withdraw, mRequest
<1>6. m_write => m_address \in Addr
  BY <1>2 DEF FillShape
<1>7. CASE state = "IDLE_ST" /\ ~valid /\ Withdraw(wait) /\ UNCHANGED <<state, lineVars>>
  <2>1. ~m_read /\ left = 0 /\ rd_burstcount = 0 /\ cache_count \in {0, Line}
    BY <1>2, <1>7 DEF FillShape
  <2> QED
    BY <1>3, <1>5, <1>6, <1>7, <2>1 DEF FillShape, lineVars
<1>8. CASE state = "IDLE_ST" /\ ~valid /\ IdleWrite
  <2>1. ~m_read /\ left = 0 /\ rd_burstcount = 0 /\ cache_count \in {0, Line}
    BY <1>2, <1>8 DEF FillShape
  <2>2. /\ state' = "IDLE_ST" /\ ~m_read' /\ m_address' \in Addr
        /\ UNCHANGED <<cache_count, rd_burstcount>>
    BY <1>1, <1>8 DEF IdleWrite
  <2> QED
    BY <1>3, <1>8, <2>1, <2>2 DEF FillShape
<1>9. CASE state = "IDLE_ST" /\ ~valid /\ Miss
  <2>1. ~m_read /\ left = 0
    BY <1>2, <1>9 DEF FillShape
  <2>2. /\ state' = "READING_ST" /\ m_read' /\ ~m_write' /\ cache_count' = 0
        /\ m_address' = s_address /\ cache_addr' = s_address /\ m_burstcount' = Line
    BY <1>9 DEF Miss, Fetch
  <2> QED
    BY <1>1, <1>3, <1>9, <2>1, <2>2, Sizes DEF FillShape
<1>10. CASE /\ state = "IDLE_ST" /\ ~valid /\ Fetch(cache_addr + Line, Half)
            /\ cache_addr' = cache_addr + Half /\ cache_count' = Half
  <2>1. ~m_read /\ left = 0
    BY <1>2, <1>10 DEF FillShape
  <2>2. /\ state' = "READING_ST" /\ m_read' /\ ~m_write'
        /\ m_address' = cache_addr + Line /\ m_burstcount' = Half
    BY <1>10 DEF Fetch
  <2> QED
    BY <1>1, <1>3, <1>10, <2>1, <2>2, Sizes DEF FillShape
<1>11. CASE state = "READING_ST" /\ ~valid /\ Withdraw(wait) /\ UNCHANGED <<state, lineVars>>
  <2>1. ~m_write /\ cache_count < Line
        /\ (m_read => /\ left = 0 /\ m_address = cache_addr + cache_count
                      /\ cache_count + m_burstcount = Line)
        /\ (~m_read => next = cache_addr + cache_count /\ cache_count + left = Line)
    BY <1>2, <1>11 DEF FillShape
  <2>2. UNCHANGED <<state, cache_addr, cache_count>>
    BY <1>11 DEF lineVars
  <2> QED
    BY <1>3, <1>5, <1>11, <2>1, <2>2 DEF FillShape
<1>12. CASE state = "READING_ST" /\ valid /\ Beat(wait)
  <2>1. /\ ~m_write /\ ~m_read /\ cache_count \in 0 .. Line - 1
        /\ next = cache_addr + cache_count /\ cache_count + left = Line
    BY <1>2, <1>4, <1>12 DEF FillShape
  <2>2. left' = left - 1 /\ next' = next + 1
    BY <1>3, <1>12, <2>1
  <2>3. CASE cache_count = Line - 1 /\ Miss
    <3>1. /\ state' = "READING_ST" /\ m_read' /\ ~m_write' /\ cache_count' = 0
          /\ m_address' = s_address /\ cache_addr' = s_address /\ m_burstcount' = Line
      BY <2>3 DEF Miss, Fetch
    <3>2. left' = 0
      BY <1>1, <2>1, <2>2, <2>3, Sizes
    <3> QED
      BY <1>1, <3>1, <3>2, Sizes DEF FillShape
  <2>4. CASE /\ cache_count = Line - 1 /\ state' = "IDLE_ST" /\ cache_count' = Line
             /\ rd_burstcount' = 0 /\ Withdraw(wait)
    <3>1. ~m_write' /\ ~m_read'
      BY <1>5, <2>1, <2>4
    <3>2. left' = 0
      BY <1>1, <2>1, <2>2, <2>4, Sizes
    <3> QED
      BY <2>4, <3>1, <3>2 DEF FillShape
  <2>5. CASE /\ cache_count < Line - 1 /\ cache_count' = cache_count + 1 /\ Withdraw(wait)
             /\ UNCHANGED <<state, cache_addr>>
    <3>1. ~m_write' /\ ~m_read'
      BY <1>5, <2>1, <2>5
    <3>2. /\ cache_count' < Line /\ next' = cache_addr' + cache_count'
          /\ cache_count' + left' = Line
      BY <1>1, <2>1, <2>2, <2>5, Sizes
    <3> QED
      BY <1>12, <2>5, <3>1, <3>2 DEF FillShape
  <2> QED
    BY <1>12, <2>3, <2>4, <2>5 DEF Beat
<1> QED
  BY <1>7, <1>8, <1>9, <1>10, <1>11, <1>12, EdgeCases DEF IdleHit, IdleMiss

(* One edge keeps the client waiting for the first word of a fill or for    *)
(* nothing.                                                                *)
LEMMA StepClientShape ==
  ASSUME IInv, NEW wait \in BOOLEAN, NEW valid \in BOOLEAN, Clock(wait, valid)
  PROVE  ClientShape'
<1>1. /\ s_write \in BOOLEAN /\ s_read \in BOOLEAN /\ s_address \in Addr
      /\ cache_count \in 0 .. Line /\ rd_burstcount \in {0, 1}
      /\ asked \in Addr \union {NoAddr} /\ NoAddr \notin Addr
      /\ state \in {"IDLE_ST", "READING_ST"}
  BY Sizes DEF IInv, TypeOK
<1>2. /\ asked = IF rd_burstcount = 0 THEN NoAddr ELSE cache_addr
      /\ rd_burstcount # 0 => state = "READING_ST" /\ cache_count = 0 /\ cache_addr \in Addr
      /\ asked # NoAddr => ~s_write /\ ~s_read
      /\ ~(s_write /\ s_read)
      /\ state = "IDLE_ST" => rd_burstcount = 0
  BY DEF IInv, ClientShape, FillShape
<1>3. asked' = IF s_readdatavalid' THEN NoAddr
               ELSE IF s_read /\ ~s_waitrequest(wait, valid) THEN s_address ELSE asked
  BY DEF Clock, Promise!Client
<1>4. /\ asked' # NoAddr => ~s_write' /\ ~s_read'
      /\ ~(s_write' /\ s_read')
  <2>1. \/ /\ s_write \/ s_read
           /\ s_waitrequest(wait, valid)
           /\ s_write' = s_write /\ s_read' = s_read
        \/ asked' = NoAddr /\ ~(s_write' /\ s_read')
        \/ ~s_write' /\ ~s_read'
    BY DEF Clock, Promise!Client, Promise!NewRequest, Promise!request
  <2>2. CASE /\ s_write \/ s_read
             /\ s_waitrequest(wait, valid)
             /\ s_write' = s_write /\ s_read' = s_read
    BY <1>2, <1>3, <2>2
  <2> QED
    BY <2>1, <2>2
<1>5. ASSUME cache_rd_hit_s(valid), state = "READING_ST"
      PROVE  s_read /\ ~s_waitrequest(wait, valid)
  <2>1. s_read /\ ~s_write
    BY <1>2, <1>5 DEF cache_rd_hit_s
  <2> QED
    BY <1>5, <2>1 DEF s_waitrequest
<1>6. ASSUME ReadingAnswer(wait, valid), cache_rd_hit_s(valid), ~s_waitrequest(wait, valid)
      PROVE  s_readdatavalid'
  BY <1>6 DEF ReadingAnswer, Respond
<1>7. /\ asked' = IF rd_burstcount' = 0 THEN NoAddr ELSE cache_addr'
      /\ rd_burstcount' # 0 => state' = "READING_ST" /\ cache_count' = 0 /\ cache_addr' \in Addr
  <2>1. ASSUME s_read, ~s_waitrequest(wait, valid), Miss, ~s_readdatavalid'
        PROVE  /\ asked' = IF rd_burstcount' = 0 THEN NoAddr ELSE cache_addr'
               /\ rd_burstcount' # 0 =>
                    state' = "READING_ST" /\ cache_count' = 0 /\ cache_addr' \in Addr
    BY <1>1, <1>3, <2>1 DEF Miss, Fetch
  <2>2. CASE /\ state = "IDLE_ST" /\ NoAnswer
             /\ s_waitrequest(wait, valid) \/ ~s_read
             /\ UNCHANGED rd_burstcount
    BY <1>2, <1>3, <2>2 DEF NoAnswer
  <2>3. CASE state = "IDLE_ST" /\ IdleHit(wait)
    <3>1. rd_burstcount' = 0 /\ s_readdatavalid'
      BY <1>2, <2>3 DEF IdleHit, Respond, lineVars
    <3> QED
      BY <1>3, <3>1
  <2>4. CASE state = "IDLE_ST" /\ ~s_waitrequest(wait, valid) /\ IdleMiss
    BY <2>1, <2>4 DEF IdleMiss, NoAnswer
  <2>5. CASE state = "READING_ST" /\ ~valid /\ ReadingAnswer(wait, valid)
             /\ UNCHANGED <<state, lineVars>>
    <3>1. CASE cache_rd_hit_s(valid)
      <4>1. s_readdatavalid' /\ s_read
        BY <1>5, <1>6, <2>5, <3>1
      <4> QED
        BY <1>1, <1>2, <1>3, <2>5, <4>1 DEF lineVars
    <3>2. CASE ~cache_rd_hit_s(valid)
      <4>1. s_waitrequest(wait, valid) /\ ~s_readdatavalid'
        BY <2>5, <3>2 DEF ReadingAnswer, s_waitrequest, NoAnswer, cache_filled_s
      <4> QED
        BY <1>2, <1>3, <2>5, <4>1 DEF lineVars
    <3> QED
      BY <3>1, <3>2
  <2>6. CASE state = "READING_ST" /\ valid /\ ReadingAnswer(wait, valid) /\ Beat(wait)
    <3>0. valid = TRUE
      BY <2>6
    <3>1. CASE rd_burstcount # 0
      <4>1. ~s_read /\ s_readdatavalid'
        BY <1>1, <1>2, <2>6, <3>1 DEF ReadingAnswer, Respond, cache_rd_hit_s
      <4>2. rd_burstcount' = 0
        BY <2>6, <4>1 DEF Beat
      <4> QED
        BY <1>3, <4>1, <4>2
    <3>2. CASE rd_burstcount = 0 /\ cache_rd_hit_s(valid)
      <4>1. s_readdatavalid'
        BY <1>5, <1>6, <2>6, <3>2
      <4>2. rd_burstcount' = 0
        BY <2>6, <3>0, <3>2 DEF Beat, Miss
      <4> QED
        BY <1>3, <4>1, <4>2
    <3>3. CASE rd_burstcount = 0 /\ ~cache_rd_hit_s(valid)
      <4>1. ~s_readdatavalid'
        BY <2>6, <3>3 DEF ReadingAnswer, NoAnswer
      <4>2. CASE s_read /\ ~s_waitrequest(wait, valid)
        <5>1. cache_count = Line - 1
          BY <2>6, <3>3, <4>2 DEF s_waitrequest, cache_filled_s
        <5>2. Miss
          <6>1. ~(cache_count < Line - 1)
            BY <5>1, Sizes
          <6>2. ~cache_rd_hit_s(TRUE) /\ s_read /\ ~s_waitrequest(wait, TRUE)
            BY <3>0, <3>3, <4>2
          <6> QED
            BY <2>6, <6>1, <6>2 DEF Beat
        <5> QED
          BY <2>1, <4>1, <4>2, <5>2
      <4>3. CASE ~(s_read /\ ~s_waitrequest(wait, valid))
        <5>1. rd_burstcount' = 0
          BY <2>6, <3>0, <4>3 DEF Beat
        <5>2. asked' = NoAddr
          BY <1>2, <1>3, <3>3, <4>1, <4>3
        <5> QED
          BY <5>1, <5>2
      <4> QED
        BY <4>2, <4>3
    <3> QED
      BY <3>1, <3>2, <3>3
  <2> QED
    BY <1>2, <2>2, <2>3, <2>4, <2>5, <2>6, EdgeCases DEF IdleWrite, lineVars
<1> QED
  BY <1>4, <1>7 DEF ClientShape

(* IInv is inductive.                                                      *)
THEOREM Inductive ==
  Spec => []IInv
<1>1. ASSUME IInv, [Next]_vars
      PROVE  IInv'
  <2>1. CASE Next
    <3>1. PICK wait \in BOOLEAN, valid \in BOOLEAN : Clock(wait, valid)
      BY <2>1 DEF Next
    <3> QED
      BY <1>1, <3>1, StepTypeOK, StepLineCoherent, StepFillShape, StepClientShape DEF IInv
  <2>2. CASE UNCHANGED vars
    <3> USE DEF vars, clientVars, mRequest, lineVars, memVars
    <3>1. TypeOK'
      BY <1>1, <2>2 DEF IInv, TypeOK
    <3>2. LineCoherent' /\ FillShape' /\ ClientShape'
      BY <1>1, <2>2 DEF IInv, LineCoherent, FillShape, ClientShape, Stored, Merge
    <3> QED
      BY <3>1, <3>2 DEF IInv
  <2> QED
    BY <1>1, <2>1, <2>2
<1> QED
  BY <1>1, InitIInv, PTL DEF Spec

(* Every register, input and word keeps its type.                           *)
THEOREM TypeCorrect ==
  Spec => []TypeOK
<1>1. IInv => TypeOK
  BY DEF IInv
<1> QED
  BY <1>1, Inductive, PTL

(* A fill gets one step nearer to its end with each clock that the memory   *)
(* does not keep it waiting.                                               *)
LEMMA FillCounts ==
  ASSUME IInv, NEW wait \in BOOLEAN, NEW valid \in BOOLEAN, Clock(wait, valid),
         state = "READING_ST", Withdraw(wait)
  PROVE  /\ ToFill \in 1 .. Line + 1
         /\ ToFill' = IF Kept(wait, valid) THEN ToFill ELSE ToFill - 1
         /\ valid => ToFill = Line - cache_count /\ ~Kept(wait, valid)
<1>1. /\ cache_count \in 0 .. Line - 1 /\ ~m_write
      /\ m_read \in BOOLEAN /\ left \in 0 .. Line /\ m_burstcount \in 0 .. Line
      /\ m_read => left = 0 /\ cache_count + m_burstcount = Line
      /\ ~m_read => cache_count + left = Line
      /\ Line \in Nat
  BY Sizes DEF IInv, TypeOK, FillShape
<1>2. /\ m_read' = (m_read /\ wait) /\ m_burstcount' = m_burstcount
      /\ \/ m_read /\ ~wait /\ left' = m_burstcount
         \/ ~(m_read /\ ~wait) /\ valid /\ left' = left - 1
         \/ ~(m_read /\ ~wait) /\ ~valid /\ left' = left
      /\ valid => left > 0
  BY DEF Clock, Memory, Ledger, Withdraw, mRequest
<1>3. ToFill = (IF m_read THEN 1 + m_burstcount ELSE left)
      /\ ToFill' = (IF m_read' THEN 1 + m_burstcount' ELSE left')
  BY DEF ToFill
<1>4. Kept(wait, valid) = IF m_read THEN wait ELSE ~valid
  BY <1>1 DEF Kept
<1>5. valid => ~m_read
  BY <1>1, <1>2
<1>6. CASE m_read
  <2>1. ToFill = 1 + m_burstcount /\ ToFill' = (IF wait THEN 1 + m_burstcount ELSE m_burstcount)
    BY <1>2, <1>3, <1>6
  <2> QED
    BY <1>1, <1>4, <1>5, <1>6, <2>1
<1>7. CASE ~m_read
  <2>1. ToFill = left /\ ToFill' = (IF valid THEN left - 1 ELSE left)
    BY <1>2, <1>3, <1>7
  <2>2. valid => left > 0
    BY <1>2
  <2>3. left \in 1 .. Line /\ cache_count = Line - left
    BY <1>1, <1>7
  <2>4. PICK a \in Int : a = ToFill
    BY <1>1, <2>1
  <2>5. a = left /\ ToFill' = (IF valid THEN a - 1 ELSE a)
    BY <2>1, <2>4
  <2>6. left = Line - cache_count /\ a \in 1 .. Line + 1
    BY <1>1, <2>3, <2>5
  <2> QED
    BY <1>4, <1>7, <2>4, <2>5, <2>6
<1> QED
  BY <1>6, <1>7

(* What one edge does for a client that goes on waiting.                    *)
Nearer(wait, valid) ==
  /\ ToServe \in 1 .. Line + 3 /\ ToServe' \in 1 .. ToServe
  /\ Kept(wait, valid) \/ ToServe' < ToServe

(* A client whose request is not accepted keeps it.                         *)
LEMMA RequestStays ==
  ASSUME IInv, NEW wait \in BOOLEAN, NEW valid \in BOOLEAN, Clock(wait, valid),
         s_write \/ s_read, s_waitrequest(wait, valid)
  PROVE  /\ asked = NoAddr /\ asked' = NoAddr
         /\ s_write' = s_write /\ s_read' = s_read /\ s_address' = s_address
<1>1. asked = NoAddr
  BY DEF IInv, ClientShape
<1> QED
  BY <1>1 DEF Clock, Promise!Client, Promise!request

(* A read whose fill was started for it waits for the first word.           *)
LEMMA AskedNearer ==
  ASSUME IInv, NEW wait \in BOOLEAN, NEW valid \in BOOLEAN, Clock(wait, valid),
         asked # NoAddr, ~s_readdatavalid'
  PROVE  Nearer(wait, valid)
<1>1. /\ state = "READING_ST" /\ rd_burstcount # 0 /\ ~s_read /\ ~s_write
      /\ ~m_write /\ m_read \in BOOLEAN
  BY DEF IInv, TypeOK, ClientShape, FillShape
<1>2. ReadingAnswer(wait, valid) /\ (~valid => Withdraw(wait))
  BY <1>1, EdgeCases
<1>3. ~valid
  BY <1>1, <1>2 DEF ReadingAnswer, Respond, cache_rd_hit_s
<1>4. m_read' = (m_read /\ wait)
  BY <1>2, <1>3 DEF Withdraw
<1>5. asked' # NoAddr
  BY <1>1 DEF Clock, Promise!Client
<1>6. /\ ToServe = (IF m_read THEN 2 ELSE 1)
      /\ ToServe' = (IF m_read' THEN 2 ELSE 1)
  BY <1>5 DEF ToServe
<1>7. Kept(wait, valid) = IF m_read THEN wait ELSE TRUE
  BY <1>1, <1>3 DEF Kept
<1> QED
  BY <1>1, <1>4, <1>6, <1>7, Sizes DEF Nearer

(* A write waits for the memory to accept the last one, or for the fill.    *)
LEMMA WriteNearer ==
  ASSUME IInv, NEW wait \in BOOLEAN, NEW valid \in BOOLEAN, Clock(wait, valid),
         s_write, s_waitrequest(wait, valid)
  PROVE  Nearer(wait, valid)
<1>1. /\ asked = NoAddr /\ asked' = NoAddr /\ s_write' /\ ~s_read
      /\ state \in {"IDLE_ST", "READING_ST"} /\ Line \in Nat
  BY RequestStays, Sizes DEF IInv, TypeOK, ClientShape
<1>2. CASE state = "IDLE_ST"
  <2>1. state' = "IDLE_ST"
    BY <1>1, <1>2, EdgeCases
  <2>2. ToServe = 1 /\ ToServe' = 1
    BY <1>1, <1>2, <2>1 DEF ToServe
  <2>3. Kept(wait, valid)
    BY <1>2 DEF Kept, s_waitrequest
  <2> QED
    BY <1>1, <2>2, <2>3 DEF Nearer
<1>3. CASE state = "READING_ST"
  <2>1. \/ ~valid /\ Withdraw(wait) /\ state' = state
        \/ valid /\ cache_count = Line - 1 /\ state' = "IDLE_ST" /\ Withdraw(wait)
        \/ valid /\ cache_count < Line - 1 /\ Withdraw(wait) /\ state' = state
    BY <1>1, <1>3, EdgeCases DEF Beat
  <2>2. ToServe = ToFill + 1
    BY <1>1, <1>3 DEF ToServe
  <2>3. ToServe' = IF state' = "IDLE_ST" THEN 1 ELSE ToFill' + 1
    BY <1>1 DEF ToServe
  <2>4. /\ ToFill \in 1 .. Line + 1
        /\ ToFill' = IF Kept(wait, valid) THEN ToFill ELSE ToFill - 1
        /\ valid => ToFill = Line - cache_count /\ ~Kept(wait, valid)
    BY <1>3, <2>1, FillCounts
  <2>5. cache_count \in 0 .. Line - 1
    BY <1>1, <1>3 DEF IInv, TypeOK, FillShape
  <2>6. PICK a \in Int, b \in Int, c \in Int, d \in Int :
          a = ToFill /\ b = ToFill' /\ c = ToServe /\ d = ToServe'
    BY <2>2, <2>3, <2>4
  <2>7. /\ c = a + 1 /\ d = (IF state' = "IDLE_ST" THEN 1 ELSE b + 1)
        /\ a \in 1 .. Line + 1 /\ b = IF Kept(wait, valid) THEN a ELSE a - 1
        /\ valid => a = Line - cache_count /\ ~Kept(wait, valid)
    BY <2>2, <2>3, <2>4, <2>6
  <2>8. state' = "IDLE_ST" => valid
    BY <1>3, <2>1
  <2>9. state' # "IDLE_ST" /\ valid => cache_count < Line - 1
    BY <1>3, <2>1
  <2>10. c \in 1 .. Line + 3 /\ d \in 1 .. c /\ (Kept(wait, valid) \/ d < c)
    BY <1>1, <2>5, <2>7, <2>8, <2>9
  <2> QED
    BY <2>6, <2>10 DEF Nearer
<1> QED
  BY <1>1, <1>2, <1>3

(* A read of a word that is not there yet waits for it in the fill, or for   *)
(* the end of the fill and its own.                                         *)
LEMMA ReadNearer ==
  ASSUME IInv, NEW wait \in BOOLEAN, NEW valid \in BOOLEAN, Clock(wait, valid),
         s_read, ~s_readdatavalid'
  PROVE  Nearer(wait, valid)
<1>1. /\ asked = NoAddr /\ ~s_write /\ rd_burstcount = 0
      /\ state \in {"IDLE_ST", "READING_ST"} /\ Line \in Nat
      /\ s_address \in Int /\ s_address # NoAddr /\ cache_addr \in Int
      /\ cache_count \in 0 .. Line /\ m_read \in BOOLEAN
  BY Sizes DEF IInv, TypeOK, ClientShape
<1>2. offset \in Int
  BY <1>1 DEF offset
<1>3. InLine <=> offset \in 0 .. cache_count - 1
  BY DEF InLine
<1>4. CASE state = "IDLE_ST"
  <2>1. CASE s_waitrequest(wait, valid)
    <3>1. UNCHANGED <<state, lineVars>>
      BY <1>1, <1>4, <2>1, EdgeCases
    <3>2. InLine' <=> InLine
      BY <1>1, <2>1, <3>1, RequestStays DEF InLine, offset, lineVars
    <3>3. /\ asked' = NoAddr /\ ~s_write' /\ state' = "IDLE_ST"
      BY <1>1, <1>4, <2>1, <3>1, RequestStays
    <3>4. ToServe = (IF InLine THEN 1 ELSE 3)
      BY <1>1, <1>4 DEF ToServe
    <3>5. ToServe' = (IF InLine' THEN 1 ELSE 3)
      BY <3>3 DEF ToServe
    <3>6. ToServe' = ToServe /\ ToServe \in {1, 3}
      BY <3>2, <3>4, <3>5
    <3>7. Kept(wait, valid)
      BY <1>4, <2>1 DEF Kept, s_waitrequest
    <3> QED
      BY <1>1, <3>6, <3>7 DEF Nearer
  <2>2. CASE ~s_waitrequest(wait, valid)
    <3>1. IdleMiss
      BY <1>1, <1>4, <2>2, EdgeCases DEF IdleWrite, IdleHit, Respond
    <3>2. ~InLine /\ m_read'
      BY <3>1 DEF IdleMiss, Miss, Fetch, cache_rd_hit_s
    <3>3. asked' # NoAddr
      BY <1>1, <2>2 DEF Clock, Promise!Client
    <3>4. ToServe = 3 /\ ToServe' = 2
      BY <1>1, <1>4, <3>2, <3>3 DEF ToServe
    <3> QED
      BY <1>1, <3>4 DEF Nearer
  <2> QED
    BY <2>1, <2>2
<1>5. CASE state = "READING_ST"
  <2>1. cache_count \in 0 .. Line - 1 /\ ~m_write
    BY <1>1, <1>5 DEF IInv, FillShape
  <2>2. ReadingAnswer(wait, valid)
    BY <1>1, <1>5, EdgeCases
  <2>3. ~cache_rd_hit_s(valid)
    <3>1. ASSUME cache_rd_hit_s(valid) PROVE ~s_waitrequest(wait, valid)
      BY <1>1, <1>5, <3>1 DEF s_waitrequest
    <3> QED
      BY <2>2, <3>1 DEF ReadingAnswer, Respond
  <2>4. ~InLine /\ (valid => offset # cache_count)
    BY <1>1, <2>1, <2>3 DEF cache_rd_hit_s
  <2>5. s_waitrequest(wait, valid) <=> ~(valid /\ cache_count = Line - 1)
    BY <1>1, <1>5, <2>3 DEF s_waitrequest, cache_filled_s
  <2>6. CASE valid /\ cache_count = Line - 1
    <3>1. Beat(wait) /\ valid = TRUE
      BY <1>1, <1>5, <2>6, EdgeCases
    <3>2. Miss
      <4>1. s_read /\ ~s_waitrequest(wait, TRUE) /\ ~cache_rd_hit_s(TRUE)
        BY <2>3, <2>5, <2>6, <3>1
      <4>2. ~(cache_count < Line - 1)
        BY <1>1, <2>6
      <4> QED
        BY <3>1, <4>1, <4>2 DEF Beat
    <3>3. asked' # NoAddr /\ m_read'
      BY <1>1, <2>5, <2>6, <3>2 DEF Clock, Promise!Client, Miss, Fetch
    <3>4. ToFill = 1
      <4>1. ~m_read /\ cache_count + left = Line /\ left \in 0 .. Line
        BY <1>5, <2>6, ArrivingWord DEF Clock, IInv, TypeOK, FillShape
      <4> QED
        BY <1>1, <2>6, <4>1 DEF ToFill
    <3>5. offset \notin 0 .. Line - 1
      BY <1>1, <1>2, <1>3, <2>1, <2>4, <2>6
    <3>6. ToServe = ToFill + 2 /\ ToServe' = 2
      BY <1>1, <1>5, <2>4, <3>3, <3>5 DEF ToServe
    <3> QED
      BY <1>1, <3>4, <3>6 DEF Nearer
  <2>7. CASE ~(valid /\ cache_count = Line - 1)
    <3>1. /\ asked' = NoAddr /\ ~s_write' /\ s_address' = s_address
      BY <1>1, <2>5, <2>7, RequestStays
    <3>2. /\ Withdraw(wait) /\ state' = "READING_ST" /\ cache_addr' = cache_addr
          /\ cache_count' = IF valid THEN cache_count + 1 ELSE cache_count
      BY <1>1, <1>5, <2>7, EdgeCases DEF Beat, lineVars
    <3>3. offset' = offset /\ (InLine' <=> offset \in 0 .. cache_count' - 1)
      BY <3>1, <3>2 DEF offset, InLine
    <3>4. ~InLine'
      BY <1>1, <1>2, <1>3, <2>1, <2>4, <3>2, <3>3
    <3>5. CASE offset \in 0 .. Line - 1
      <4>1. /\ ToServe = (IF m_read THEN 2 ELSE 1) + (offset - cache_count)
            /\ ToServe' = (IF m_read' THEN 2 ELSE 1) + (offset' - cache_count')
        BY <1>1, <1>5, <2>4, <3>1, <3>2, <3>3, <3>4, <3>5 DEF ToServe
      <4>2. m_read' = (m_read /\ wait) /\ (valid => ~m_read)
        BY <3>2, ArrivingWord DEF Withdraw, Clock
      <4>3. Kept(wait, valid) = IF m_read THEN wait ELSE ~valid
        BY <1>5, <2>1 DEF Kept
      <4>4. PICK k \in Int : k = offset - cache_count
        BY <1>1, <1>2
      <4>5. k \in 0 .. Line /\ (valid => k >= 1)
        BY <1>1, <1>2, <1>3, <2>1, <2>4, <3>5, <4>4
      <4>6. offset' - cache_count' = IF valid THEN k - 1 ELSE k
        <5>1. valid => offset - (cache_count + 1) = k - 1
          BY <1>1, <1>2, <4>4
        <5> QED
          BY <3>2, <3>3, <4>4, <5>1
      <4>7. CASE valid
        <5>1. ToServe = 1 + k /\ ToServe' = 1 + (k - 1)
          BY <4>1, <4>2, <4>4, <4>6, <4>7
        <5>2. PICK c \in Int, d \in Int : c = ToServe /\ d = ToServe'
          BY <4>4, <5>1
        <5>3. c = 1 + k /\ d = k
          BY <4>4, <5>1, <5>2
        <5>4. c \in 1 .. Line + 3 /\ d \in 1 .. c /\ d < c
          BY <1>1, <4>5, <4>7, <5>3
        <5> QED
          BY <5>2, <5>4 DEF Nearer
      <4>8. CASE ~valid
        <5>1. /\ ToServe = (IF m_read THEN 2 ELSE 1) + k
              /\ ToServe' = (IF m_read /\ wait THEN 2 ELSE 1) + k
          BY <4>1, <4>2, <4>4, <4>6, <4>8
        <5>2. PICK c \in Int, d \in Int : c = ToServe /\ d = ToServe'
          BY <4>4, <5>1
        <5>3. c = (IF m_read THEN 2 ELSE 1) + k /\ d = (IF m_read /\ wait THEN 2 ELSE 1) + k
          BY <5>1, <5>2
        <5>4. c \in 1 .. Line + 3 /\ d \in 1 .. c
          BY <1>1, <4>5, <5>3
        <5>5. m_read /\ ~wait => d < c
          BY <5>3
        <5>6. ToServe \in 1 .. Line + 3 /\ ToServe' \in 1 .. ToServe
          BY <5>2, <5>4
        <5>7. Kept(wait, valid) \/ ToServe' < ToServe
          <6>1. CASE m_read /\ ~wait
            BY <5>2, <5>5, <6>1
          <6>2. CASE ~(m_read /\ ~wait)
            BY <4>3, <4>8, <6>2
          <6> QED
            BY <6>1, <6>2
        <5> QED
          BY <5>6, <5>7 DEF Nearer
      <4> QED
        BY <4>7, <4>8
    <3>6. CASE offset \notin 0 .. Line - 1
      <4>1. ToServe = ToFill + 2 /\ ToServe' = ToFill' + 2
        BY <1>1, <1>5, <2>4, <3>1, <3>2, <3>3, <3>4, <3>6 DEF ToServe
      <4>2. /\ ToFill \in 1 .. Line + 1
            /\ ToFill' = IF Kept(wait, valid) THEN ToFill ELSE ToFill - 1
        BY <1>5, <3>2, FillCounts
      <4>3. PICK a \in 1 .. Line + 1 : a = ToFill
        BY <4>2
      <4>4. ToServe = a + 2 /\ ToServe' = (IF Kept(wait, valid) THEN a ELSE a - 1) + 2
        BY <4>1, <4>2, <4>3
      <4> QED
        BY <1>1, <4>4 DEF Nearer
    <3> QED
      BY <3>5, <3>6
  <2> QED
    BY <2>6, <2>7
<1> QED
  BY <1>1, <1>4, <1>5

(* The cache never lets its client wait for more than the memory: what it   *)
(* still needs only goes down, and with every clock the memory moves.       *)
THEOREM MemoryIsAllItWaitsFor ==
  Spec => WaitsForMemoryOnly
<1> DEFINE waits(wait, valid) ==
             \/ s_write /\ s_waitrequest(wait, valid)
             \/ (s_read \/ asked # NoAddr) /\ ~s_readdatavalid'
<1>1. ASSUME IInv
      PROVE  \A wait, valid \in BOOLEAN :
               Clock(wait, valid) /\ waits(wait, valid) => Nearer(wait, valid)
  BY <1>1, AskedNearer, WriteNearer, ReadNearer
<1>2. ASSUME IInv
      PROVE  [\A wait, valid \in BOOLEAN :
                LET w == \/ s_write /\ s_waitrequest(wait, valid)
                         \/ (s_read \/ asked # NoAddr) /\ ~s_readdatavalid'
                IN Clock(wait, valid) /\ w =>
                     /\ ToServe \in 1 .. Line + 3 /\ ToServe' \in 1 .. ToServe
                     /\ Kept(wait, valid) \/ ToServe' < ToServe]_vars
  BY <1>1, <1>2 DEF Nearer
<1> QED
  BY <1>2, Inductive, PTL DEF WaitsForMemoryOnly

(* An answer is the word stored at the address the client waits for, and    *)
(* it comes once.                                                          *)
LEMMA AnswerIsStored ==
  ASSUME IInv, NEW wait \in BOOLEAN, NEW valid \in BOOLEAN, Clock(wait, valid)
  PROVE  \/ s_readdatavalid' = FALSE /\ s_readdata' = Zero
         \/ /\ s_read /\ ~s_waitrequest(wait, valid)
            /\ s_readdatavalid' = TRUE /\ s_readdata' = Stored[s_address]
         \/ /\ ~s_read /\ ~s_write /\ asked # NoAddr
            /\ s_readdatavalid' = TRUE /\ s_readdata' = Stored[asked]
<1>1. /\ s_address \in Addr /\ cache_addr \in 0 .. LastAddr + 1 /\ cache_count \in 0 .. Line
      /\ asked = IF rd_burstcount = 0 THEN NoAddr ELSE cache_addr
      /\ rd_burstcount # 0 => cache_count = 0 /\ cache_addr \in Addr
      /\ asked # NoAddr => ~s_write /\ ~s_read
      /\ ~(s_write /\ s_read)
  BY DEF IInv, TypeOK, ClientShape
<1>2. ASSUME InLine
      PROVE  cache_data[offset] = Stored[s_address]
  <2>1. offset \in 0 .. Line - 1 /\ offset < cache_count /\ cache_addr + offset = s_address
    BY <1>1, <1>2, Sizes DEF InLine, offset
  <2> QED
    BY <2>1 DEF IInv, LineCoherent
<1>3. ASSUME state = "READING_ST", cache_rd_hit_s(valid)
      PROVE  s_read /\ ~s_waitrequest(wait, valid)
  <2>1. s_read /\ ~s_write
    BY <1>1, <1>3 DEF cache_rd_hit_s
  <2> QED
    BY <1>3, <2>1 DEF s_waitrequest
<1>4. ASSUME state = "READING_ST", cache_rd_hit_s(valid), ReadingAnswer(wait, valid)
      PROVE  s_readdatavalid' = TRUE /\ s_readdata' = Stored[s_address]
  <2>1. /\ s_readdatavalid' = TRUE
        /\ s_readdata' = IF offset = cache_count THEN m_readdata(valid) ELSE cache_data[offset]
    BY <1>3, <1>4 DEF ReadingAnswer, Respond
  <2>2. CASE offset = cache_count
    <3>1. ~InLine
      BY <1>1, <2>2, Sizes DEF InLine
    <3>2. valid
      BY <1>4, <3>1 DEF cache_rd_hit_s
    <3>3. cache_addr + cache_count = s_address
      BY <1>1, <2>2, Sizes DEF offset
    <3>4. Memory(wait, valid)
      BY DEF Clock
    <3>5. m_readdata(valid) = Stored[cache_addr + cache_count]
      BY <3>2, <3>4, ArrivingWord
    <3> QED
      BY <2>1, <2>2, <3>3, <3>5
  <2>3. CASE offset # cache_count
    <3>1. InLine
      BY <1>4, <2>3 DEF cache_rd_hit_s
    <3> QED
      BY <1>2, <2>1, <2>3, <3>1
  <2> QED
    BY <2>2, <2>3
<1>5. ASSUME state = "READING_ST", ~cache_rd_hit_s(valid), ReadingAnswer(wait, valid)
      PROVE  \/ s_readdatavalid' = FALSE /\ s_readdata' = Zero
             \/ /\ ~s_read /\ ~s_write /\ asked # NoAddr
                /\ s_readdatavalid' = TRUE /\ s_readdata' = Stored[asked]
  <2>1. CASE valid /\ rd_burstcount # 0
    <3>1. s_readdatavalid' = TRUE /\ s_readdata' = m_readdata(valid)
      BY <1>5, <2>1 DEF ReadingAnswer, Respond
    <3>2. asked = cache_addr /\ asked # NoAddr /\ cache_addr + cache_count = cache_addr
      BY <1>1, <2>1, Sizes
    <3>3. Memory(wait, valid)
      BY DEF Clock
    <3>4. m_readdata(valid) = Stored[cache_addr + cache_count]
      BY <2>1, <3>3, ArrivingWord
    <3> QED
      BY <1>1, <3>1, <3>2, <3>4
  <2>2. CASE ~(valid /\ rd_burstcount # 0)
    BY <1>5, <2>2 DEF ReadingAnswer, NoAnswer
  <2> QED
    BY <2>1, <2>2
<1>6. ASSUME IdleHit(wait), InLine
      PROVE  s_readdatavalid' = TRUE /\ s_readdata' = Stored[s_address]
  BY <1>2, <1>6 DEF IdleHit, Respond
<1>7. ASSUME ReadingAnswer(wait, valid), state = "READING_ST"
      PROVE  \/ s_readdatavalid' = FALSE /\ s_readdata' = Zero
             \/ /\ s_read /\ ~s_waitrequest(wait, valid)
                /\ s_readdatavalid' = TRUE /\ s_readdata' = Stored[s_address]
             \/ /\ ~s_read /\ ~s_write /\ asked # NoAddr
                /\ s_readdatavalid' = TRUE /\ s_readdata' = Stored[asked]
  BY <1>3, <1>4, <1>5, <1>7
<1> QED
  BY <1>6, <1>7, EdgeCases DEF NoAnswer, IdleWrite, IdleMiss

(* A write is answered by nothing.                                         *)
LEMMA WriteUnanswered ==
  ASSUME IInv, NEW wait \in BOOLEAN, NEW valid \in BOOLEAN, Clock(wait, valid), s_write
  PROVE  s_readdatavalid' = FALSE /\ s_readdata' = Zero
<1>1. ~s_read
  BY DEF IInv, ClientShape
<1> QED
  BY <1>1, AnswerIsStored

(* An edge of the cache is a step of the memory of words.                   *)
LEMMA StepImplements ==
  ASSUME IInv, NEW wait \in BOOLEAN, NEW valid \in BOOLEAN, Clock(wait, valid)
  PROVE  Promise!Next
<1>1. PICK accepted \in BOOLEAN : accepted <=> ~s_waitrequest(wait, valid)
  OBVIOUS
<1>2. Promise!Client(accepted)
  <2>1. Promise!Client(~s_waitrequest(wait, valid))
    BY DEF Clock
  <2> QED
    BY <1>1, <2>1 DEF Promise!Client
<1>3. Zero \in Promise!Word
  BY ConstantsAssumption DEF Zero, Promise!Word
<1>4. /\ Stored \in [MemAddr -> Word] /\ s_address \in Addr /\ asked \in Addr \union {NoAddr}
      /\ ~(s_write /\ s_read) /\ Addr \subseteq MemAddr
  BY StoredType, Sizes DEF IInv, TypeOK, ClientShape
<1>5. CASE s_write /\ accepted
  <2>1. Stored' = [Stored EXCEPT ![s_address] = Merge(@, s_writedata, s_byteenable)]
    BY <1>1, <1>5, StoredStep
  <2>2. \A a \in Addr : Stored'[a] = IF a = s_address
                                       THEN Merge(Stored[s_address], s_writedata, s_byteenable)
                                       ELSE Stored[a]
    BY <1>4, <2>1
  <2>3. [a \in Addr |-> Stored'[a]]
          = [[a \in Addr |-> Stored[a]] EXCEPT ![s_address] =
               Promise!Merge([a \in Addr |-> Stored[a]][s_address], s_writedata, s_byteenable)]
    <3>1. Promise!Merge([a \in Addr |-> Stored[a]][s_address], s_writedata, s_byteenable)
            = Merge(Stored[s_address], s_writedata, s_byteenable)
      BY <1>4, SameMerge
    <3> QED
      BY <1>4, <2>2, <3>1
  <2>4. s_readdatavalid' = FALSE /\ s_readdata' \in Promise!Word
    BY <1>3, <1>5, WriteUnanswered
  <2>5. Promise!Serve(accepted)
    BY <1>5, <2>3, <2>4 DEF Promise!Serve
  <2> QED
    BY <1>2, <2>5 DEF Promise!Next
<1>6. CASE ~(s_write /\ accepted)
  <2>1. UNCHANGED [a \in Addr |-> Stored[a]]
    <3>1. Stored' = Stored
      BY <1>1, <1>6, StoredStep
    <3> QED
      BY <3>1
  <2>2. ASSUME s_readdatavalid' = FALSE /\ s_readdata' = Zero
        PROVE  Promise!Serve(accepted)
    <3>1. s_readdatavalid' = FALSE /\ s_readdata' \in Promise!Word
      BY <1>3, <2>2
    <3>2. (s_read /\ accepted) \/ ~((s_write \/ s_read) /\ accepted)
      BY <1>6
    <3> QED
      BY <2>1, <3>1, <3>2 DEF Promise!Serve
  <2>3. ASSUME /\ s_read /\ accepted
               /\ s_readdatavalid' = TRUE /\ s_readdata' = Stored[s_address]
        PROVE  Promise!Serve(accepted)
    <3>1. Promise!Answer(s_address)
      BY <1>4, <2>3 DEF Promise!Answer
    <3> QED
      BY <2>1, <2>3, <3>1 DEF Promise!Serve
  <2>4. ASSUME /\ ~s_read /\ ~s_write /\ asked # NoAddr
               /\ s_readdatavalid' = TRUE /\ s_readdata' = Stored[asked]
        PROVE  Promise!Serve(accepted)
    <3>1. Promise!Answer(asked)
      BY <1>4, <2>4 DEF Promise!Answer
    <3> QED
      BY <2>1, <2>4, <3>1 DEF Promise!Serve
  <2>5. Promise!Serve(accepted)
    <3>1. \/ s_readdatavalid' = FALSE /\ s_readdata' = Zero
          \/ /\ s_read /\ accepted
             /\ s_readdatavalid' = TRUE /\ s_readdata' = Stored[s_address]
          \/ /\ ~s_read /\ ~s_write /\ asked # NoAddr
             /\ s_readdatavalid' = TRUE /\ s_readdata' = Stored[asked]
      BY <1>1, AnswerIsStored
    <3> QED
      BY <2>2, <2>3, <2>4, <3>1
  <2> QED
    BY <1>2, <2>5 DEF Promise!Next
<1> QED
  BY <1>5, <1>6

(* The read cache is the memory of words it stands in for, for every line   *)
(* length, address range, content and timing of the memory behind it.       *)
THEOREM ImplementsWordMemory ==
  Spec => Implements
<1>1. Init => Promise!Init
  <2> SUFFICES ASSUME Init PROVE Promise!Init
    OBVIOUS
  <2>1. TypeOK
    BY InitIInv DEF IInv
  <2>2. [a \in Addr |-> Stored[a]] \in [Addr -> Word]
    BY <2>1, StoredType, Sizes
  <2>3. s_readdata \in Word
    BY <2>1 DEF TypeOK
  <2> QED
    BY <2>2, <2>3, SameWord DEF Init, Promise!Init
<1>2. IInv /\ [Next]_vars => [Promise!Next]_(Promise!vars)
  <2> SUFFICES ASSUME IInv, [Next]_vars PROVE [Promise!Next]_(Promise!vars)
    OBVIOUS
  <2>1. CASE Next
    BY <2>1, StepImplements DEF Next
  <2>2. CASE UNCHANGED vars
    BY <2>2 DEF vars, clientVars, mRequest, memVars, Stored, Merge,
                Promise!vars, Promise!client, Promise!request
  <2> QED
    BY <2>1, <2>2
<1> QED
  BY <1>1, <1>2, Inductive, PTL DEF Spec, Implements, Promise!Spec

-----------------------------------------------------------------------------
(* The path to the HyperRAM (HyperRamPath) in the place of the memory.       *)

(* The cache asks for nothing while words of its last read are due.          *)
LEMMA AsksWhenQuiet ==
  ASSUME PathIInv, m_write \/ m_read
  PROVE  /\ left = 0 /\ answers = <<>> /\ burst.left = 0 /\ ~ReadWaits
         /\ ~(m_read /\ m_write)
         /\ m_read => m_burstcount > 0
<1>1. left = 0 /\ ~(m_read /\ m_write) /\ (m_read => m_burstcount > 0)
  <2>1. /\ state \in {"IDLE_ST", "READING_ST"} /\ cache_count \in 0 .. Line
        /\ m_burstcount \in 0 .. Line /\ Line \in Nat
    BY Sizes DEF PathIInv, IInv, TypeOK
  <2> QED
    BY <2>1 DEF PathIInv, IInv, FillShape
<1>2. /\ left = Len(answers) + Coming /\ Len(answers) \in Nat /\ burst.left \in Nat
      /\ ReadWaits => requests[Len(requests)].beats \in Nat \ {0}
  <2>1. answers \in Seq(Word) /\ requests \in Seq(Request)
        /\ burst \in [left : 0 .. Line, next : Nat]
    BY DEF PathIInv, PathTypeOK
  <2>2. ReadWaits => requests[Len(requests)] \in Request
    BY <2>1 DEF ReadWaits
  <2> QED
    BY <2>1, <2>2 DEF PathIInv, InOrder, ReadShape, Request
<1>3. answers \in Seq(Word)
  BY DEF PathIInv, PathTypeOK
<1>4. Len(answers) = 0 /\ burst.left = 0 /\ ~ReadWaits
  <2>1. CASE ReadWaits
    <3>1. Coming = burst.left + requests[Len(requests)].beats
      BY <2>1 DEF Coming
    <3> QED
      BY <1>1, <1>2, <2>1, <3>1
  <2>2. CASE ~ReadWaits
    <3>1. Coming = burst.left
      BY <1>2, <2>2 DEF Coming
    <3> QED
      BY <1>1, <1>2, <2>2, <3>1
  <2> QED
    BY <2>1, <2>2
<1>5. answers # <<>> => Len(answers) \in Nat \ {0}
  BY <1>3, EmptySeq
<1> QED
  BY <1>1, <1>4, <1>5

(* What is due lies in the memory, and only a filling line has words due.    *)
LEMMA DueInRange ==
  ASSUME IInv, left > 0
  PROVE  /\ state = "READING_ST" /\ ~m_read /\ ~m_write
         /\ \A k \in 0 .. left - 1 : next + k \in MemAddr
<1>1. /\ state \in {"IDLE_ST", "READING_ST"} /\ cache_count \in 0 .. Line
      /\ cache_addr \in 0 .. LastAddr + 1 /\ Line \in Nat /\ LastAddr \in Nat
      /\ left \in 0 .. Line /\ next \in Nat
  BY Sizes DEF IInv, TypeOK
<1>2. state = "READING_ST" /\ ~m_read /\ ~m_write
      /\ next = cache_addr + cache_count /\ cache_count + left = Line
  BY <1>1 DEF IInv, FillShape
<1> QED
  BY <1>1, <1>2 DEF MemAddr

(* An edge of the core's clock.                                              *)
LEMMA CoreCases ==
  ASSUME PathIInv, NEW turn \in BOOLEAN, NEW shown \in BOOLEAN, CoreEdge(turn, shown)
  PROVE  /\ \E wait \in BOOLEAN : Clock(wait, shown)
         /\ UNCHANGED <<hram, burst>>
         /\ \/ (* a request goes in *)
               /\ m_write \/ m_read
               /\ requests' = Append(requests,
                    [write |-> m_write, a |-> m_address, w |-> m_writedata,
                     be |-> m_byteenable, beats |-> m_burstcount])
               /\ answers' = answers /\ mem' = Stored
               /\ IF m_read THEN left' = m_burstcount /\ next' = m_address
                            ELSE left' = left /\ next' = next
            \/ (* a word comes out *)
               /\ answers # <<>> /\ answers' = Tail(answers) /\ requests' = requests
               /\ left' = left - 1 /\ next' = next + 1 /\ mem' = mem
            \/ UNCHANGED <<requests, answers, mem, left, next>>
<1> DEFINE wait == (m_write \/ m_read) /\ (~turn \/ Fifo!s_avm_waitrequest)
<1>1. /\ requests \in Seq(Request) /\ answers \in Seq(Word)
      /\ m_write \in BOOLEAN /\ m_read \in BOOLEAN
  BY DEF PathIInv, IInv, PathTypeOK, TypeOK
<1>2. /\ Fifo!SlaveEdge(Asked(wait), shown) /\ Ledger(wait, shown)
      /\ Idle(wait) \/ Reading(wait, shown)
      /\ Promise!Client(~s_waitrequest(wait, shown))
      /\ UNCHANGED <<hram, burst>>
  BY DEF CoreEdge
<1>3. shown => answers # <<>> /\ left > 0
  <2>1. left = Len(answers) + Coming
    BY DEF PathIInv, InOrder
  <2>2. Coming \in Nat
    <3>1. ReadWaits => requests[Len(requests)] \in Request
      BY <1>1 DEF ReadWaits
    <3>2. burst.left \in Nat
      BY DEF PathIInv, PathTypeOK
    <3> QED
      BY <3>1, <3>2 DEF Coming, Request
  <2>3. shown => answers # <<>>
    BY <1>2 DEF Fifo!SlaveEdge
  <2>4. answers # <<>> => Len(answers) \in Nat \ {0}
    BY <1>1, EmptySeq
  <2>5. Len(answers) \in Nat
    BY <1>1
  <2> QED
    BY <2>1, <2>2, <2>3, <2>4, <2>5
<1>4. wait \in BOOLEAN /\ Clock(wait, shown)
  <2>1. wait => m_write \/ m_read
    OBVIOUS
  <2> QED
    BY <1>2, <1>3, <2>1 DEF Clock, Memory
<1>5. CASE (m_write \/ m_read) /\ ~wait
  <2>1. answers = <<>> /\ ~shown
    BY <1>3, <1>5, AsksWhenQuiet
  <2>2. Len(requests) < WrDepth
    <3>1. Len(requests) \in Nat /\ WrDepth \in Nat
      BY <1>1, PathAssumption
    <3> QED
      BY <1>5, <3>1 DEF Fifo!s_avm_waitrequest
  <2>3. Asked(wait) = << [write |-> m_write, a |-> m_address, w |-> m_writedata,
                          be |-> m_byteenable, beats |-> m_burstcount] >>
    BY <1>5 DEF Asked
  <2>4. requests' = requests \o Asked(wait) /\ answers' = answers
    BY <1>2, <2>1, <2>2 DEF Fifo!SlaveEdge
  <2>5. requests' = Append(requests, [write |-> m_write, a |-> m_address, w |-> m_writedata,
                                      be |-> m_byteenable, beats |-> m_burstcount])
    <3>1. [write |-> m_write, a |-> m_address, w |-> m_writedata,
           be |-> m_byteenable, beats |-> m_burstcount] \in Request
      BY DEF PathIInv, IInv, TypeOK, Request
    <3> QED
      BY <1>1, <2>3, <2>4, <3>1, AppendIsConcat
  <2>6. /\ mem' = Stored
        /\ IF m_read THEN left' = m_burstcount /\ next' = m_address
                     ELSE left' = left /\ next' = next
    BY <1>2, <1>5, <2>1 DEF Ledger
  <2> QED
    BY <1>2, <1>4, <1>5, <2>4, <2>5, <2>6
<1>6. CASE ~((m_write \/ m_read) /\ ~wait)
  <2>1. requests' = requests
    <3>1. Asked(wait) = <<>>
      BY <1>6 DEF Asked
    <3>2. requests \o <<>> = requests
      BY <1>1, ConcatEmptySeq
    <3>3. \/ requests' = requests \o Asked(wait)
          \/ requests' = requests
      BY <1>2 DEF Fifo!SlaveEdge
    <3> HIDE DEF wait
    <3> QED
      BY <3>1, <3>2, <3>3
  <2>2. mem' = mem
    BY <1>2, <1>6 DEF Ledger, Stored
  <2>3. CASE shown
    BY <1>2, <1>3, <1>4, <1>6, <2>1, <2>2, <2>3 DEF Fifo!SlaveEdge, Ledger
  <2>4. CASE ~shown
    BY <1>2, <1>4, <1>6, <2>1, <2>2, <2>4 DEF Fifo!SlaveEdge, Ledger
  <2> QED
    BY <2>3, <2>4
<1> QED
  BY <1>5, <1>6

(* A request goes in: the last, for which nothing but writes waits.          *)
LEMMA AsksStep ==
  ASSUME PathIInv, IInv', m_write \/ m_read, UNCHANGED <<hram, burst, answers>>,
         requests' = Append(requests,
           [write |-> m_write, a |-> m_address, w |-> m_writedata,
            be |-> m_byteenable, beats |-> m_burstcount]),
         mem' = Stored,
         IF m_read THEN left' = m_burstcount /\ next' = m_address
                   ELSE left' = left /\ next' = next
  PROVE  PathIInv'
<1> DEFINE r == [write |-> m_write, a |-> m_address, w |-> m_writedata,
                 be |-> m_byteenable, beats |-> m_burstcount]
           n == Len(requests)
<1>1. /\ r \in Request /\ r.write = m_write /\ r.a = m_address /\ r.w = m_writedata
      /\ r.be = m_byteenable /\ r.beats = m_burstcount
      /\ m_write \in BOOLEAN /\ m_read \in BOOLEAN /\ m_burstcount \in 0 .. Line
      /\ mem \in [MemAddr -> Word] /\ m_address \in MemAddr /\ m_writedata \in Word
  BY DEF PathIInv, IInv, TypeOK, Request
<1>2. /\ requests \in Seq(Request) /\ answers \in Seq(Word) /\ n \in Nat
      /\ hram \in [MemAddr -> Word] /\ burst \in [left : 0 .. Line, next : Nat]
  BY DEF PathIInv, PathTypeOK
<1>3. /\ requests' \in Seq(Request) /\ Len(requests') = n + 1 /\ requests' # <<>>
      /\ \A i \in 1 .. n : requests'[i] = requests[i]
      /\ requests'[n + 1] = r
  BY <1>1, <1>2, AppendProperties
<1>4. /\ left = 0 /\ answers = <<>> /\ burst.left = 0 /\ ~ReadWaits
      /\ ~(m_read /\ m_write) /\ (m_read => m_burstcount > 0)
  BY AsksWhenQuiet
<1> HIDE DEF r
<1>5. PathTypeOK'
  BY <1>2, <1>3 DEF PathTypeOK
<1>6. ReadWaits' <=> m_read
  BY <1>1, <1>3, <1>4 DEF ReadWaits
<1>7. ReadShape'
  <2>1. ASSUME NEW i \in 1 .. n PROVE requests[i].write
    <3>1. i < n => requests[i].write
      BY DEF PathIInv, ReadShape
    <3>2. i = n => requests[i].write
      BY <1>2, <1>4 DEF ReadWaits
    <3> QED
      BY <1>2, <3>1, <3>2
  <2>2. \A i \in 1 .. n + 1 : i < n + 1 => requests'[i].write
    BY <1>2, <1>3, <2>1
  <2> QED
    BY <1>1, <1>3, <1>4, <1>6, <2>2 DEF ReadShape
<1>8. InOrder'
  <2>1. Len(answers') = 0
    BY <1>4
  <2>2. Coming' = left'
    BY <1>1, <1>3, <1>4, <1>6 DEF Coming
  <2>3. left' \in 0 .. Line /\ left' \in Nat
    BY Sizes DEF IInv, TypeOK
  <2>4. Len(answers') + Coming' = left'
    <3>1. \A k \in Nat : 0 + k = k
      OBVIOUS
    <3> QED
      BY <2>1, <2>2, <2>3, <3>1
  <2>5. left' <= RdDepth
    BY <2>3, Sizes, PathAssumption
  <2> QED
    BY <2>1, <2>4, <2>5 DEF InOrder
<1>9. WritesInOrder'
  <2> SUFFICES ASSUME NEW a \in MemAddr, NEW l \in Lane
               PROVE  \/ /\ \A j \in 1 .. n + 1 : ~Touches(requests'[j], a, l)
                         /\ mem'[a][l] = hram[a][l]
                      \/ \E i \in 1 .. n + 1 :
                           /\ Touches(requests'[i], a, l)
                           /\ \A j \in i + 1 .. n + 1 : ~Touches(requests'[j], a, l)
                           /\ mem'[a][l] = requests'[i].w[l]
    BY <1>3 DEF WritesInOrder, Touches
  <2>1. CASE Touches(r, a, l)
    <3>1. mem'[a][l] = r.w[l]
      BY <1>1, <2>1 DEF Touches, Stored, Merge
    <3>2. n + 1 \in 1 .. n + 1 /\ n + 2 .. n + 1 = {}
      BY <1>2
    <3> QED
      BY <1>3, <2>1, <3>1, <3>2
  <2>2. CASE ~Touches(r, a, l)
    <3>1. mem'[a][l] = mem[a][l]
      BY <1>1, <2>2 DEF Touches, Stored, Merge
    <3>2. ASSUME NEW i \in Nat, \A j \in i + 1 .. n : ~Touches(requests[j], a, l)
          PROVE  \A j \in i + 1 .. n + 1 : ~Touches(requests'[j], a, l)
      <4> SUFFICES ASSUME NEW j \in i + 1 .. n + 1 PROVE ~Touches(requests'[j], a, l)
        OBVIOUS
      <4>1. j = n + 1 \/ (j \in i + 1 .. n /\ j \in 1 .. n)
        BY <1>2
      <4> QED
        BY <1>3, <2>2, <3>2, <4>1
    <3>3. CASE /\ \A j \in 0 + 1 .. n : ~Touches(requests[j], a, l)
               /\ mem[a][l] = hram[a][l]
      BY <3>1, <3>2, <3>3
    <3>4. CASE \E i \in 1 .. n :
                 /\ Touches(requests[i], a, l)
                 /\ \A j \in i + 1 .. n : ~Touches(requests[j], a, l)
                 /\ mem[a][l] = requests[i].w[l]
      <4>1. PICK i \in 1 .. n :
                 /\ Touches(requests[i], a, l)
                 /\ \A j \in i + 1 .. n : ~Touches(requests[j], a, l)
                 /\ mem[a][l] = requests[i].w[l]
        BY <3>4
      <4>2. i \in 1 .. n + 1 /\ i \in Nat /\ requests'[i] = requests[i]
        BY <1>2, <1>3
      <4> QED
        BY <3>1, <3>2, <4>1, <4>2
    <3> QED
      BY <3>3, <3>4 DEF PathIInv, WritesInOrder
  <2> QED
    BY <2>1, <2>2
<1> QED
  BY <1>5, <1>7, <1>8, <1>9 DEF PathIInv

(* A word comes out: the first of those the cache is owed.                   *)
LEMMA WordStep ==
  ASSUME PathIInv, IInv', UNCHANGED <<hram, burst, requests, mem>>,
         answers # <<>>, answers' = Tail(answers), left' = left - 1, next' = next + 1
  PROVE  PathIInv'
<1>1. /\ requests \in Seq(Request) /\ answers \in Seq(Word)
      /\ hram \in [MemAddr -> Word] /\ burst \in [left : 0 .. Line, next : Nat]
      /\ next \in Nat
  BY DEF PathIInv, PathTypeOK, IInv, TypeOK
<1>2. /\ answers' \in Seq(Word) /\ Len(answers') = Len(answers) - 1
      /\ Len(answers) \in Nat \ {0} /\ Len(answers') \in Nat
      /\ \A i \in 1 .. Len(answers') : answers'[i] = answers[i + 1]
  BY <1>1, HeadTailProperties, EmptySeq
<1>3. PathTypeOK'
  BY <1>1, <1>2 DEF PathTypeOK
<1>4. ~ReadWaits /\ Coming = burst.left /\ ~ReadWaits' /\ Coming' = burst.left
  BY <1>1 DEF PathIInv, ReadShape, ReadWaits, Coming
<1>5. ReadShape'
  <2>1. burst.left > 0 => requests = <<>> /\ burst.next = next' + Len(answers')
    BY <1>1, <1>2 DEF PathIInv, ReadShape
  <2>2. \A i \in 1 .. Len(requests) : i < Len(requests) => requests[i].write
    BY DEF PathIInv, ReadShape
  <2> QED
    BY <1>4, <2>1, <2>2 DEF ReadShape
<1>6. InOrder'
  <2>1. /\ left = Len(answers) + burst.left /\ Len(answers) + burst.left <= RdDepth
        /\ \A i \in 1 .. Len(answers) : answers[i] = mem[next + i - 1]
    BY <1>4 DEF PathIInv, InOrder
  <2>2. left' = Len(answers') + burst.left /\ Len(answers') + burst.left <= RdDepth
    BY <1>1, <1>2, <2>1, PathAssumption
  <2>3. ASSUME NEW i \in 1 .. Len(answers')
        PROVE  answers'[i] = mem[next' + i - 1]
    <3>1. i + 1 \in 1 .. Len(answers) /\ next + (i + 1) - 1 = next' + i - 1
      BY <1>1, <1>2
    <3> QED
      BY <1>2, <2>1, <3>1
  <2> QED
    BY <1>4, <2>2, <2>3 DEF InOrder
<1>7. WritesInOrder'
  BY DEF PathIInv, WritesInOrder
<1> QED
  BY <1>3, <1>5, <1>6, <1>7 DEF PathIInv

(* The HyperRAM takes the first request.                                     *)
LEMMA TakesStep ==
  ASSUME PathIInv, TakesRequest
  PROVE  PathIInv'
<1> DEFINE r == requests[1]
           n == Len(requests)
<1>1. /\ requests # <<>> /\ requests' = Tail(requests) /\ answers' = answers
      /\ burst.left = 0 /\ UNCHANGED vars
      /\ IF r.write
         THEN hram' = [hram EXCEPT ![r.a] = Merge(@, r.w, r.be)] /\ burst' = burst
         ELSE burst' = [left |-> r.beats, next |-> r.a] /\ hram' = hram
  BY DEF TakesRequest, Fifo!MasterTakes
<1>2. UNCHANGED <<mem, left, next>>
  BY <1>1 DEF vars, memVars
<1>3. IInv'
  BY <1>1 DEF PathIInv, IInv, TypeOK, LineCoherent, FillShape, ClientShape, Stored,
              vars, clientVars, lineVars, mRequest, memVars
<1>4. /\ requests \in Seq(Request) /\ answers \in Seq(Word)
      /\ hram \in [MemAddr -> Word] /\ burst \in [left : 0 .. Line, next : Nat]
      /\ mem \in [MemAddr -> Word] /\ next \in Nat /\ left \in 0 .. Line
  BY DEF PathIInv, PathTypeOK, IInv, TypeOK
<1>5. /\ n \in Nat \ {0} /\ requests' \in Seq(Request) /\ Len(requests') = n - 1
      /\ \A i \in 1 .. n - 1 : requests'[i] = requests[i + 1]
      /\ requests' # <<>> <=> n > 1
  <2>1. n \in Nat \ {0}
    BY <1>1, <1>4, EmptySeq
  <2>2. /\ requests' \in Seq(Request) /\ Len(requests') = n - 1
        /\ \A i \in 1 .. Len(requests') : requests'[i] = requests[i + 1]
    BY <1>1, <1>4, HeadTailProperties
  <2>3. requests' # <<>> => Len(requests') \in Nat \ {0}
    BY <2>2, EmptySeq
  <2>4. requests' = <<>> => Len(requests') = 0
    BY EmptySeq
  <2> QED
    BY <2>1, <2>2, <2>3, <2>4
<1>6. /\ r \in Request /\ r.a \in MemAddr /\ r.w \in Word /\ r.beats \in 0 .. Line
      /\ MemAddr \subseteq Nat
  <2>1. r \in Request
    BY <1>4, <1>5
  <2> QED
    BY <2>1, Sizes DEF Request, MemAddr
<1>7. PathTypeOK'
  <2>1. hram' \in [MemAddr -> Word]
    <3>1. hram[r.a] \in Word
      BY <1>4, <1>6
    <3>2. Merge(hram[r.a], r.w, r.be) \in Word
      BY <1>6, <3>1, MergeType
    <3> QED
      BY <1>1, <1>4, <3>2
  <2>2. burst' \in [left : 0 .. Line, next : Nat]
    BY <1>1, <1>4, <1>6
  <2> QED
    BY <1>1, <1>4, <1>5, <2>1, <2>2 DEF PathTypeOK
<1>8. \A i \in 1 .. n : i < n => requests[i].write
  BY DEF PathIInv, ReadShape
<1>9. CASE ~r.write
  <2>1. n = 1
    BY <1>5, <1>8, <1>9
  <2>2. ReadWaits /\ requests' = <<>>
    BY <1>1, <1>5, <1>9, <2>1 DEF ReadWaits
  <2>3. /\ answers = <<>> /\ r.a = next /\ Len(answers) = 0
        /\ left = Len(answers) + r.beats /\ Len(answers) + r.beats <= RdDepth
    BY <1>1, <1>4, <1>6, <2>1, <2>2 DEF PathIInv, ReadShape, InOrder, Coming
  <2>4. burst'.left = r.beats /\ burst'.next = r.a
    BY <1>1, <1>9
  <2>5. ~ReadWaits' /\ Coming' = r.beats
    BY <1>6, <2>2, <2>4 DEF ReadWaits, Coming
  <2>6. ReadShape'
    <3>1. next' + Len(answers') = next
      BY <1>1, <1>2, <1>4, <2>3
    <3>2. Len(requests') = 0
      BY <1>5, <2>1
    <3> QED
      BY <2>2, <2>3, <2>4, <2>5, <3>1, <3>2 DEF ReadShape
  <2>7. InOrder'
    BY <1>1, <1>2, <2>3, <2>5 DEF InOrder
  <2>8. WritesInOrder'
    <3> SUFFICES ASSUME NEW a \in MemAddr, NEW l \in Lane
                 PROVE  mem[a][l] = hram[a][l]
      BY <1>1, <1>2, <1>5, <1>9, <2>1 DEF WritesInOrder
    <3>1. \A i \in 1 .. n : ~Touches(requests[i], a, l)
      BY <1>9, <2>1 DEF Touches
    <3> QED
      BY <3>1 DEF PathIInv, WritesInOrder
  <2> QED
    BY <1>3, <1>7, <2>6, <2>7, <2>8 DEF PathIInv
<1>10. CASE r.write
  <2>1. ReadWaits' <=> ReadWaits
    <3>1. ReadWaits => n > 1
      BY <1>5, <1>10 DEF ReadWaits
    <3>2. n > 1 => requests'[Len(requests')] = requests[n]
      <4>1. n > 1 => n - 1 \in 1 .. n - 1 /\ (n - 1) + 1 = n
        BY <1>5
      <4> QED
        BY <1>5, <4>1
    <3> QED
      BY <1>1, <1>5, <3>1, <3>2 DEF ReadWaits
  <2>2. ReadWaits => requests'[Len(requests')] = requests[n]
    <3>1. ReadWaits => n - 1 \in 1 .. n - 1 /\ (n - 1) + 1 = n
      BY <1>5, <1>10 DEF ReadWaits
    <3> QED
      BY <1>5, <3>1
  <2>3. Coming' = Coming
    BY <1>1, <1>10, <2>1, <2>2 DEF Coming
  <2>4. ReadShape'
    <3>1. ASSUME NEW i \in 1 .. n - 1, i < n - 1 PROVE requests'[i].write
      <4>1. i + 1 \in 1 .. n /\ i + 1 < n
        BY <1>5, <3>1
      <4> QED
        BY <1>5, <1>8, <4>1
    <3>2. ReadWaits => /\ burst.left = 0 /\ answers = <<>>
                       /\ requests[n].a = next /\ requests[n].beats > 0
      BY DEF PathIInv, ReadShape
    <3>3. ~(burst'.left > 0)
      BY <1>1, <1>10
    <3>4. \A i \in 1 .. Len(requests') : i < Len(requests') => requests'[i].write
      BY <1>5, <3>1
    <3>5. ReadWaits' => /\ burst'.left = 0 /\ answers' = <<>>
                        /\ requests'[Len(requests')].a = next'
                        /\ requests'[Len(requests')].beats > 0
      BY <1>1, <1>2, <1>10, <2>1, <2>2, <3>2
    <3> QED
      BY <3>3, <3>4, <3>5 DEF ReadShape
  <2>5. InOrder'
    BY <1>1, <1>2, <2>3 DEF PathIInv, InOrder
  <2>6. WritesInOrder'
    <3> SUFFICES ASSUME NEW a \in MemAddr, NEW l \in Lane
                 PROVE  \/ /\ \A j \in 1 .. n - 1 : ~Touches(requests'[j], a, l)
                           /\ mem[a][l] = hram'[a][l]
                        \/ \E i \in 1 .. n - 1 :
                             /\ Touches(requests'[i], a, l)
                             /\ \A j \in i + 1 .. n - 1 : ~Touches(requests'[j], a, l)
                             /\ mem[a][l] = requests'[i].w[l]
      BY <1>2, <1>5 DEF WritesInOrder, Touches
    <3>1. hram'[a][l] = IF Touches(r, a, l) THEN r.w[l] ELSE hram[a][l]
      BY <1>1, <1>4, <1>6, <1>10 DEF Touches, Merge
    <3>2. ASSUME NEW i \in Nat, \A j \in i + 2 .. n : ~Touches(requests[j], a, l)
          PROVE  \A j \in i + 1 .. n - 1 : ~Touches(requests'[j], a, l)
      <4> SUFFICES ASSUME NEW j \in i + 1 .. n - 1 PROVE ~Touches(requests'[j], a, l)
        OBVIOUS
      <4>1. j \in 1 .. n - 1 /\ j + 1 \in i + 2 .. n
        BY <1>5
      <4> QED
        BY <1>5, <3>2, <4>1
    <3>3. CASE /\ \A j \in 0 + 1 .. n : ~Touches(requests[j], a, l)
               /\ mem[a][l] = hram[a][l]
      <4>1. ~Touches(r, a, l) /\ \A j \in 0 + 2 .. n : ~Touches(requests[j], a, l)
        BY <1>5, <3>3
      <4>2. \A j \in 0 + 1 .. n - 1 : ~Touches(requests'[j], a, l)
        BY <3>2, <4>1
      <4> QED
        BY <3>1, <3>3, <4>1, <4>2
    <3>4. CASE \E i \in 1 .. n :
                 /\ Touches(requests[i], a, l)
                 /\ \A j \in i + 1 .. n : ~Touches(requests[j], a, l)
                 /\ mem[a][l] = requests[i].w[l]
      <4>1. PICK i \in 1 .. n :
                 /\ Touches(requests[i], a, l)
                 /\ \A j \in i + 1 .. n : ~Touches(requests[j], a, l)
                 /\ mem[a][l] = requests[i].w[l]
        BY <3>4
      <4>2. i - 1 \in Nat /\ (i - 1) + 2 = i + 1 /\ (i - 1) + 1 = i
        BY <1>5
      <4>3. \A j \in (i - 1) + 1 .. n - 1 : ~Touches(requests'[j], a, l)
        BY <3>2, <4>1, <4>2
      <4>4. CASE i = 1
        BY <3>1, <4>1, <4>3, <4>4
      <4>5. CASE i # 1
        <5>1. i - 1 \in 1 .. n - 1 /\ requests'[i - 1] = requests[i]
          BY <1>5, <4>2, <4>5
        <5> QED
          BY <4>1, <4>3, <5>1
      <4> QED
        BY <4>4, <4>5
    <3> QED
      BY <3>3, <3>4 DEF PathIInv, WritesInOrder
  <2> QED
    BY <1>3, <1>7, <2>4, <2>5, <2>6 DEF PathIInv
<1> QED
  BY <1>9, <1>10

(* The HyperRAM sends a word, for which there is room.                       *)
LEMMA SendsStep ==
  ASSUME PathIInv, SendsWord
  PROVE  PathIInv'
<1> DEFINE n == Len(answers)
           w == hram[burst.next]
<1>1. /\ burst.left > 0 /\ UNCHANGED <<vars, hram, requests>>
      /\ answers' = IF n < RdDepth THEN Append(answers, w) ELSE answers
      /\ burst' = [left |-> burst.left - 1, next |-> burst.next + 1]
  BY DEF SendsWord, Fifo!MasterAnswers
<1>2. UNCHANGED <<mem, left, next>>
  BY <1>1 DEF vars, memVars
<1>3. IInv'
  BY <1>1 DEF PathIInv, IInv, TypeOK, LineCoherent, FillShape, ClientShape, Stored,
              vars, clientVars, lineVars, mRequest, memVars
<1>4. /\ answers \in Seq(Word) /\ n \in Nat
      /\ hram \in [MemAddr -> Word] /\ burst \in [left : 0 .. Line, next : Nat]
      /\ mem \in [MemAddr -> Word] /\ next \in Nat /\ left \in 0 .. Line
      /\ Line \in Nat /\ RdDepth \in Nat
  BY Sizes, PathAssumption DEF PathIInv, PathTypeOK, IInv, TypeOK
<1>5. requests = <<>> /\ requests' = <<>> /\ burst.next = next + n
  BY <1>1 DEF PathIInv, ReadShape
<1>6. ~ReadWaits /\ ~ReadWaits' /\ Coming = burst.left /\ Coming' = burst.left - 1
  BY <1>1, <1>4, <1>5 DEF ReadWaits, Coming
<1>7. /\ left = n + burst.left /\ n + burst.left <= RdDepth
      /\ \A i \in 1 .. n : answers[i] = mem[next + i - 1]
  BY <1>6 DEF PathIInv, InOrder
<1>8. burst.next \in MemAddr
  <2>1. left > 0 /\ n \in 0 .. left - 1
    BY <1>1, <1>4, <1>7
  <2> QED
    BY <1>5, <2>1, DueInRange DEF PathIInv
<1>9. w = mem[burst.next] /\ w \in Word
  <2>1. \A l \in Lane : mem[burst.next][l] = hram[burst.next][l]
    <3>1. Len(requests) = 0
      BY <1>5
    <3> QED
      BY <1>8, <3>1 DEF PathIInv, WritesInOrder
  <2>2. mem[burst.next] \in [Lane -> Byte] /\ hram[burst.next] \in [Lane -> Byte]
    BY <1>4, <1>8 DEF Word
  <2> QED
    BY <2>1, <2>2 DEF Word
<1>10. answers' = Append(answers, w)
  BY <1>1, <1>4, <1>7
<1>11. /\ answers' \in Seq(Word) /\ Len(answers') = n + 1
       /\ \A i \in 1 .. n : answers'[i] = answers[i]
       /\ answers'[n + 1] = w
  BY <1>4, <1>9, <1>10, AppendProperties
<1>12. burst'.left = burst.left - 1 /\ burst'.next = burst.next + 1
  BY <1>1
<1>13. PathTypeOK'
  <2>1. burst' \in [left : 0 .. Line, next : Nat]
    BY <1>1, <1>4
  <2>2. requests \in Seq(Request)
    BY DEF PathIInv, PathTypeOK
  <2> QED
    BY <1>1, <1>4, <1>11, <2>1, <2>2 DEF PathTypeOK
<1>14. ReadShape'
  <2>1. burst'.next = next' + Len(answers')
    BY <1>2, <1>4, <1>5, <1>11, <1>12
  <2>2. Len(requests') = 0
    BY <1>5
  <2> QED
    BY <1>5, <1>6, <2>1, <2>2 DEF ReadShape
<1>15. InOrder'
  <2>1. left' = Len(answers') + Coming' /\ Len(answers') + Coming' <= RdDepth
    <3>1. burst.left \in Nat
      BY <1>4
    <3>2. Len(answers') + Coming' = n + burst.left
      BY <1>4, <1>6, <1>11, <3>1
    <3> QED
      BY <1>2, <1>7, <3>2
  <2>2. ASSUME NEW i \in 1 .. n + 1
        PROVE  answers'[i] = mem[next + i - 1]
    <3>1. CASE i \in 1 .. n
      BY <1>7, <1>11, <3>1
    <3>2. CASE i = n + 1
      <4>1. next + i - 1 = burst.next
        BY <1>4, <1>5, <3>2
      <4> QED
        BY <1>9, <1>11, <3>2, <4>1
    <3> QED
      BY <1>4, <3>1, <3>2
  <2> QED
    BY <1>2, <1>11, <2>1, <2>2 DEF InOrder
<1>16. WritesInOrder'
  BY <1>1, <1>2 DEF PathIInv, WritesInOrder
<1> QED
  BY <1>3, <1>13, <1>14, <1>15, <1>16 DEF PathIInv

(* Empty FIFOs, and the HyperRAM as it is.                                   *)
LEMMA PathInitHolds == PathInit => PathIInv
<1> SUFFICES ASSUME PathInit PROVE PathIInv
  OBVIOUS
<1>1. /\ IInv /\ requests = <<>> /\ answers = <<>> /\ hram = mem
      /\ burst = [left |-> 0, next |-> 0] /\ left = 0
  BY InitIInv DEF PathInit, Init, Fifo!Init, NoBurst
<1>2. /\ ~ReadWaits /\ Coming = 0 /\ Len(requests) = 0 /\ Len(answers) = 0
      /\ burst.left = 0
  BY <1>1 DEF ReadWaits, Coming
<1>3. PathTypeOK
  <2>1. mem \in [MemAddr -> Word] /\ 0 \in 0 .. Line
    BY <1>1, Sizes DEF IInv, TypeOK
  <2>2. requests \in Seq(Request) /\ answers \in Seq(Word)
    BY <1>1, EmptySeq
  <2> QED
    BY <1>1, <2>1, <2>2 DEF PathTypeOK
<1>4. InOrder
  BY <1>1, <1>2, PathAssumption DEF InOrder
<1>5. ReadShape /\ WritesInOrder
  BY <1>1, <1>2 DEF ReadShape, WritesInOrder
<1> QED
  BY <1>1, <1>3, <1>4, <1>5 DEF PathIInv

(* What has not changed holds as before.                                     *)
LEMMA PathStutter ==
  ASSUME PathIInv, IInv', UNCHANGED <<requests, answers, mem, left, next, hram, burst>>
  PROVE  PathIInv'
<1>1. PathTypeOK'
  BY DEF PathIInv, PathTypeOK
<1>2. WritesInOrder'
  BY DEF PathIInv, WritesInOrder, Touches
<1>3. ReadWaits' = ReadWaits /\ Coming' = Coming
  BY DEF ReadWaits, Coming
<1>4. ReadShape'
  BY <1>3 DEF PathIInv, ReadShape
<1>5. InOrder'
  BY <1>3 DEF PathIInv, InOrder
<1> QED
  BY <1>1, <1>2, <1>4, <1>5 DEF PathIInv

(* Every step keeps the invariant, and is one of the cache or of none of it. *)
LEMMA PathStepHolds ==
  ASSUME PathIInv, [PathNext]_pathVars
  PROVE  PathIInv' /\ [Next]_vars
<1>1. ASSUME NEW turn \in BOOLEAN, NEW shown \in BOOLEAN, CoreEdge(turn, shown)
      PROVE  PathIInv' /\ Next
  <2>1. PICK wait \in BOOLEAN : Clock(wait, shown)
    BY <1>1, CoreCases
  <2>2. IInv'
    BY <2>1, StepTypeOK, StepLineCoherent, StepFillShape, StepClientShape DEF PathIInv, IInv
  <2>3. UNCHANGED <<requests, answers, mem, left, next, hram, burst>> => PathIInv'
    BY <2>2, PathStutter
  <2>4. PathIInv'
    BY <1>1, <2>2, <2>3, CoreCases, AsksStep, WordStep
  <2> QED
    BY <2>1, <2>4 DEF Next
<1>2. CASE TakesRequest
  BY <1>2, TakesStep DEF TakesRequest
<1>3. CASE SendsWord
  BY <1>3, SendsStep DEF SendsWord
<1>4. CASE UNCHANGED pathVars
  <2>1. UNCHANGED vars /\ UNCHANGED <<requests, answers, hram, burst>>
    BY <1>4 DEF pathVars, Fifo!vars
  <2>2. IInv'
    BY <2>1 DEF PathIInv, IInv, TypeOK, LineCoherent, FillShape, ClientShape, Stored,
                vars, clientVars, lineVars, mRequest, memVars
  <2>3. UNCHANGED <<mem, left, next>>
    BY <2>1 DEF vars, memVars
  <2> QED
    BY <2>1, <2>2, <2>3, PathStutter
<1> QED
  BY <1>1, <1>2, <1>3, <1>4 DEF PathNext

(* The FIFOs, the arbiter's turns and the HyperRAM.                          *)
THEOREM PathInductive == PathSpec => []PathIInv
  BY PathInitHolds, PathStepHolds, PTL DEF PathSpec

(* No word is lost, doubled or out of order on its way back, and the FIFO    *)
(* that cannot refuse one always has room, if it holds a line.               *)
THEOREM WordsInOrder == PathSpec => []InOrder
<1>1. PathIInv => InOrder
  BY DEF PathIInv
<1> QED
  BY <1>1, PathInductive, PTL

(* FIFO, arbiter and HyperRAM are the memory that the cache needs.           *)
THEOREM PathImplementsCache == PathSpec => CacheSpec
<1>1. PathInit => Init
  BY DEF PathInit
<1> QED
  BY <1>1, PathStepHolds, PathInductive, PTL DEF PathSpec, CacheSpec, Spec

(* And nobody in front of the path waits for anything but the HyperRAM, the   *)
(* FIFOs and the arbiter's turns.                                           *)
THEOREM PathIsAllItWaitsFor == PathSpec => WaitsForMemoryOnly
  BY PathImplementsCache, MemoryIsAllItWaitsFor, PTL DEF CacheSpec

(* So the microdrive's buffer sees a plain memory through the whole path.    *)
THEOREM PathIsWordMemory == PathSpec => Implements
  BY PathImplementsCache, ImplementsWordMemory, PTL DEF CacheSpec
=============================================================================
