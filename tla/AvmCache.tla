------------------------------ MODULE AvmCache ------------------------------
(***************************************************************************)
(* The read cache of a microdrive's image buffer (M2M/vhdl/memory/          *)
(* avm_cache.vhd): one line of G_CACHE_SIZE words.  A miss refills the line  *)
(* from the address asked for and answers on the first beat; hits are       *)
(* answered from the line, also while it fills.  Reading the last word of   *)
(* the first half shifts the line by half and fetches the other half.       *)
(* Writes go through and update the line.                                   *)
(*                                                                         *)
(* A step is one rising edge: p_fsm, the client in front (WordMemory's) and *)
(* the memory behind (arbiter, FIFO and HyperRAM: they accept when they     *)
(* like, and deliver a burst's words in order, when they like).  wait and   *)
(* valid are m_avm_waitrequest_i and m_avm_readdatavalid_i in the cycle     *)
(* before the edge.  Addresses do not wrap: the window of a drive is far    *)
(* from the end of the 2^32 words.                                         *)
(***************************************************************************)
EXTENDS Integers

CONSTANTS
  LastAddr,    (* the client's addresses are 0 .. LastAddr                  *)
  NoAddr,
  Line,        (* G_CACHE_SIZE (8)                                          *)
  Lane,        (* byte lanes of a word                                      *)
  Byte,        (* what a byte lane may hold                                 *)
  Content,     (* what the memory holds at first                            *)
  WriteData,   (* words the client writes                                   *)
  MaxWrites    (* bound: writes of the client                               *)

Addr    == 0 .. LastAddr
MemAddr == 0 .. LastAddr + Line   \* prefetches run past the client's words
Word    == [Lane -> Byte]

ASSUME ConstantsAssumption ==
  /\ LastAddr \in Nat
  /\ NoAddr \notin Addr
  /\ Line \in Nat /\ Line > 0 /\ Line % 2 = 0
  /\ 0 \in Byte
  /\ Content \in [MemAddr -> Word]
  /\ WriteData \subseteq Word
  /\ MaxWrites \in Nat

VARIABLES
  (* the client                                                             *)
  s_write, s_read, s_address, s_writedata, s_byteenable, asked, writesLeft,
  (* registers of avm_cache                                                 *)
  state, cache_data, cache_addr, cache_count, rd_burstcount,
  m_write, m_read, m_address, m_writedata, m_byteenable, m_burstcount,
  s_readdatavalid, s_readdata,
  (* the memory behind it: words, beats it owes, address of the next        *)
  mem, left, next

clientVars == <<s_write, s_read, s_address, s_writedata, s_byteenable, asked, writesLeft>>
mRequest   == <<m_address, m_writedata, m_byteenable, m_burstcount>>
lineVars   == <<cache_data, cache_addr, cache_count, rd_burstcount>>
memVars    == <<mem, left, next>>
vars       == <<clientVars, state, lineVars, m_write, m_read, mRequest,
                s_readdatavalid, s_readdata, memVars>>

Merge(w, v, be) == [l \in Lane |-> IF l \in be THEN v[l] ELSE w[l]]

(* The words as the client is to see them: a write the memory has not       *)
(* accepted yet is done.                                                   *)
Stored == IF m_write THEN [mem EXCEPT ![m_address] = Merge(@, m_writedata, m_byteenable)]
                     ELSE mem

Promise == INSTANCE WordMemory WITH words <- [a \in Addr |-> Stored[a]]

Zero   == [l \in Lane |-> 0]
Half   == Line \div 2
offset == s_address - cache_addr

Init ==
  /\ Promise!ClientInit
  /\ state = "IDLE_ST"
  /\ cache_data = [i \in 0 .. Line - 1 |-> Zero]
  /\ cache_addr = 0 /\ cache_count = 0 /\ rd_burstcount = 0
  /\ m_write = FALSE /\ m_read = FALSE
  /\ m_address = 0 /\ m_writedata = Zero /\ m_byteenable = Lane
  /\ m_burstcount = 0
  /\ s_readdatavalid = FALSE /\ s_readdata = Zero
  /\ mem = Content
  /\ left = 0 /\ next = 0

-----------------------------------------------------------------------------
(* The combinational signals.                                              *)

InLine == offset \in 0 .. cache_count - 1

cache_filled_s(valid) == state = "READING_ST" /\ valid /\ cache_count = Line - 1

(* Seeded fault: the next word of a fill is taken for there already.         *)
HitUnarrived(valid) ==
  s_read /\ (InLine \/ (offset = cache_count /\ state = "READING_ST"))

cache_rd_hit_s(valid) ==
  s_read /\ (InLine \/ (offset = cache_count /\ cache_count < Line /\ valid))

cache_wr_hit_s == s_write /\ InLine

(* While the line fills, writes wait, and reads wait for their word or the   *)
(* end of the fill.                                                        *)
s_waitrequest(wait, valid) ==
  IF state = "IDLE_ST"
    THEN wait /\ (m_write \/ m_read)
    ELSE \/ s_write
         \/ ~cache_rd_hit_s(valid) /\ ~(cache_filled_s(valid) /\ rd_burstcount = 0)

-----------------------------------------------------------------------------
(* p_fsm.                                                                  *)

m_readdata(valid) == IF valid THEN mem[next] ELSE Zero

NoAnswer   == s_readdatavalid' = FALSE /\ s_readdata' = Zero
Respond(w) == s_readdatavalid' = TRUE /\ s_readdata' = w

Fetch(addr, beats) ==
  /\ m_write' = FALSE /\ m_read' = TRUE
  /\ m_address' = addr /\ m_burstcount' = beats
  /\ state' = "READING_ST"
  /\ UNCHANGED <<m_writedata, m_byteenable>>

(* The memory accepts what it is asked; nothing else is asked.              *)
Withdraw(wait) ==
  /\ m_write' = (m_write /\ wait) /\ m_read' = (m_read /\ wait)
  /\ UNCHANGED mRequest

Miss ==
  /\ Fetch(s_address, Line)
  /\ cache_addr' = s_address
  /\ cache_count' = 0
  /\ rd_burstcount' = 1

(* IDLE_ST: a write goes on to the memory, and into the line.               *)
IdleWrite ==
  /\ s_write
  /\ m_write' = TRUE /\ m_read' = FALSE
  /\ m_address' = s_address /\ m_writedata' = s_writedata
  /\ m_byteenable' = s_byteenable /\ m_burstcount' = 1
  /\ cache_data' = IF cache_wr_hit_s
                     THEN [cache_data EXCEPT ![offset] = Merge(@, s_writedata, s_byteenable)]
                     ELSE cache_data
  /\ NoAnswer
  /\ UNCHANGED <<state, cache_addr, cache_count, rd_burstcount>>

(* IDLE_ST: a read from the line; at the end of the first half the line      *)
(* moves on by half.                                                       *)
IdleHit(wait) ==
  /\ cache_rd_hit_s(FALSE)
  /\ Respond(cache_data[offset])
  /\ \/ /\ offset = Half - 1
        /\ Fetch(cache_addr + Line, Half)
        /\ cache_data' = [i \in 0 .. Line - 1 |->
                            IF i < Half THEN cache_data[i + Half] ELSE cache_data[i]]
        /\ cache_addr' = cache_addr + Half
        /\ cache_count' = Half
        /\ rd_burstcount' = 0
     \/ /\ offset # Half - 1
        /\ Withdraw(wait)
        /\ UNCHANGED <<state, lineVars>>

IdleMiss ==
  /\ s_read /\ ~cache_rd_hit_s(FALSE)
  /\ Miss
  /\ NoAnswer
  /\ UNCHANGED cache_data

Idle(wait) ==
  /\ state = "IDLE_ST"
  /\ \/ ~s_waitrequest(wait, FALSE) /\ (IdleWrite \/ IdleHit(wait) \/ IdleMiss)
     \/ /\ s_waitrequest(wait, FALSE) \/ ~(s_write \/ s_read)
        /\ Withdraw(wait)
        /\ NoAnswer
        /\ UNCHANGED <<state, lineVars>>

(* READING_ST: a hit is answered, from the line or with the word that        *)
(* arrives; else the first word answers the miss.                           *)
ReadingAnswer(wait, valid) ==
  IF cache_rd_hit_s(valid) /\ ~s_waitrequest(wait, valid)
    THEN Respond(IF offset = cache_count THEN m_readdata(valid) ELSE cache_data[offset])
    ELSE IF valid /\ rd_burstcount # 0 THEN Respond(m_readdata(valid)) ELSE NoAnswer

(* A word arrives.  With the last one the line is filled, and a read that   *)
(* it does not serve starts the next fill at once.                          *)
Beat(wait) ==
  /\ cache_data' = [cache_data EXCEPT ![cache_count] = m_readdata(TRUE)]
  /\ \/ /\ cache_count = Line - 1
        /\ s_read /\ ~s_waitrequest(wait, TRUE) /\ ~cache_rd_hit_s(TRUE)
        /\ Miss
     \/ /\ cache_count = Line - 1
        /\ ~(s_read /\ ~s_waitrequest(wait, TRUE) /\ ~cache_rd_hit_s(TRUE))
        /\ state' = "IDLE_ST"
        /\ cache_count' = Line
        /\ rd_burstcount' = 0
        /\ Withdraw(wait)
        /\ UNCHANGED cache_addr
     \/ /\ cache_count < Line - 1
        /\ cache_count' = cache_count + 1
        /\ rd_burstcount' = 0
        /\ Withdraw(wait)
        /\ UNCHANGED <<state, cache_addr>>

Reading(wait, valid) ==
  /\ state = "READING_ST"
  /\ ReadingAnswer(wait, valid)
  /\ \/ valid /\ Beat(wait)
     \/ ~valid /\ Withdraw(wait) /\ UNCHANGED <<state, lineVars>>

-----------------------------------------------------------------------------
(* The memory behind the cache: what it was asked and has delivered.        *)
Ledger(wait, valid) ==
  /\ mem' = IF ~wait THEN Stored ELSE mem
  /\ \/ /\ m_read /\ ~wait
        /\ left' = m_burstcount /\ next' = m_address
     \/ /\ ~(m_read /\ ~wait) /\ valid
        /\ left' = left - 1 /\ next' = next + 1
     \/ /\ ~(m_read /\ ~wait) /\ ~valid
        /\ UNCHANGED <<left, next>>

Memory(wait, valid) ==
  /\ wait => m_write \/ m_read
  /\ valid => left > 0
  /\ Ledger(wait, valid)

Clock(wait, valid) ==
  /\ Memory(wait, valid)
  /\ Idle(wait) \/ Reading(wait, valid)
  /\ Promise!Client(~s_waitrequest(wait, valid))

Next == \E wait, valid \in BOOLEAN : Clock(wait, valid)

Spec == Init /\ [][Next]_vars

(* The clock runs, and the memory accepts and delivers in the end.          *)
Accepting  == (m_write \/ m_read) /\ \E valid \in BOOLEAN : Clock(FALSE, valid)
Delivering == \E wait \in BOOLEAN : Clock(wait, TRUE)

FairSpec ==
  Spec /\ WF_vars(Next) /\ WF_vars(Accepting) /\ WF_vars(Delivering)

-----------------------------------------------------------------------------
(* Properties.                                                             *)

\* The type of every register, of the client and of the memory.
TypeOK ==
  /\ s_write \in BOOLEAN /\ s_read \in BOOLEAN /\ s_address \in Addr
  /\ s_writedata \in Word /\ s_byteenable \in SUBSET Lane
  /\ asked \in Addr \union {NoAddr} /\ writesLeft \in 0 .. MaxWrites
  /\ state \in {"IDLE_ST", "READING_ST"}
  /\ cache_data \in [0 .. Line - 1 -> Word]
  /\ cache_addr \in 0 .. LastAddr + 1 /\ cache_count \in 0 .. Line
  /\ rd_burstcount \in {0, 1}
  /\ m_write \in BOOLEAN /\ m_read \in BOOLEAN /\ m_address \in MemAddr
  /\ m_writedata \in Word /\ m_byteenable \in SUBSET Lane
  /\ m_burstcount \in 0 .. Line
  /\ s_readdatavalid \in BOOLEAN /\ s_readdata \in Word
  /\ mem \in [MemAddr -> Word] /\ left \in 0 .. Line /\ next \in Nat

\* avm_cache is the memory of words it stands in for: whatever is in the line,
\* on its way into it or still to be written, a read is answered once, with
\* what was last written at its address.
Implements == Promise!Spec

\* Every read is answered and every write accepted, also when they come in the
\* middle of a prefetch nobody waits for.
Served == (s_read ~> s_readdatavalid) /\ (s_write ~> ~s_write)

(* The memory keeps the cache waiting: it does not accept what it is asked,  *)
(* or it has no word of the fill yet.                                       *)
Kept(wait, valid) == IF m_write \/ m_read THEN wait
                                          ELSE state = "READING_ST" /\ ~valid

(* What the memory still does for the fill under way: accept, and send.      *)
ToFill == IF m_read THEN 1 + m_burstcount ELSE left

(* The clocks until the client is served, but for those the cache is kept    *)
(* waiting.  A read may wait for its word in the fill under way, or for the  *)
(* end of that fill and its own.                                            *)
ToServe ==
  IF asked # NoAddr THEN IF m_read THEN 2 ELSE 1
  ELSE IF state = "IDLE_ST" THEN IF s_write \/ InLine THEN 1 ELSE 3
  ELSE IF s_write THEN ToFill + 1
  ELSE IF InLine THEN 1
  ELSE IF offset \in 0 .. Line - 1 THEN (IF m_read THEN 2 ELSE 1) + (offset - cache_count)
  ELSE ToFill + 2

\* Nobody waits in vain: each clock that the memory accepts or sends something
\* is one less for the client, and a fill it does not need costs it Line + 1.
WaitsForMemoryOnly ==
  [][\A wait, valid \in BOOLEAN :
       LET waits == \/ s_write /\ s_waitrequest(wait, valid)
                    \/ (s_read \/ asked # NoAddr) /\ ~s_readdatavalid'
       IN Clock(wait, valid) /\ waits =>
            /\ ToServe \in 1 .. Line + 3 /\ ToServe' \in 1 .. ToServe
            /\ Kept(wait, valid) \/ ToServe' < ToServe]_vars

(* The valid part of the line is what the client is to see there.           *)
LineCoherent ==
  \A i \in 0 .. Line - 1 : i < cache_count => cache_data[i] = Stored[cache_addr + i]

(* What is on its way is what the line lacks, in order.                     *)
FillShape ==
  /\ state = "IDLE_ST" => /\ ~m_read /\ left = 0 /\ rd_burstcount = 0
                          /\ cache_count \in {0, Line}
  /\ state = "READING_ST" =>
       /\ ~m_write
       /\ cache_count < Line
       /\ m_read => /\ left = 0 /\ m_address = cache_addr + cache_count
                    /\ cache_count + m_burstcount = Line
       /\ ~m_read => next = cache_addr + cache_count /\ cache_count + left = Line
  /\ m_write => m_address \in Addr

(* The client waits for the first word of a fill, or for nothing.           *)
ClientShape ==
  /\ asked = IF rd_burstcount = 0 THEN NoAddr ELSE cache_addr
  /\ rd_burstcount # 0 => state = "READING_ST" /\ cache_count = 0 /\ cache_addr \in Addr
  /\ asked # NoAddr => ~s_write /\ ~s_read
  /\ ~(s_write /\ s_read)

\* The inductive invariant behind Implements.
IInv == TypeOK /\ LineCoherent /\ FillShape /\ ClientShape
=============================================================================
