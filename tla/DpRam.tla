-------------------------------- MODULE DpRam --------------------------------
(***************************************************************************)
(* The image buffer of a microdrive (CORE/vhdl/mdv_dpram.vhd, entity       *)
(* dpram): what used to be a dual-port block RAM is a window of HyperRAM    *)
(* behind one shared avm_cache.  Port A takes writes into a one-deep latch  *)
(* and, once its address has settled, reads; port B reads whenever its      *)
(* address moves or a refresh period ends.  An arbiter feeds the cache one  *)
(* request at a time: write, then port A's read, then port B's.             *)
(*                                                                         *)
(* A step is one rising edge of the common clock: p_track (PortA, PortB),   *)
(* req_track and p_arbiter (Arbiter) all read the old registers and inputs. *)
(* avm_cache and the HyperRAM behind it answer at any time up to            *)
(* MaxLatency cycles (Memory); the ports' masters set the next inputs       *)
(* (Masters).  The model begins after the power-on reset.                   *)
(***************************************************************************)
EXTENDS Naturals

CONSTANTS
  Addr,          (* word addresses                                          *)
  NoAddr,        (* an address nobody uses: what a_hold_addr starts with    *)
  Content,       (* what HyperRAM holds when the model begins               *)
  Settle,        (* C_A_SETTLE_CYCLES (8)                                   *)
  Refresh,       (* C_REFRESH_PERIOD (2000)                                 *)
  MaxLatency,    (* most cycles a request spends in the cache               *)
  MaxWrites,     (* bound: writes of port A                                 *)
  MaxMoves,      (* bound: address changes of each port                     *)
  MaxForgets     (* bound: reads the path below the cache forgets           *)

ASSUME ConstantsAssumption ==
  /\ NoAddr \notin Addr
  /\ Content \in [Addr -> Nat]
  /\ Settle \in Nat \ {0}
  /\ Refresh \in Nat
  /\ MaxLatency \in Nat \ {0}
  /\ MaxWrites \in Nat
  /\ MaxMoves \in Nat
  /\ MaxForgets \in Nat

VARIABLES
  (* the ports' inputs                                                      *)
  wraddress, wren, data, rdaddress,
  (* port A's write latch, read tracker and output register                 *)
  a_pend_write, a_pend_addr, a_pend_data,
  a_addr_prev, a_settle_cnt, a_settled, a_pend_read, a_pend_read_addr,
  a_hold_q, a_hold_addr,
  (* port B's read tracker and output register                              *)
  b_addr_prev, b_refresh_cnt, b_pend_read, b_pend_read_addr, b_hold_q,
  (* the arbiter and the request it drives                                  *)
  owner, req_is_write, s_write, s_read, s_address, s_writedata,
  (* avm_cache and HyperRAM: content, the read it has taken in (an address  *)
  (* or NoAddr), its response in this cycle, cycles spent on the request    *)
  mem, taken, s_readdatavalid, s_readdata, age,
  (* inputs still allowed (the bounds), and history: the last value written *)
  (* to each word, the words whose write the latch overflow dropped, and     *)
  (* whether port A rests at an address written while it read another one    *)
  writesLeft, movesLeft, forgetsLeft, want, lost, stranded

inVars  == <<wraddress, wren, data, rdaddress, writesLeft, movesLeft>>
latch   == <<a_pend_write, a_pend_addr, a_pend_data>>
aVars   == <<latch, a_addr_prev, a_settle_cnt, a_settled, a_pend_read,
             a_pend_read_addr, a_hold_q, a_hold_addr>>
bVars   == <<b_addr_prev, b_refresh_cnt, b_pend_read, b_pend_read_addr>>
arbVars == <<owner, req_is_write, s_write, s_read, s_address, s_writedata>>
memVars == <<mem, taken, s_readdatavalid, s_readdata, age, forgetsLeft>>
vars    == <<inVars, aVars, bVars, b_hold_q, arbVars, memVars, want, lost, stranded>>

Owners == {"NONE", "PORT_A", "PORT_B"}
q_a_valid_o == a_hold_addr = wraddress

(* Port A's read is waiting, or its data may still come.                    *)
ReadUnderWay == a_pend_read \/ (owner = "PORT_A" /\ ~req_is_write)

-----------------------------------------------------------------------------
Init ==
  /\ wraddress \in Addr /\ rdaddress \in Addr
  /\ wren = FALSE /\ data = 0
  /\ a_pend_write = FALSE /\ a_pend_addr = wraddress /\ a_pend_data = 0
  /\ a_addr_prev = wraddress /\ a_settle_cnt = 0 /\ a_settled = FALSE
  /\ a_pend_read = FALSE /\ a_pend_read_addr = wraddress
  /\ a_hold_q = 0 /\ a_hold_addr = NoAddr
  /\ b_addr_prev = rdaddress /\ b_refresh_cnt = 0
  /\ b_pend_read = FALSE /\ b_pend_read_addr = rdaddress /\ b_hold_q = 0
  /\ owner = "NONE" /\ req_is_write = FALSE
  /\ s_write = FALSE /\ s_read = FALSE
  /\ s_address = wraddress /\ s_writedata = 0
  /\ mem = Content
  /\ taken = NoAddr /\ s_readdatavalid = FALSE /\ s_readdata = 0 /\ age = 0
  /\ writesLeft = MaxWrites /\ movesLeft = [p \in {"A", "B"} |-> MaxMoves]
  /\ forgetsLeft = MaxForgets
  /\ want = mem
  /\ lost = {}
  /\ stranded = FALSE

-----------------------------------------------------------------------------
(* p_track, port A.                                                        *)

(* Seeded fault: the clear wins over a write that arrives with it.          *)
WriteLatchClearWins(wait) ==
  LET accepted == owner = "PORT_A" /\ s_write /\ ~wait IN
  /\ a_pend_write' = ((wren \/ a_pend_write) /\ ~accepted)
  /\ a_pend_addr' = IF wren THEN wraddress ELSE a_pend_addr
  /\ a_pend_data' = IF wren THEN data ELSE a_pend_data

(* A write is latched; the latch is cleared when the cache accepts the      *)
(* write it was dispatched to, unless a new one arrives in that cycle.      *)
WriteLatch(wait) ==
  IF wren
    THEN /\ a_pend_write' = TRUE
         /\ a_pend_addr' = wraddress
         /\ a_pend_data' = data
    ELSE /\ a_pend_write' = (a_pend_write /\ ~(owner = "PORT_A" /\ s_write /\ ~wait))
         /\ UNCHANGED <<a_pend_addr, a_pend_data>>

(* The read is armed when the address was stable, and not written to, for   *)
(* Settle cycles.                                                          *)
SettleExpires ==
  /\ ~wren /\ wraddress = a_addr_prev
  /\ ~a_settled /\ a_settle_cnt = Settle - 1

(* Seeded fault: a moved address counts as settled, as a written one does.   *)
ReadTrackerAlwaysSettled(wait) ==
  /\ a_addr_prev' = wraddress
  /\ a_settle_cnt' = 0 /\ a_settled' = TRUE
  /\ a_pend_read' = (a_pend_read /\ ~(owner = "PORT_A" /\ s_read /\ ~wait /\ ~a_pend_write))
  /\ UNCHANGED a_pend_read_addr

ReadTracker(wait) ==
  /\ a_addr_prev' = wraddress
  /\ \/ /\ wren \/ wraddress # a_addr_prev
        /\ a_settle_cnt' = 0
        /\ a_settled' = wren
     \/ /\ ~wren /\ wraddress = a_addr_prev
        /\ a_settled' = (a_settled \/ SettleExpires)
        /\ a_settle_cnt' = IF a_settled \/ SettleExpires THEN a_settle_cnt
                                                         ELSE a_settle_cnt + 1
  /\ a_pend_read_addr' = IF SettleExpires THEN wraddress ELSE a_pend_read_addr
  /\ a_pend_read' =
       /\ a_pend_read \/ SettleExpires
       /\ ~(owner = "PORT_A" /\ s_read /\ ~wait /\ ~a_pend_write)

(* Seeded fault: only a response reaches the output.                        *)
HoldAReadsOnly ==
  /\ a_hold_q' = IF owner = "PORT_A" /\ s_readdatavalid THEN s_readdata ELSE a_hold_q
  /\ a_hold_addr' = IF owner = "PORT_A" /\ s_readdatavalid THEN a_pend_read_addr ELSE a_hold_addr

(* The output takes a write at once, and a response labelled with the       *)
(* address the tracker holds in that cycle; the response comes last.        *)
HoldA ==
  \/ /\ owner = "PORT_A" /\ s_readdatavalid
     /\ a_hold_q' = s_readdata
     /\ a_hold_addr' = a_pend_read_addr
  \/ /\ ~(owner = "PORT_A" /\ s_readdatavalid)
     /\ a_hold_q' = IF wren THEN data ELSE a_hold_q
     /\ a_hold_addr' = IF wren THEN wraddress ELSE a_hold_addr

PortA(wait) == WriteLatch(wait) /\ ReadTracker(wait) /\ HoldA

(* p_track, port B.                                                        *)

(* Seeded fault: the refresh period ends and nothing is fetched.            *)
PortBNoRefresh(wait) ==
  LET fetch == rdaddress # b_addr_prev IN
  /\ b_addr_prev' = rdaddress
  /\ b_refresh_cnt' = IF fetch \/ b_refresh_cnt = Refresh THEN 0 ELSE b_refresh_cnt + 1
  /\ b_pend_read_addr' = IF fetch THEN rdaddress ELSE b_pend_read_addr
  /\ b_pend_read' = /\ b_pend_read \/ fetch
                    /\ ~(owner = "PORT_B" /\ s_read /\ ~wait)

PortB(wait) ==
  LET fetch == rdaddress # b_addr_prev \/ b_refresh_cnt = Refresh IN
  /\ b_addr_prev' = rdaddress
  /\ b_refresh_cnt' = IF fetch THEN 0 ELSE b_refresh_cnt + 1
  /\ b_pend_read_addr' = IF fetch THEN rdaddress ELSE b_pend_read_addr
  /\ b_pend_read' = /\ b_pend_read \/ fetch
                    /\ ~(owner = "PORT_B" /\ s_read /\ ~wait)

-----------------------------------------------------------------------------
(* req_track and p_arbiter.                                                *)

Request(port, write, addr, value) ==
  /\ owner' = port
  /\ req_is_write' = write
  /\ s_write' = write /\ s_read' = ~write
  /\ s_address' = addr /\ s_writedata' = value

(* NONE: dispatch the most urgent request there is.                         *)
Dispatch ==
  /\ owner = "NONE"
  /\ \/ /\ a_pend_write
        /\ Request("PORT_A", TRUE, a_pend_addr, a_pend_data)
     \/ /\ ~a_pend_write /\ a_pend_read
        /\ Request("PORT_A", FALSE, a_pend_read_addr, s_writedata)
     \/ /\ ~a_pend_write /\ ~a_pend_read /\ b_pend_read
        /\ Request("PORT_B", FALSE, b_pend_read_addr, s_writedata)
     \/ /\ ~a_pend_write /\ ~a_pend_read /\ ~b_pend_read
        /\ UNCHANGED arbVars
  /\ UNCHANGED b_hold_q

(* Seeded fault: the address of a write is not copied out of the latch.     *)
ReleaseFollowsLatch(wait) ==
  /\ owner # "NONE"
  /\ s_write' = (s_write /\ wait) /\ s_read' = (s_read /\ wait)
  /\ s_address' = IF req_is_write THEN a_pend_addr ELSE s_address
  /\ owner' = IF s_readdatavalid \/ (req_is_write /\ ~s_write /\ ~s_read)
                THEN "NONE" ELSE owner
  /\ b_hold_q' = IF owner = "PORT_B" /\ s_readdatavalid THEN s_readdata ELSE b_hold_q
  /\ UNCHANGED <<req_is_write, s_writedata>>

(* A write is over once it was accepted, a read when its data is there.     *)
Release(wait) ==
  /\ owner # "NONE"
  /\ s_write' = (s_write /\ wait)
  /\ s_read' = (s_read /\ wait)
  /\ owner' = IF s_readdatavalid \/ (req_is_write /\ ~s_write /\ ~s_read)
                THEN "NONE" ELSE owner
  /\ b_hold_q' = IF owner = "PORT_B" /\ s_readdatavalid THEN s_readdata ELSE b_hold_q
  /\ UNCHANGED <<req_is_write, s_address, s_writedata>>

Arbiter(wait) == Dispatch \/ Release(wait)

-----------------------------------------------------------------------------
(* avm_cache with the HyperRAM behind it, as its one master sees them: a    *)
(* write is done when accepted; a read is answered in a cycle after it.     *)

Respond(addr) ==
  /\ s_readdatavalid' = TRUE
  /\ s_readdata' = mem[addr]
  /\ taken' = NoAddr
  /\ age' = 0

Traffic(wait) ==
  \/ /\ ~s_write /\ ~s_read /\ taken = NoAddr
     /\ ~wait
     /\ s_readdatavalid' = FALSE
     /\ UNCHANGED <<mem, taken, s_readdata, age>>
  \/ /\ s_write \/ s_read \/ taken # NoAddr
     /\ age < MaxLatency
     /\ s_write \/ s_read => wait
     /\ ~s_write /\ ~s_read => ~wait
     /\ age' = age + 1
     /\ s_readdatavalid' = FALSE
     /\ UNCHANGED <<mem, taken, s_readdata>>
  \/ /\ s_write /\ ~wait
     /\ mem' = [mem EXCEPT ![s_address] = s_writedata]
     /\ age' = 0
     /\ s_readdatavalid' = FALSE
     /\ UNCHANGED <<taken, s_readdata>>
  \/ /\ s_read /\ ~wait
     /\ \/ Respond(s_address)
        \/ /\ age < MaxLatency
           /\ taken' = s_address
           /\ age' = age + 1
           /\ s_readdatavalid' = FALSE
           /\ UNCHANGED s_readdata
     /\ UNCHANGED mem
  \/ /\ taken # NoAddr /\ ~wait
     /\ Respond(taken)
     /\ UNCHANGED mem

(* The long reset (main_reset_m2m_i) clears i_avm_arbit_mdv and the slave    *)
(* side of i_avm_fifo_mdv1, not avm_cache nor dpram: the beats of a refill   *)
(* in flight never come.  A write still in the FIFO is dropped as well; here *)
(* an accepted write is in memory, and HyperRamPath has the rest.           *)
Forget(wait) ==
  /\ taken # NoAddr /\ ~wait
  /\ forgetsLeft > 0
  /\ forgetsLeft' = forgetsLeft - 1
  /\ taken' = NoAddr
  /\ s_readdatavalid' = FALSE
  /\ age' = 0
  /\ UNCHANGED <<mem, s_readdata>>

Memory(wait) ==
  \/ Traffic(wait) /\ UNCHANGED forgetsLeft
  \/ Forget(wait)

-----------------------------------------------------------------------------
(* The masters: the loader, the QL's writes and the read-back on port A,    *)
(* the playback on port B.                                                 *)
Masters ==
  /\ wraddress' \in Addr /\ rdaddress' \in Addr /\ wren' \in BOOLEAN
  /\ wren' => writesLeft > 0
  /\ writesLeft' = IF wren' THEN writesLeft - 1 ELSE writesLeft
  /\ data' = IF wren' THEN writesLeft ELSE data
  /\ wraddress' # wraddress => movesLeft["A"] > 0
  /\ rdaddress' # rdaddress => movesLeft["B"] > 0
  /\ movesLeft' = [movesLeft EXCEPT
       !["A"] = IF wraddress' # wraddress THEN @ - 1 ELSE @,
       !["B"] = IF rdaddress' # rdaddress THEN @ - 1 ELSE @]

(* The writes as their masters mean them.  The assertion of p_track fires   *)
(* on a write that finds the latch full: it replaces one not yet            *)
(* dispatched, or is itself cleared when that one is accepted.              *)
History(wait) ==
  /\ want' = IF wren THEN [want EXCEPT ![wraddress] = data] ELSE want
  /\ lost' =
       CASE ~wren -> lost
         [] wren /\ a_pend_write /\ (owner = "NONE" \/ (s_write /\ wait)) ->
              lost \union {wraddress}
         [] wren /\ a_pend_write /\ owner # "NONE" /\ ~s_write ->
              (lost \union {a_pend_addr}) \ {wraddress}
         [] OTHER -> lost \ {wraddress}
  /\ stranded' =
       /\ wraddress' = wraddress
       /\ stranded \/ (wren /\ ReadUnderWay /\ a_pend_read_addr # wraddress)

Clock(wait) ==
  /\ Memory(wait)
  /\ PortA(wait) /\ PortB(wait) /\ Arbiter(wait)
  /\ Masters
  /\ History(wait)

Next == \E wait \in BOOLEAN : Clock(wait)

Spec == Init /\ [][Next]_vars

(* The clock runs.                                                         *)
FairSpec == Spec /\ WF_vars(Next)

-----------------------------------------------------------------------------
(* Properties.                                                             *)

Values == Nat
Counts == [{"A", "B"} -> 0 .. MaxMoves]

\* The type of every register and input.
TypeOK ==
  /\ wraddress \in Addr /\ rdaddress \in Addr
  /\ wren \in BOOLEAN /\ data \in Values
  /\ a_pend_write \in BOOLEAN /\ a_pend_addr \in Addr /\ a_pend_data \in Values
  /\ a_addr_prev \in Addr /\ a_settle_cnt \in 0 .. Settle - 1
  /\ a_settled \in BOOLEAN
  /\ a_pend_read \in BOOLEAN /\ a_pend_read_addr \in Addr
  /\ a_hold_q \in Values /\ a_hold_addr \in Addr \union {NoAddr}
  /\ b_addr_prev \in Addr /\ b_refresh_cnt \in 0 .. Refresh
  /\ b_pend_read \in BOOLEAN /\ b_pend_read_addr \in Addr /\ b_hold_q \in Values
  /\ owner \in Owners /\ req_is_write \in BOOLEAN
  /\ s_write \in BOOLEAN /\ s_read \in BOOLEAN
  /\ s_address \in Addr /\ s_writedata \in Values
  /\ mem \in [Addr -> Values] /\ want \in [Addr -> Values]
  /\ taken \in Addr \union {NoAddr}
  /\ s_readdatavalid \in BOOLEAN /\ s_readdata \in Values
  /\ age \in 0 .. MaxLatency
  /\ writesLeft \in 0 .. MaxWrites /\ movesLeft \in Counts /\ forgetsLeft \in 0 .. MaxForgets
  /\ lost \subseteq Addr /\ stranded \in BOOLEAN

(* What the buffer will hold once the writes it has accepted are through.   *)
Settled(a) == IF a_pend_write /\ a_pend_addr = a THEN a_pend_data
              ELSE IF s_write /\ s_address = a THEN s_writedata
              ELSE mem[a]

\* No write is lost but by the overflow of the one-deep latch: neither behind
\* a read in flight, nor when a new write arrives in the very cycle the cache
\* accepts the one before it.
NoWriteLost == \A a \in Addr : a \in lost \/ want[a] = Settled(a)

\* A request the cache has not taken yet stays as it is.
RequestStable ==
  [][(s_write \/ s_read) /\ (s_write' \/ s_read') =>
        UNCHANGED <<s_write, s_read, s_address, s_writedata>>]_vars

(* Port A's read is answered in this clock; and something overtook it: a      *)
(* later address has taken its label, or a write of the word it read is in    *)
(* the latch or comes with it.                                              *)
Answered  == owner = "PORT_A" /\ s_readdatavalid
Overtaken == \/ a_pend_read_addr # s_address
             \/ a_pend_write /\ a_pend_addr = s_address
             \/ wren /\ wraddress = s_address

(* The word port A holds is the last written of the address it goes by.     *)
HeldIsRight == a_hold_addr \in Addr \ lost => a_hold_q = want[a_hold_addr]

\* Nothing but an answer that was overtaken spoils the word port A holds: a
\* write and every other answer set it right, whatever it was, and no other
\* clock makes it wrong, wherever its masters move and whatever port B does.
RightUntilOvertaken ==
  [][(IF Answered THEN ~Overtaken ELSE wren \/ HeldIsRight) => HeldIsRight']_vars

\* A response the path below forgot (then the port waits for ever).
Forgotten == forgetsLeft < MaxForgets

\* Whatever made port B's word stale, the refresh heals it.
PortBHeals == <>[](Forgotten \/ b_hold_q = mem[rdaddress])

\* Port A is answered in the end, wherever it moved while it read: q_a_valid_o
\* comes for the address it rests at, be it new, written to or the one it asked
\* for before.  (But not if that address was written while the read of another
\* one was under way: its answer leaves port A settled and not valid, with no
\* read to follow.)
PortAAnswered == <>[](stranded \/ Forgotten \/ q_a_valid_o)

(* The clocks the request under way still takes, and a dispatch with its    *)
(* request.                                                                *)
RequestLeft == IF owner = "NONE" THEN 0
               ELSE IF s_write \/ s_read \/ taken # NoAddr THEN MaxLatency - age + 2
               ELSE 1
Turn == MaxLatency + 3

(* The clocks until port A is valid: its own read, or the request it waits    *)
(* behind and a write, or first the time its address takes to settle.       *)
ToPortA ==
  IF owner = "PORT_A" /\ ~req_is_write /\ a_pend_read_addr = wraddress THEN RequestLeft
  ELSE IF a_pend_read /\ a_pend_read_addr = wraddress
  THEN RequestLeft + Turn + (IF a_pend_write /\ ~s_write THEN Turn ELSE 0)
  ELSE 3 * Turn + (IF a_addr_prev = wraddress THEN Settle - a_settle_cnt ELSE Settle + 1)

\* While its address rests, port A is valid after Settle + 3 * Turn + 1 clocks
\* at most, whatever the cache was busy with, whatever port B asks and whatever
\* read of an earlier address is still under way: each clock is one less.
PortAInTime ==
  [][LET waits == ~stranded /\ ~Forgotten /\ ~q_a_valid_o
     IN waits /\ waits' /\ UNCHANGED wraddress =>
          ToPortA \in 1 .. Settle + 3 * Turn + 1 /\ ToPortA' \in 0 .. ToPortA - 1]_vars

(* Port B's read under way will bring what memory holds; or one is waiting  *)
(* to be dispatched, which the acceptance of the read before it would clear. *)
Stale     == b_hold_q # mem[rdaddress]
BIsComing == /\ owner = "PORT_B"
             /\ \/ s_read /\ s_address = rdaddress
                \/ taken = rdaddress
                \/ s_readdatavalid /\ s_readdata = mem[rdaddress]
BIsAsked  == b_pend_read /\ ~(owner = "PORT_B" /\ s_read)

(* Port A's reads that may come first: one waiting, one when it settles.    *)
ReadsOfA == (IF a_pend_read /\ ~(owner = "PORT_A" /\ s_read) THEN 1 ELSE 0)
          + (IF a_settled /\ a_addr_prev = wraddress THEN 0 ELSE 1)

(* The clocks until port B's fetch is asked for: the rest of the refresh      *)
(* period, or all of it and a turn if the fetch of a new address is lost.   *)
ToAsk ==
  IF b_addr_prev # rdaddress THEN Turn + Refresh + 1
  ELSE IF BIsAsked THEN 0
  ELSE IF owner = "PORT_B" /\ s_read THEN Refresh + 1
  ELSE Refresh - b_refresh_cnt + 1

(* The clocks until port B holds what memory has: its read, or the requests *)
(* before it once it is asked for.                                          *)
ToPortB ==
  IF BIsComing THEN RequestLeft ELSE RequestLeft + (ReadsOfA + 1) * Turn + ToAsk

\* Once port A has no write left and both addresses rest, a word of port B that
\* is not the memory's is replaced within a refresh period and five turns, even
\* when its fetch was cleared by the acceptance of the one before.
PortBInTime ==
  [][LET rests == ~wren /\ ~a_pend_write /\ ~s_write /\ UNCHANGED <<wraddress, rdaddress>>
     IN rests /\ Stale /\ Stale' /\ ~Forgotten' =>
          ToPortB \in 1 .. Refresh + 5 * Turn /\ ToPortB' \in 0 .. ToPortB - 1]_vars

(* An answer is due for every read, unless it was forgotten: one under way  *)
(* has it coming, an address that is settled and not stranded has its word   *)
(* or its read, and a read under way then is labelled with it.              *)
AnswersDue ==
  /\ ~s_write /\ ~s_read /\ taken = NoAddr => age = 0
  /\ b_pend_read => b_pend_read_addr = b_addr_prev
  /\ ~Forgotten /\ owner # "NONE" /\ ~req_is_write =>
       s_read \/ taken # NoAddr \/ s_readdatavalid
  /\ ~stranded /\ a_settled /\ ~wren /\ a_addr_prev = wraddress =>
       /\ ReadUnderWay => a_pend_read_addr = wraddress
       /\ q_a_valid_o \/ ReadUnderWay

(* How the owner, the request and the cache stand to one another, and what  *)
(* the latch holds of the write that is on its way.                         *)
RequestShape ==
  /\ owner = "NONE" => ~s_write /\ ~s_read /\ taken = NoAddr /\ ~s_readdatavalid
  /\ owner = "PORT_B" => ~req_is_write
  /\ req_is_write => ~s_read /\ taken = NoAddr /\ ~s_readdatavalid
  /\ ~req_is_write => ~s_write
  /\ s_read => taken = NoAddr /\ ~s_readdatavalid
  /\ taken # NoAddr => ~s_readdatavalid
  /\ s_write => /\ a_pend_write
                /\ a_pend_addr \in lost \/ (a_pend_addr = s_address /\ a_pend_data = s_writedata)

(* A read of port A is the read of the address it was dispatched with, and    *)
(* its answer is what memory holds there: no write comes between.           *)
HoldShape ==
  owner = "PORT_A" /\ ~req_is_write =>
    /\ taken \in {NoAddr, s_address}
    /\ s_readdatavalid => s_readdata = mem[s_address]

\* The inductive invariant behind NoWriteLost and RightUntilOvertaken.
IInv == TypeOK /\ RequestShape /\ NoWriteLost /\ HoldShape
=============================================================================
