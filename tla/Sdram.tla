------------------------------- MODULE Sdram -------------------------------
(***************************************************************************)
(* The SDRAM controller of M2M/vhdl/controllers/SDRAM/sdram.vhd and the     *)
(* chip behind it.  A step is one rising edge of clk_i (84 MHz): avm_proc   *)
(* moves on from the old registers, and the chip acts on the pins as they   *)
(* were before the edge.                                                    *)
(*                                                                         *)
(* Single words only, as both of its masters ask for ("This version does    *)
(* not support burst mode").  An address is its row (with the bank) and its *)
(* column; the time constants are the file's own, but for the two long ones.*)
(***************************************************************************)
EXTENDS Naturals

CONSTANTS
  Addr,         (* addresses: records with a row and a col                  *)
  NoAddr,       (* no address on the pins, no row open                      *)
  Lane, Byte,   (* byte lanes, and what a lane holds                        *)
  Junk,         (* what the data lines carry when nobody drives them        *)
  RefreshTime,  (* C_TIME_REFRESH (644)                                     *)
  PowerOnTime   (* C_TIME_INIT_POWER_ON (8568)                              *)

CAC == 3
RCD == 3
RC  == 10
RP  == 3
MRD == 2
QMD == 2

Word == [Lane -> Byte]

(* What is assumed of them, where the module is used.                       *)
ConstantsAssumption ==
  /\ NoAddr \notin Addr
  /\ \A a \in Addr : a = [row |-> a.row, col |-> a.col] /\ a.row # NoAddr
  /\ Junk \notin Word
  /\ RefreshTime \in Nat /\ RefreshTime >= RC + RC + MRD
  /\ PowerOnTime \in Nat \ {0}

(* The longest a refresh may wait for a command under way: one read.        *)
Grace == 12

VARIABLES
  state, timer_cmd, timer_refresh,
  avm_read, avm_write, avm_address,
  fifo,         (* axi_fifo_small: the word of the write under way          *)
  pins,         (* command, address, masked lanes and data to the chip      *)
  sdram_dq_in, avm_readdata, avm_readdatavalid,
  (* the chip: open row, content, the word read two and one edges ago and   *)
  (* the one on its outputs, and the edges since each command               *)
  open, cells, pipe, since

timers == <<timer_cmd, timer_refresh>>
regs   == <<avm_read, avm_write, avm_address, fifo>>
vars   == <<state, timers, regs, pins, sdram_dq_in, avm_readdata, avm_readdatavalid,
            open, cells, pipe, since>>

Timed    == {"ACT", "PRE", "REF", "MRS"}
Commands == Timed \union {"NOP", "READ", "WRITE", "BST"}
Initial  == {"INIT_POWER_ON", "INIT_PRECHARGE", "INIT_REFRESH_1", "INIT_REFRESH_2",
             "INIT_SET_MODE"}
States   == Initial \union {"IDLE", "ACTIVE", "WRITE", "READ", "PRECHARGE", "REFRESH"}

Nop == [cmd |-> "NOP", a |-> NoAddr, mask |-> Lane, dq |-> Junk]

(* Where the counts of since stop.                                          *)
Longest(c) == IF c = "REF" THEN RefreshTime + Grace + 1 ELSE RC

Init ==
  /\ state = "INIT_POWER_ON" /\ timer_cmd = PowerOnTime - 1 /\ timer_refresh = 0
  /\ avm_read = FALSE /\ avm_write = FALSE /\ avm_address \in Addr /\ fifo = Nop
  /\ pins = Nop
  /\ sdram_dq_in = Junk /\ avm_readdata = Junk /\ avm_readdatavalid = FALSE
  /\ open = NoAddr /\ cells \in [Addr -> Word]
  /\ pipe = [cas1 |-> Junk, cas2 |-> Junk, cas3 |-> Junk]
  /\ since = [c \in Timed |-> Longest(c)]

-----------------------------------------------------------------------------
(* avm_proc.                                                               *)

(* Seeded fault: a request is let through in the cycle of a refresh.        *)
WaitsForTheStateOnly == state # "IDLE"

(* avm_waitrequest_o.                                                       *)
waitrequest == ~(state = "IDLE" /\ timer_refresh # 0)

(* The timers run down, unless this edge sets them.                         *)
Down(n) == IF n > 0 THEN n - 1 ELSE 0

Command(c) == pins' = [Nop EXCEPT !.cmd = c]

(* A state that waits for its command timer, then sends c and hands on.     *)
After(from, c, time, to) ==
  /\ state = from
  /\ \/ /\ timer_cmd = 0
        /\ Command(c)
        /\ timer_cmd' = time
        /\ state' = to
     \/ /\ timer_cmd # 0
        /\ pins' = Nop
        /\ timer_cmd' = Down(timer_cmd)
        /\ UNCHANGED state

(* No word in the next cycle; what avm_readdata_o then holds is not looked at. *)
Quiet == avm_readdatavalid' = FALSE /\ avm_readdata' = Junk

PowerUp ==
  /\ \/ After("INIT_POWER_ON", "PRE", RP - 1, "INIT_PRECHARGE") /\ timer_refresh' = Down(timer_refresh)
     \/ After("INIT_PRECHARGE", "REF", RC - 1, "INIT_REFRESH_1") /\ timer_refresh' = Down(timer_refresh)
     \/ /\ After("INIT_REFRESH_1", "REF", RC - 1, "INIT_REFRESH_2")
        /\ timer_refresh' = IF timer_cmd = 0 THEN RefreshTime - 1 ELSE Down(timer_refresh)
     \/ After("INIT_REFRESH_2", "MRS", MRD - 1, "INIT_SET_MODE") /\ timer_refresh' = Down(timer_refresh)
     \/ After("INIT_SET_MODE", "NOP", 0, "IDLE") /\ timer_refresh' = Down(timer_refresh)
  /\ Quiet /\ UNCHANGED regs

(* A refresh that is due goes before any request.                           *)
Refresh ==
  /\ state = "IDLE" /\ timer_refresh = 0
  /\ timer_refresh' = RefreshTime - 1 /\ timer_cmd' = RC
  /\ Command("REF")
  /\ state' = "REFRESH"
  /\ Quiet /\ UNCHANGED regs

(* A request (rd or wr, of word w in lanes be) is accepted, and its row     *)
(* opened.                                                                  *)
Accept(rd, wr, a, w, be) ==
  /\ state = "IDLE" /\ timer_refresh # 0 /\ (rd \/ wr)
  /\ avm_read' = rd /\ avm_write' = wr /\ avm_address' = a
  /\ fifo' = IF wr THEN [Nop EXCEPT !.mask = Lane \ be, !.dq = w] ELSE fifo
  /\ pins' = [Nop EXCEPT !.cmd = "ACT", !.a = a]
  /\ timer_cmd' = RCD - 1 /\ timer_refresh' = Down(timer_refresh)
  /\ state' = "ACTIVE"
  /\ Quiet

Stay(rd, wr) ==
  /\ state = "IDLE" /\ timer_refresh # 0 /\ ~rd /\ ~wr
  /\ pins' = Nop
  /\ timer_cmd' = Down(timer_cmd) /\ timer_refresh' = Down(timer_refresh)
  /\ Quiet /\ UNCHANGED <<state, regs>>

(* The row is open: the column is read, or the word in the FIFO written.    *)
Active ==
  /\ state = "ACTIVE"
  /\ \/ /\ timer_cmd # 0
        /\ pins' = Nop /\ timer_cmd' = Down(timer_cmd)
        /\ UNCHANGED <<state, fifo>>
     \/ /\ timer_cmd = 0 /\ avm_read
        /\ pins' = [Nop EXCEPT !.cmd = "READ", !.a = avm_address]
        /\ timer_cmd' = CAC + 1
        /\ state' = "READ"
        /\ UNCHANGED fifo
     \/ /\ timer_cmd = 0 /\ avm_write
        /\ pins' = [fifo EXCEPT !.cmd = "WRITE", !.a = avm_address]
        /\ fifo' = Nop
        /\ timer_cmd' = 0
        /\ state' = "WRITE"
  /\ timer_refresh' = Down(timer_refresh)
  /\ Quiet /\ UNCHANGED <<avm_read, avm_write, avm_address>>

(* Seeded fault: no time for the row to close.                              *)
WriteWithoutRecovery ==
  /\ state = "WRITE"
  /\ avm_write' = FALSE
  /\ Command("PRE")
  /\ timer_cmd' = 0 /\ timer_refresh' = Down(timer_refresh)
  /\ state' = "PRECHARGE"
  /\ Quiet /\ UNCHANGED <<avm_read, avm_address, fifo>>

(* The FIFO has no further word: the row is closed.                         *)
Write ==
  /\ state = "WRITE"
  /\ avm_write' = FALSE
  /\ Command("PRE")
  /\ timer_cmd' = RP - 1 /\ timer_refresh' = Down(timer_refresh)
  /\ state' = "PRECHARGE"
  /\ Quiet /\ UNCHANGED <<avm_read, avm_address, fifo>>

(* Seeded fault: the word is taken one edge early.                          *)
ReadEarly ==
  /\ state = "READ"
  /\ pins' = [Nop EXCEPT
       !.cmd  = IF timer_cmd = CAC + 1 THEN "BST" ELSE IF timer_cmd = 0 THEN "PRE" ELSE "NOP",
       !.mask = IF timer_cmd = QMD + 2 THEN {} ELSE Lane]
  /\ avm_readdatavalid' = (timer_cmd = 1)
  /\ avm_readdata' = IF timer_cmd = 1 THEN sdram_dq_in ELSE Junk
  /\ \/ timer_cmd = 0 /\ timer_cmd' = RP - 1 /\ state' = "PRECHARGE"
     \/ timer_cmd # 0 /\ timer_cmd' = Down(timer_cmd) /\ UNCHANGED state
  /\ timer_refresh' = Down(timer_refresh)
  /\ UNCHANGED regs

(* The outputs are unmasked for one word, the burst is stopped, the word    *)
(* taken from the input register, and the row closed.                       *)
Read ==
  /\ state = "READ"
  /\ pins' = [Nop EXCEPT
       !.cmd  = IF timer_cmd = CAC + 1 THEN "BST" ELSE IF timer_cmd = 0 THEN "PRE" ELSE "NOP",
       !.mask = IF timer_cmd = QMD + 2 THEN {} ELSE Lane]
  /\ avm_readdatavalid' = (timer_cmd = 0)
  /\ avm_readdata' = IF timer_cmd = 0 THEN sdram_dq_in ELSE Junk
  /\ \/ timer_cmd = 0 /\ timer_cmd' = RP - 1 /\ state' = "PRECHARGE"
     \/ timer_cmd # 0 /\ timer_cmd' = Down(timer_cmd) /\ UNCHANGED state
  /\ timer_refresh' = Down(timer_refresh)
  /\ UNCHANGED regs

Recover ==
  /\ \/ After("PRECHARGE", "NOP", 0, "IDLE")
     \/ After("REFRESH", "NOP", 0, "IDLE")
  /\ timer_refresh' = Down(timer_refresh)
  /\ Quiet /\ UNCHANGED regs

(* Seeded fault: a refresh waits until nobody asks.                         *)
RequestsFirst(rd, wr, a, w, be) ==
  \/ PowerUp \/ (Refresh /\ ~rd /\ ~wr) \/ Stay(rd, wr)
  \/ /\ state = "IDLE" /\ timer_refresh = 0 /\ (rd \/ wr)
     /\ pins' = Nop /\ Quiet /\ UNCHANGED <<state, timers, regs>>
  \/ Accept(rd, wr, a, w, be) \/ Active \/ Write \/ Read \/ Recover

Controller(rd, wr, a, w, be) ==
  \/ PowerUp \/ Refresh \/ Accept(rd, wr, a, w, be) \/ Stay(rd, wr)
  \/ Active \/ Write \/ Read \/ Recover

-----------------------------------------------------------------------------
(* The chip, and read_proc, which samples its outputs.  A read word leaves  *)
(* the chip three edges after its command, if the mask was open two edges   *)
(* before; a write takes the lanes that are not masked.                     *)

Cell == [row |-> open, col |-> pins.a.col]

Chip ==
  /\ open' = CASE pins.cmd = "ACT" -> pins.a.row
               [] pins.cmd = "PRE" -> NoAddr
               [] OTHER -> open
  /\ cells' =
       IF pins.cmd = "WRITE" /\ Cell \in Addr
       THEN [cells EXCEPT ![Cell] =
               [l \in Lane |-> IF l \in pins.mask THEN @[l] ELSE pins.dq[l]]]
       ELSE cells
  /\ pipe' = [cas1 |-> IF pins.cmd = "READ" /\ Cell \in Addr THEN cells[Cell] ELSE Junk,
              cas2 |-> IF pins.mask = {} THEN pipe.cas1 ELSE Junk,
              cas3 |-> pipe.cas2]
  /\ sdram_dq_in' = pipe.cas3
  /\ since' = [c \in Timed |->
       IF pins.cmd = c THEN 1
       ELSE IF since[c] < Longest(c) THEN since[c] + 1 ELSE since[c]]

Edge(rd, wr, a, w, be) == Controller(rd, wr, a, w, be) /\ Chip

-----------------------------------------------------------------------------
(* Properties.                                                             *)

\* The type of every register, of the pins and of the chip's state.
TypeOK ==
  /\ state \in States
  /\ timer_cmd \in Nat /\ timer_refresh \in 0 .. RefreshTime - 1
  /\ avm_read \in BOOLEAN /\ avm_write \in BOOLEAN /\ avm_address \in Addr
  /\ avm_readdatavalid \in BOOLEAN
  /\ pins.cmd \in Commands /\ pins.a \in Addr \union {NoAddr} /\ pins.mask \subseteq Lane
  /\ fifo.mask \subseteq Lane
  /\ cells \in [Addr -> Word] /\ since \in [Timed -> Nat]

\* The delays of sdram.vhd's constants, between the commands as the chip gets
\* them: the row of a READ or WRITE has been open for C_TIME_RCD, a closed row
\* has had C_TIME_RP, a refresh C_TIME_RC, and nothing is opened or refreshed
\* while a row is open.
CommandsInTime ==
  /\ pins.cmd \in {"READ", "WRITE"} => open # NoAddr /\ since["ACT"] >= RCD
  /\ pins.cmd \in {"ACT", "REF", "MRS"} =>
       open = NoAddr /\ since["PRE"] >= RP /\ since["REF"] >= RC /\ since["MRS"] >= MRD

\* Rows are refreshed in time, however busy the bus: two refreshes are at most
\* C_TIME_REFRESH + 12 clocks apart, 64 ms / 8192 ("Subtract small value to
\* compensate for time spent in previous command").
RefreshOnTime == state \notin Initial => since["REF"] <= RefreshTime + Grace

(* The edges since a command went on the pins.                              *)
Ago(c) == IF pins.cmd = c THEN 0 ELSE since[c]

(* What the command timer stands for in each state: the time since the      *)
(* command that led there.                                                  *)
Counted ==
  /\ state \in {"PRECHARGE", "INIT_PRECHARGE"} => Ago("PRE") + timer_cmd >= RP - 1
  /\ state = "REFRESH" => Ago("REF") + timer_cmd >= RC
  /\ state \in {"INIT_REFRESH_1", "INIT_REFRESH_2"} => Ago("REF") + timer_cmd >= RC - 1
  /\ state = "INIT_SET_MODE" => Ago("MRS") + timer_cmd >= MRD - 1
  /\ state = "ACTIVE" => Ago("ACT") + timer_cmd >= RCD - 1

(* Everywhere else, the command is long over.                               *)
Over ==
  /\ state \notin {"PRECHARGE", "INIT_PRECHARGE"} => Ago("PRE") >= RP
  /\ state \notin {"REFRESH", "INIT_REFRESH_1", "INIT_REFRESH_2"} => Ago("REF") >= RC
  /\ state # "INIT_SET_MODE" => Ago("MRS") >= MRD

(* When a row is open.                                                      *)
Rows ==
  /\ pins.cmd = "ACT" => state = "ACTIVE" /\ pins.a \in Addr
  /\ state = "ACTIVE" /\ pins.cmd # "ACT" => open # NoAddr
  /\ state \in {"READ", "WRITE"} => open # NoAddr /\ pins.cmd # "PRE"
  /\ state = "ACTIVE" => pins.cmd # "PRE"
  /\ state \notin {"ACTIVE", "READ", "WRITE"} => open = NoAddr \/ pins.cmd = "PRE"

(* The edges left until the controller is idle, from the first refresh on.  *)
Left == CASE state = "ACTIVE" -> timer_cmd + 9
          [] state = "READ" -> timer_cmd + 4
          [] state = "WRITE" -> 4
          [] state \in {"PRECHARGE", "REFRESH", "INIT_SET_MODE"} -> timer_cmd + 1
          [] state = "INIT_REFRESH_2" -> timer_cmd + 3
          [] OTHER -> 0

(* The refresh timer counts down what is left of the interval, and a        *)
(* command begun in time ends in time.                                      *)
Refreshing ==
  state \notin Initial \ {"INIT_REFRESH_2", "INIT_SET_MODE"} =>
    /\ Ago("REF") + timer_refresh <= RefreshTime - 1 \/ timer_refresh = 0
    /\ Ago("REF") + Left < RefreshTime + Grace

(* The inductive invariant behind the two properties above.                 *)
Schedule ==
  /\ state \in States /\ timer_cmd \in Nat /\ timer_refresh \in Nat
  /\ pins.cmd \in Commands /\ since \in [Timed -> Nat]
  /\ fifo = [Nop EXCEPT !.mask = fifo.mask, !.dq = fifo.dq]
  /\ Counted /\ Over /\ Rows /\ Refreshing /\ CommandsInTime /\ RefreshOnTime
=============================================================================
