------------------------------ MODULE SdramBus ------------------------------
(***************************************************************************)
(* The SDRAM of the core: main RAM (master 0, ql_sdram_ram.vhd) and the     *)
(* QL-SD buffer (master 1) behind i_avm_arbit_sdram (mega65.vhd:712) and    *)
(* i_sdram (framework.vhd:791).  AvmArbit's abstract slave is replaced by   *)
(* the controller: waitrequest and the answers are Sdram's, and what        *)
(* AvmArbit assumes of a slave is a property to check.                      *)
(***************************************************************************)
EXTENDS AvmArbit

CONSTANTS
  Addr, NoAddr, Lane, Byte, Junk, RefreshTime, PowerOnTime,
  Operand       (* each master's windows: the addresses, words and lanes it *)
                (* may ask for                                              *)

VARIABLES
  pin,          (* the operand on each master's pins                        *)
  state, timer_cmd, timer_refresh, avm_read, avm_write, avm_address, fifo,
  pins, sdram_dq_in, avm_readdata, avm_readdatavalid, open, cells, pipe, since,
  words,        (* history: memory as the accepted writes have it           *)
  age           (* history: clocks main RAM's request or read has taken     *)

Ctl == INSTANCE Sdram

busVars == <<vars, pin, Ctl!vars, words, age>>

ASSUME BusAssumption ==
  /\ Ctl!ConstantsAssumption
  /\ Serial /\ MaxLen = 1
  /\ \A m \in Master : /\ Operand[m] # {}
                        /\ Operand[m] \subseteq [a : Addr, w : Ctl!Word, be : SUBSET Lane]
  /\ \A x \in Operand[0], y \in Operand[1] : x.a # y.a

(* A master without a request may have anything on its pins.                *)
Idle(m) == CHOOSE x \in Operand[m] : TRUE

BusInit ==
  /\ Init /\ Ctl!Init
  /\ pin = [m \in Master |-> Idle(m)]
  /\ words = cells
  /\ age = 0

(* Whose word the controller answers: its address tells.                    *)
Asker    == IF \E x \in Operand[0] : x.a = avm_address THEN 0 ELSE 1
Answered == IF avm_readdatavalid THEN Asker ELSE Nobody

Accepts(cmd) == m_avm_cmd = cmd /\ ~Ctl!waitrequest

(* The controller gets the pins of the master the arbiter points at.        *)
Memory ==
  LET p == pin[last_grant]
  IN Ctl!Edge(m_avm_cmd = "rd", m_avm_cmd = "wr", p.a, p.w, p.be)

(* The ledger that AvmArbit keeps of its slave.                             *)
Ledger ==
  /\ owed' = [m \in Master |->
       owed[m] + (IF m = last_grant /\ Accepts("rd") THEN 1 ELSE 0)
               - (IF m = Answered THEN 1 ELSE 0)]
  /\ UNCHANGED unwritten

(* An operand is chosen with its request and stays with it.                 *)
Operands ==
  \E x \in Operand[0], y \in Operand[1] :
    LET next(m, z) == IF ~active_req(m)' THEN Idle(m)
                      ELSE IF ~active_req(m) \/ Taken(m, Ctl!waitrequest) THEN z
                      ELSE pin[m]
    IN pin' = [m \in Master |-> IF m = 0 THEN next(0, x) ELSE next(1, y)]

Merge(w, v, be) == [l \in Lane |-> IF l \in be THEN v[l] ELSE w[l]]

(* A read that the controller works on.                                     *)
Working(m) == owed[m] > 0 /\ ~avm_readdatavalid

(* The firmware holds the core in reset, and mounts nothing, for far longer *)
(* than the controller needs to power up.                                   *)
Booting == state \in Ctl!Initial => \A m \in Master : ~active_req(m)'

BusHistory ==
  /\ words' = LET p == pin[last_grant]
              IN IF Accepts("wr") THEN [words EXCEPT ![p.a] = Merge(@, p.w, p.be)] ELSE words
  /\ age' = IF \/ Working(0) /\ ~avm_readdatavalid'
               \/ ~Working(0) /\ active_req(0) /\ ~Taken(0, Ctl!waitrequest)
            THEN age + 1 ELSE 0

BusNext ==
  /\ Memory /\ Ledger
  /\ Burstcount(Ctl!waitrequest, Answered)
  /\ Grant(Ctl!waitrequest, Answered)
  /\ Masters(Ctl!waitrequest, Answered)
  /\ History(Ctl!waitrequest)
  /\ Operands /\ Booting /\ BusHistory

BusSpec == BusInit /\ [][BusNext]_busVars

(* The clock runs.                                                          *)
FairBusSpec == BusSpec /\ WF_busVars(BusNext)

-----------------------------------------------------------------------------
(* Properties.                                                             *)

\* The type of the operands, of the histories and of the controller.
BusTypeOK ==
  /\ TypeOK /\ Ctl!TypeOK
  /\ pin \in [Master -> UNION {Operand[m] : m \in Master}]
  /\ words \in [Addr -> Ctl!Word] /\ age \in Nat

\* avm_arbit.vhd on sdram.vhd is what AvmArbit says of an arbiter on a serial
\* slave: waitrequest stays high while a read is unanswered, words come only
\* where one is owed, so everything shown of AvmArbit holds here.
ArbiterSpec == Spec

\* A read is answered with the word as the writes accepted before it left it,
\* and an idle controller has put every accepted write into the chip, whole.
Coherent ==
  /\ avm_readdatavalid => avm_readdata = words[avm_address]
  /\ state = "IDLE" => cells = words

(* The clocks a transaction takes until the controller is idle again: the    *)
(* rest of a write that was accepted, a read, a refresh.                     *)
WriteRest    == Ctl!RCD + 1 + Ctl!RP
ReadTurn     == 1 + Ctl!RCD + (Ctl!CAC + 2) + Ctl!RP
RefreshPause == Ctl!RC + 2

(* The most clocks from a read's acceptance to its word.                     *)
MaxLatency == Ctl!RCD + (Ctl!CAC + 2) - 1

(* The most clocks a request of main RAM waits, while no read of its own is  *)
(* under way: for its last write, a refresh, the other master's read and, at *)
(* the shortest refresh interval, one more refresh.                          *)
MaxStall == WriteRest + RefreshPause + ReadTurn + RefreshPause

\* The latency that QlSdramRam's watchdog is set against (MaxStall and
\* MaxLatency there): the other master's turn and a refresh included.
WithinBudget == age <= IF Working(0) THEN MaxLatency ELSE MaxStall

(* Main RAM's side of the arbiter: the slave that QlSdramRam's state machine *)
(* has on its pins, with the memory as it is between main RAM's addresses.   *)
RamAddr == {x.a : x \in Operand[0]}

RamSide == INSTANCE RamSlave WITH
  Addr          <- RamAddr,
  avm_read      <- req[0].cmd = "rd",
  avm_write     <- req[0].cmd = "wr",
  avm_address   <- pin[0].a,
  avm_wdata     <- pin[0].w,
  avm_be        <- pin[0].be,
  mem           <- [a \in RamAddr |-> words[a]],
  reading       <- IF Working(0) THEN avm_address ELSE NoAddr,
  readdatavalid <- Valid(0, Answered),
  readdata      <- IF Valid(0, Answered) THEN avm_readdata ELSE Junk,
  faulty        <- FALSE

\* What QlSdramRam assumes of the SDRAM is so, although another master has its
\* turns in between: a waitrequest that ends in MaxStall clocks, a word after
\* each read in MaxLatency, no word else, and a memory that changes by main
\* RAM's own writes only.
SlaveSpec ==
  RamSide!ControllerInit /\ [][RamSide!Controller(Waits(0, Ctl!waitrequest))]_busVars

CommandsInTime == Ctl!CommandsInTime
RefreshOnTime  == Ctl!RefreshOnTime

(* A read is under way, until its word has been on avm_readdata for a cycle.  *)
UnderWay == (state = "ACTIVE" /\ avm_read) \/ state = "READ" \/ avm_readdatavalid

(* The controller is the arbiter's account of it: one read at most, owed to  *)
(* the master whose address it has.                                         *)
Account ==
  /\ ~(avm_read /\ avm_write)
  /\ avm_readdatavalid => state = "PRECHARGE" /\ timer_cmd = Ctl!RP - 1
  /\ \A m \in Master : active_req(m) => pin[m] \in Operand[m]
  /\ owed = [m \in Master |-> IF UnderWay /\ m = Asker THEN 1 ELSE 0]

(* The memory once a word, masked as on the pins, is written.                *)
Written(p) ==
  [cells EXCEPT ![avm_address] = [l \in Lane |-> IF l \in p.mask THEN @[l] ELSE p.dq[l]]]

(* The word under way: a write from the FIFO to the pins to the chip, a read *)
(* from the chip down the pipe, a step with each count of the timer.         *)
DataPath ==
  /\ avm_address \in Addr /\ cells \in [Addr -> Ctl!Word] /\ words \in [Addr -> Ctl!Word]
  /\ state = "ACTIVE" => avm_address.row = IF pins.cmd = "ACT" THEN pins.a.row ELSE open
  /\ state \in {"READ", "WRITE"} => avm_address.row = open
  /\ pins.cmd \in {"READ", "WRITE"} => pins.a = avm_address
  /\ pins.cmd = "READ" => state = "READ"
  /\ pins.cmd = "WRITE" <=> state = "WRITE"
  /\ words = IF state = "ACTIVE" /\ avm_write THEN Written(fifo)
             ELSE IF state = "WRITE" THEN Written(pins) ELSE cells
  /\ state = "READ" =>
       /\ timer_cmd \in 0 .. 4
       /\ timer_cmd = 4 => pins.cmd = "READ"
       /\ timer_cmd = 3 => pipe.cas1 = cells[avm_address] /\ pins.mask = {}
       /\ timer_cmd = 2 => pipe.cas2 = cells[avm_address]
       /\ timer_cmd = 1 => pipe.cas3 = cells[avm_address]
       /\ timer_cmd = 0 => sdram_dq_in = cells[avm_address]
  /\ avm_readdatavalid => avm_readdata = cells[avm_address]

(* The inductive invariant behind ArbiterSpec, Coherent and the timing       *)
(* properties.                                                             *)
BusIInv == IInv /\ Account /\ Ctl!Schedule /\ DataPath

(* The clocks until the controller is idle, and those of a refresh that may  *)
(* come before the next request.                                             *)
Busy == IF state = "ACTIVE" /\ ~avm_read THEN timer_cmd + 5 ELSE Ctl!Left
RefreshDue ==
  IF state = "REFRESH" \/ (state = "IDLE" /\ timer_refresh # 0) THEN 0 ELSE RefreshPause

(* Main RAM asks, with no read of its own under way.                         *)
Stalled == active_req(0) /\ ~Working(0)

(* The clocks until main RAM's request is accepted: it is the other's turn   *)
(* first, or its own now, or nobody is granted yet.                          *)
ToWait ==
  IF (grant[1] /\ active_req(1) /\ ~Open(1)) \/ Open(0)
  THEN Busy + RefreshDue + ReadTurn + RefreshPause
  ELSE IF grant[0] \/ Open(1) THEN Busy + RefreshDue
  ELSE Busy + RefreshPause + 1

(* The clocks until the word of a read under way is out.                     *)
Countdown == timer_cmd + (IF state = "ACTIVE" THEN Ctl!CAC + 2 ELSE 0)

(* The timers within a command; a refresh ends before the next one is due.   *)
Timetable ==
  /\ state = "ACTIVE" => timer_cmd <= Ctl!RCD - 1
  /\ state = "READ" => timer_cmd <= Ctl!CAC + 1
  /\ state = "PRECHARGE" => timer_cmd <= Ctl!RP - 1
  /\ state = "REFRESH" => timer_cmd <= Ctl!RC /\ timer_refresh >= timer_cmd + 2

(* The inductive invariant behind WithinBudget, next to BusIInv.             *)
Budget ==
  /\ Timetable
  /\ age \in 0 .. MaxStall
  /\ (\A m \in Master : ~grant[m]) => last_grant = 1
  /\ state \in Ctl!Initial => \A m \in Master : ~active_req(m)
  /\ Working(0) => age + Countdown <= MaxLatency
  /\ Stalled => age + ToWait <= MaxStall
=============================================================================
