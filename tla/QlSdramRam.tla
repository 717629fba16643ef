----------------------------- MODULE QlSdramRam -----------------------------
(***************************************************************************)
(* Main RAM as the QL's 68008 sees it (CORE/vhdl/ql_sdram_ram.vhd): one bus *)
(* cycle of the CPU becomes one Avalon transaction of the SDRAM controller, *)
(* and DTACK is held until the CPU ends its cycle.  A watchdog ends a       *)
(* transaction that does not complete.                                     *)
(*                                                                         *)
(* A step is one rising edge of clk_i: p_fsm (Edge), the controller         *)
(* (RamSlave) and the inputs (Cpu) all move from the old registers.         *)
(***************************************************************************)
EXTENDS RamSlave

CONSTANTS
  Timeout,     (* C_TIMEOUT (4096)                                          *)
  MaxWrites,   (* bound: writes of the CPU                                  *)
  MaxResets    (* bound: core resets                                        *)

ASSUME ConstantsAssumption ==
  /\ NoAddr \notin Addr
  /\ Timeout \in Nat /\ MaxStall \in Nat /\ MaxLatency \in Nat
  /\ MaxStall + 2 * MaxLatency + 3 < Timeout
  /\ MaxWrites \in Nat /\ MaxResets \in Nat

Word == [Lane -> 0 .. MaxWrites]   \* a byte is named by the write that stored it

VARIABLES
  (* the CPU's bus cycle ("none", "rd" or "wr") and the reset               *)
  cpu, cpu_addr, cpu_lanes, cpu_writedata, rst,
  (* registers of ql_sdram_ram, next to its avm_* pins                      *)
  state, rdata, timeout_cnt, timeout_hit,
  (* bounds and history: writes and resets left, the transactions of this   *)
  (* bus cycle that were accepted, whether the watchdog ended it            *)
  writesLeft, resetsLeft, accepted, expired

cpuVars  == <<cpu, cpu_addr, cpu_lanes, cpu_writedata, rst, writesLeft, resetsLeft>>
busVars  == <<avm_write, avm_read, avm_address, avm_wdata, avm_be>>
fsmVars  == <<state, busVars, rdata, timeout_cnt, timeout_hit>>
vars     == <<cpuVars, fsmVars, ctrlVars, accepted, expired>>

access_active == cpu # "none"
cpu_dtack     == state = "ST_ACK"

Init ==
  /\ cpu = "none" /\ cpu_addr \in Addr /\ cpu_lanes = Lane
  /\ cpu_writedata = [l \in Lane |-> 0] /\ rst = FALSE
  /\ writesLeft = MaxWrites /\ resetsLeft = MaxResets
  /\ state = "ST_IDLE" /\ avm_write = FALSE /\ avm_read = FALSE
  /\ avm_address = cpu_addr /\ avm_wdata = cpu_writedata /\ avm_be = {}
  /\ rdata = cpu_writedata
  /\ timeout_cnt = 0 /\ timeout_hit = FALSE
  /\ mem = [a \in Addr |-> cpu_writedata]
  /\ ControllerInit
  /\ accepted = 0 /\ expired = FALSE

-----------------------------------------------------------------------------
(* p_fsm.                                                                  *)

Busy   == state \in {"ST_CMD", "ST_DATA"}
Expiry == Busy /\ timeout_cnt = Timeout

Reset ==
  /\ rst
  /\ state' = "ST_IDLE"
  /\ avm_write' = FALSE /\ avm_read' = FALSE
  /\ timeout_cnt' = 0 /\ timeout_hit' = FALSE
  /\ UNCHANGED <<avm_address, avm_wdata, avm_be, rdata>>

(* Seeded fault: the count goes on from one bus cycle to the next.          *)
WatchdogKeepsCount ==
  /\ timeout_cnt' = IF Busy /\ ~Expiry THEN timeout_cnt + 1 ELSE timeout_cnt
  /\ timeout_hit' = (timeout_hit \/ Expiry)

(* The watchdog counts while a transaction is open; at the limit it drops   *)
(* the request and acknowledges, unless the state machine says otherwise.   *)
Watchdog ==
  /\ timeout_cnt' = IF ~Busy THEN 0
                    ELSE IF Expiry THEN timeout_cnt ELSE timeout_cnt + 1
  /\ timeout_hit' = (timeout_hit \/ Expiry)

(* Seeded fault: a write strobes the whole word.                            *)
BeginWholeWord ==
  /\ ~rst /\ state = "ST_IDLE"
  /\ Watchdog
  /\ state' = IF access_active THEN "ST_CMD" ELSE "ST_IDLE"
  /\ avm_address' = cpu_addr /\ avm_wdata' = cpu_writedata
  /\ avm_write' = (cpu = "wr") /\ avm_read' = (cpu = "rd")
  /\ avm_be' = Lane
  /\ UNCHANGED rdata

Begin ==
  /\ ~rst /\ state = "ST_IDLE"
  /\ Watchdog
  /\ \/ /\ access_active
        /\ avm_address' = cpu_addr
        /\ avm_wdata' = cpu_writedata
        /\ avm_write' = (cpu = "wr") /\ avm_read' = (cpu = "rd")
        /\ avm_be' = IF cpu = "wr" THEN cpu_lanes ELSE Lane
        /\ state' = "ST_CMD"
     \/ /\ ~access_active
        /\ UNCHANGED <<state, busVars>>
  /\ UNCHANGED rdata

(* Seeded fault: the request is dropped one state later.                    *)
CommandHeld(wait) ==
  /\ ~rst /\ state = "ST_CMD"
  /\ Watchdog
  /\ avm_read' = avm_read /\ avm_write' = avm_write
  /\ state' = IF ~wait THEN IF avm_read THEN "ST_DATA" ELSE "ST_ACK"
              ELSE IF Expiry THEN "ST_ACK" ELSE "ST_CMD"
  /\ UNCHANGED <<avm_address, avm_wdata, avm_be, rdata>>

(* Seeded fault: a read is acknowledged when accepted, as a write is.       *)
CommandAcksReads(wait) ==
  /\ ~rst /\ state = "ST_CMD"
  /\ Watchdog
  /\ avm_read' = (avm_read /\ wait /\ ~Expiry)
  /\ avm_write' = (avm_write /\ wait /\ ~Expiry)
  /\ state' = IF ~wait \/ Expiry THEN "ST_ACK" ELSE "ST_CMD"
  /\ UNCHANGED <<avm_address, avm_wdata, avm_be, rdata>>

Command(wait) ==
  /\ ~rst /\ state = "ST_CMD"
  /\ Watchdog
  /\ avm_read' = (avm_read /\ wait /\ ~Expiry)
  /\ avm_write' = (avm_write /\ (avm_read \/ wait) /\ ~Expiry)
  /\ state' = IF ~wait THEN IF avm_read THEN "ST_DATA" ELSE "ST_ACK"
              ELSE IF Expiry THEN "ST_ACK" ELSE "ST_CMD"
  /\ UNCHANGED <<avm_address, avm_wdata, avm_be, rdata>>

(* Seeded fault: the watchdog guards the command only.                      *)
DataUnguarded ==
  /\ ~rst /\ state = "ST_DATA"
  /\ Watchdog
  /\ rdata' = IF readdatavalid THEN readdata ELSE rdata
  /\ state' = IF readdatavalid THEN "ST_ACK" ELSE "ST_DATA"
  /\ UNCHANGED busVars

Data ==
  /\ ~rst /\ state = "ST_DATA"
  /\ Watchdog
  /\ rdata' = IF readdatavalid THEN readdata ELSE rdata
  /\ state' = IF readdatavalid \/ Expiry THEN "ST_ACK" ELSE "ST_DATA"
  /\ avm_write' = (avm_write /\ ~Expiry) /\ avm_read' = (avm_read /\ ~Expiry)
  /\ UNCHANGED <<avm_address, avm_wdata, avm_be>>

Acknowledge ==
  /\ ~rst /\ state = "ST_ACK"
  /\ Watchdog
  /\ state' = IF access_active THEN "ST_ACK" ELSE "ST_IDLE"
  /\ UNCHANGED <<busVars, rdata>>

Edge(wait) == Reset \/ Begin \/ Command(wait) \/ Data \/ Acknowledge

-----------------------------------------------------------------------------
(* The CPU holds its cycle until DTACK, then ends it for at least one clock *)
(* (UDS and LDS are negated between the halves of a TAS, too).  A reset     *)
(* resets the CPU with it.                                                 *)
CpuStep ==
  \/ /\ cpu = "none"
     /\ \/ UNCHANGED <<cpu, cpu_addr, cpu_lanes, cpu_writedata, writesLeft>>
        \/ /\ cpu' = "rd" /\ cpu_addr' \in Addr
           /\ UNCHANGED <<cpu_lanes, cpu_writedata, writesLeft>>
        \/ /\ cpu' = "wr" /\ cpu_addr' \in Addr
           /\ writesLeft > 0
           /\ cpu_lanes' \in (SUBSET Lane) \ {{}}
           /\ cpu_writedata' = [l \in Lane |-> writesLeft]
           /\ writesLeft' = writesLeft - 1
  \/ /\ cpu # "none"
     /\ cpu' \in IF cpu_dtack THEN {cpu, "none"} ELSE {cpu}
     /\ UNCHANGED <<cpu_addr, cpu_lanes, cpu_writedata, writesLeft>>

Cpu ==
  \/ /\ ~rst
     /\ rst' = FALSE
     /\ CpuStep
     /\ UNCHANGED resetsLeft
  \/ /\ resetsLeft > 0 \/ rst
     /\ rst' \in IF rst THEN BOOLEAN ELSE {TRUE}
     /\ cpu' = "none"
     /\ resetsLeft' = IF rst THEN resetsLeft ELSE resetsLeft - 1
     /\ UNCHANGED <<cpu_addr, cpu_lanes, cpu_writedata, writesLeft>>

History(wait) ==
  /\ accepted' = IF state = "ST_IDLE" THEN 0
                 ELSE IF (avm_read \/ avm_write) /\ ~wait THEN accepted + 1
                 ELSE accepted
  /\ expired' = IF state = "ST_IDLE" THEN FALSE ELSE expired \/ Expiry

Clock(wait) == Edge(wait) /\ Controller(wait) /\ Cpu /\ History(wait)

Next == \E wait \in BOOLEAN : Clock(wait)

Spec == Init /\ [][Next]_vars

(* The clock runs.                                                         *)
FairSpec == Spec /\ WF_vars(Next)

-----------------------------------------------------------------------------
(* Properties.                                                             *)

\* The type of every register and input.
TypeOK ==
  /\ cpu \in {"none", "rd", "wr"} /\ cpu_addr \in Addr
  /\ cpu_lanes \in SUBSET Lane /\ cpu_writedata \in Word /\ rst \in BOOLEAN
  /\ writesLeft \in 0 .. MaxWrites /\ resetsLeft \in 0 .. MaxResets
  /\ state \in {"ST_IDLE", "ST_CMD", "ST_DATA", "ST_ACK"}
  /\ avm_write \in BOOLEAN /\ avm_read \in BOOLEAN
  /\ avm_address \in Addr /\ avm_wdata \in Word /\ avm_be \in SUBSET Lane
  /\ rdata \in Word
  /\ timeout_cnt \in 0 .. Timeout /\ timeout_hit \in BOOLEAN
  /\ mem \in [Addr -> Word] /\ reading \in Addr \union {NoAddr}
  /\ age \in Nat
  /\ readdatavalid \in BOOLEAN /\ faulty \in BOOLEAN
  /\ readdata \in IF readdatavalid THEN Word ELSE {Junk}
  /\ accepted \in Nat /\ expired \in BOOLEAN

\* A bus cycle puts at most one transaction on the bus, be it timed out, reset
\* or accepted in the very clock the watchdog expires.
AtMostOnce == accepted <= 1

\* DTACK without the watchdog means the cycle was performed, once: the bytes
\* written are in the memory and no other, the word read is the memory's.  An
\* earlier cycle that timed out or was reset leaves nothing behind that could
\* be taken for this one's answer.
AckMeansDone ==
  state = "ST_ACK" /\ access_active /\ ~expired =>
    /\ accepted = 1
    /\ cpu = "rd" => rdata = mem[cpu_addr]
    /\ cpu = "wr" => \A l \in cpu_lanes : mem[cpu_addr][l] = cpu_writedata[l]

\* A write changes the strobed bytes of the addressed word and nothing else,
\* although it may be accepted long after the CPU began it.
OnlyStrobedBytes ==
  [][\A a \in Addr, l \in Lane :
       mem'[a][l] # mem[a][l] => rst \/ (cpu = "wr" /\ a = cpu_addr /\ l \in cpu_lanes)]_vars

\* The watchdog never fires on slow but working traffic.
WatchdogQuiet == ~faulty => ~timeout_hit

\* The CPU never hangs, whatever the controller does or does not do.
CpuAnswered == access_active ~> (cpu_dtack \/ rst)

\* On a controller that works, the two states that wait for it have been left
\* long before the watchdog's limit: a read abandoned by a reset, the stall and
\* the cycle's own read, with a clock for each of the steps between them.
SoonOver == ~faulty /\ Busy => timeout_cnt <= MaxStall + 2 * MaxLatency + 3

(* The clocks until DTACK, at most: what the watchdog leaves it, and a clock *)
(* for each state on the way.                                               *)
ToAck == IF state = "ST_ACK" THEN 0
         ELSE IF state = "ST_IDLE" THEN Timeout + 3
         ELSE Timeout - timeout_cnt + (IF state = "ST_CMD" THEN 2 ELSE 1)

\* Each clock that a bus cycle waits through is one less to wait, so that it
\* has its DTACK Timeout + 3 clocks after it began, on a controller that never
\* answers, or answers in the very clock of the watchdog, as well.
CountsDown ==
  [][access_active /\ access_active' /\ ~cpu_dtack =>
       ToAck \in 1 .. Timeout + 3 /\ ToAck' \in 0 .. ToAck - 1]_vars

\* What avm_arbit.vhd and the controller expect of a master (AvmArbit's
\* NextRequests, SdramBus's Operands): a read or a write, its operand held until
\* it is accepted or, on a reset or a timeout, withdrawn for a clock at least.
RequestHeld ==
  [][avm_read \/ avm_write =>
       /\ ~(avm_read /\ avm_write)
       /\ avm_read' \/ avm_write' => UNCHANGED busVars]_vars

(* What the registers say about the CPU's cycle.                            *)
BusShape ==
  /\ state \in {"ST_IDLE", "ST_DATA", "ST_ACK"} => ~avm_read /\ ~avm_write
  /\ Busy /\ ~rst => access_active
  /\ state = "ST_CMD" /\ ~rst => avm_read = (cpu = "rd") /\ avm_write = (cpu = "wr")
  /\ state = "ST_CMD" => avm_read # avm_write
  /\ state = "ST_DATA" /\ ~rst => cpu = "rd"
  /\ state # "ST_IDLE" /\ access_active =>
       /\ avm_address = cpu_addr
       /\ cpu = "wr" => avm_be = cpu_lanes /\ avm_wdata = cpu_writedata
  /\ rst => cpu = "none"

(* How far its transaction is.                                              *)
TransactionShape ==
  /\ state = "ST_CMD" => accepted = 0 /\ ~expired
  /\ state = "ST_DATA" => accepted = 1
  /\ readdatavalid => reading = NoAddr
  /\ state = "ST_DATA" /\ reading # NoAddr => reading = avm_address
  /\ state = "ST_DATA" /\ readdatavalid => readdata = mem[avm_address]

(* How much of its time it may have used.                                   *)
Budget ==
  LET reset == MaxLatency + 1
      cmd   == reset + MaxStall + 1
  IN ~faulty =>
       /\ age <= MaxLatency \/ age <= MaxStall
       /\ reading # NoAddr => age <= MaxLatency
       /\ state = "ST_CMD" /\ reading # NoAddr => timeout_cnt <= age
       /\ state = "ST_CMD" /\ reading = NoAddr => timeout_cnt <= reset + age /\ age <= MaxStall
       /\ state = "ST_DATA" /\ reading # NoAddr => timeout_cnt <= cmd + age
       /\ state = "ST_DATA" /\ reading = NoAddr => readdatavalid /\ timeout_cnt <= cmd + MaxLatency + 1

\* The inductive invariant behind the safety properties.
IInv == /\ TypeOK /\ BusShape /\ TransactionShape
        /\ AtMostOnce /\ AckMeansDone /\ Budget /\ WatchdogQuiet
=============================================================================
