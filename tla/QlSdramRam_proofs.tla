-------------------------- MODULE QlSdramRam_proofs --------------------------
(***************************************************************************)
(* Main RAM's state machine (QlSdramRam) for any memory size, watchdog limit *)
(* and controller latency: every bus cycle is performed at most once, DTACK *)
(* without the watchdog means it was performed rightly, and a controller    *)
(* that keeps its latency never meets the watchdog.                         *)
(***************************************************************************)
EXTENDS QlSdramRam, TLAPS

(* The registers start in the invariant.                                    *)
LEMMA InitIInv ==
  Init => IInv
<1> SUFFICES ASSUME Init PROVE IInv
  OBVIOUS
<1>1. TypeOK
  <2>1. [l \in Lane |-> 0] \in Word
    BY ConstantsAssumption DEF Word
  <2>2. [a \in Addr |-> cpu_writedata] \in [Addr -> Word]
    BY <2>1 DEF Init
  <2>3. 0 \in 0 .. Timeout /\ MaxWrites \in 0 .. MaxWrites /\ MaxResets \in 0 .. MaxResets
    BY ConstantsAssumption
  <2>4. cpu_writedata \in Word /\ mem \in [Addr -> Word]
    BY <2>1, <2>2 DEF Init
  <2>5. /\ cpu_addr \in Addr /\ avm_address \in Addr /\ reading \in Addr \union {NoAddr}
        /\ cpu_lanes \in SUBSET Lane /\ avm_be \in SUBSET Lane
        /\ avm_wdata \in Word /\ rdata \in Word /\ ~readdatavalid /\ readdata = Junk
    BY <2>4 DEF Init, ControllerInit
  <2> QED
    BY <2>3, <2>4, <2>5 DEF Init, ControllerInit, TypeOK
<1>2. BusShape /\ TransactionShape /\ AtMostOnce /\ AckMeansDone
  BY DEF Init, ControllerInit, BusShape, TransactionShape, AtMostOnce, AckMeansDone, Busy, access_active
<1>3. Budget /\ WatchdogQuiet
  BY ConstantsAssumption DEF Init, ControllerInit, Budget, WatchdogQuiet
<1> QED
  BY <1>1, <1>2, <1>3 DEF IInv

(* One clock edge keeps every register in its type.                         *)
LEMMA StepTypeOK ==
  ASSUME TypeOK, NEW wait \in BOOLEAN, Clock(wait)
  PROVE  TypeOK'
<1> USE ConstantsAssumption
<1>1. Cpu
  BY DEF Clock
<1>2. /\ cpu' \in {"none", "rd", "wr"} /\ cpu_addr' \in Addr
      /\ cpu_lanes' \in SUBSET Lane /\ cpu_writedata' \in Word /\ rst' \in BOOLEAN
      /\ writesLeft' \in 0 .. MaxWrites /\ resetsLeft' \in 0 .. MaxResets
  <2>1. /\ cpu \in {"none", "rd", "wr"} /\ cpu_addr \in Addr
        /\ cpu_lanes \in SUBSET Lane /\ cpu_writedata \in Word /\ rst \in BOOLEAN
        /\ writesLeft \in 0 .. MaxWrites /\ resetsLeft \in 0 .. MaxResets
    BY DEF TypeOK
  <2>2. ASSUME writesLeft > 0
        PROVE  [l \in Lane |-> writesLeft] \in Word
    BY <2>1, <2>2 DEF Word
  <2>3. CASE CpuStep /\ UNCHANGED resetsLeft /\ rst' = FALSE
    <3>1. CASE UNCHANGED <<cpu, cpu_addr, cpu_lanes, cpu_writedata, writesLeft>>
      BY <2>1, <2>3, <3>1
    <3>2. CASE cpu' = "rd" /\ cpu_addr' \in Addr /\ UNCHANGED <<cpu_lanes, cpu_writedata, writesLeft>>
      BY <2>1, <2>3, <3>2
    <3>3. CASE /\ cpu' = "wr" /\ cpu_addr' \in Addr /\ writesLeft > 0
               /\ cpu_lanes' \in (SUBSET Lane) \ {{}}
               /\ cpu_writedata' = [l \in Lane |-> writesLeft]
               /\ writesLeft' = writesLeft - 1
      <4>1. cpu_writedata' \in Word
        BY <2>2, <3>3
      <4>2. writesLeft' \in 0 .. MaxWrites
        BY <2>1, <3>3
      <4> QED
        BY <2>1, <2>3, <3>3, <4>1, <4>2
    <3>4. CASE cpu' \in {cpu, "none"} /\ UNCHANGED <<cpu_addr, cpu_lanes, cpu_writedata, writesLeft>>
      BY <2>1, <2>3, <3>4
    <3> QED
      BY <2>3, <3>1, <3>2, <3>3, <3>4 DEF CpuStep
  <2>4. CASE /\ rst' \in BOOLEAN /\ cpu' = "none"
             /\ (resetsLeft > 0 /\ resetsLeft' = resetsLeft - 1) \/ resetsLeft' = resetsLeft
             /\ UNCHANGED <<cpu_addr, cpu_lanes, cpu_writedata, writesLeft>>
    BY <2>1, <2>4
  <2> QED
    BY <1>1, <2>1, <2>3, <2>4 DEF Cpu
<1>3. /\ state' \in {"ST_IDLE", "ST_CMD", "ST_DATA", "ST_ACK"}
      /\ avm_write' \in BOOLEAN /\ avm_read' \in BOOLEAN
  BY DEF TypeOK, Clock, Edge, Reset, Begin, Command, Data, Acknowledge, busVars
<1>4. /\ avm_address' \in Addr /\ avm_wdata' \in Word /\ avm_be' \in SUBSET Lane
      /\ rdata' \in Word
  BY DEF TypeOK, Clock, Edge, Reset, Begin, Command, Data, Acknowledge, busVars
<1>5. timeout_cnt' \in 0 .. Timeout /\ timeout_hit' \in BOOLEAN
  <2>1. timeout_cnt \in 0 .. Timeout /\ timeout_hit \in BOOLEAN /\ 0 \in 0 .. Timeout
    BY DEF TypeOK
  <2>2. Watchdog \/ (timeout_cnt' = 0 /\ timeout_hit' = FALSE)
    BY DEF Clock, Edge, Reset, Begin, Command, Data, Acknowledge
  <2>3. CASE Watchdog
    <3>1. timeout_hit' \in BOOLEAN
      BY <2>1, <2>3 DEF Watchdog
    <3>2. timeout_cnt' = 0 \/ timeout_cnt' = timeout_cnt
          \/ (timeout_cnt # Timeout /\ timeout_cnt' = timeout_cnt + 1)
      BY <2>3 DEF Watchdog, Expiry
    <3> QED
      BY <2>1, <3>1, <3>2
  <2> QED
    BY <2>1, <2>2, <2>3
<1>6. mem' \in [Addr -> Word]
  <2>1. /\ Controller(wait) /\ mem \in [Addr -> Word] /\ avm_address \in Addr /\ avm_wdata \in Word
    BY DEF Clock, TypeOK
  <2>2. [l \in Lane |-> IF l \in avm_be THEN avm_wdata[l] ELSE mem[avm_address][l]] \in Word
    BY <2>1 DEF Word
  <2> QED
    BY <2>1, <2>2 DEF Controller
<1>7. /\ reading' \in Addr \union {NoAddr} /\ age' \in Nat
      /\ readdatavalid' \in BOOLEAN /\ faulty' \in BOOLEAN
      /\ readdata' \in IF readdatavalid' THEN Word ELSE {Junk}
  <2>1. /\ Controller(wait) /\ reading \in Addr \union {NoAddr} /\ age \in Nat
        /\ readdatavalid \in BOOLEAN /\ faulty \in BOOLEAN
        /\ mem \in [Addr -> Word] /\ avm_address \in Addr
    BY DEF Clock, TypeOK
  <2>2. age' \in Nat
    BY <2>1 DEF Controller
  <2>3. reading' \in Addr \union {NoAddr} /\ readdatavalid' \in BOOLEAN
    BY <2>1 DEF Controller, NoWord
  <2>4. readdata' \in IF readdatavalid' THEN Word ELSE {Junk}
    BY <2>1, ConstantsAssumption DEF Controller, NoWord
  <2>5. faulty' \in BOOLEAN
    BY <2>1 DEF Controller
  <2> QED
    BY <2>2, <2>3, <2>4, <2>5
<1>8. accepted' \in Nat /\ expired' \in BOOLEAN
  <2>1. History(wait) /\ accepted \in Nat /\ expired \in BOOLEAN
    BY DEF TypeOK, Clock
  <2>2. accepted' \in Nat
    BY <2>1 DEF History
  <2>3. expired' \in BOOLEAN
    BY <2>1 DEF History, Expiry
  <2> QED
    BY <2>2, <2>3
<1> QED
  BY <1>2, <1>3, <1>4, <1>5, <1>6, <1>7, <1>8 DEF TypeOK

(* The clock edge of the state machine, for each state it may be in.        *)
LEMMA EdgeCases ==
  ASSUME TypeOK, NEW wait \in BOOLEAN, Edge(wait)
  PROVE  \/ Reset
         \/ ~rst /\ state = "ST_IDLE" /\ Begin
         \/ ~rst /\ state = "ST_CMD" /\ Command(wait)
         \/ ~rst /\ state = "ST_DATA" /\ Data
         \/ ~rst /\ state = "ST_ACK" /\ Acknowledge
BY DEF Edge, Begin, Command, Data, Acknowledge

(* The CPU keeps its cycle, but for a reset or the end DTACK allows.        *)
LEMMA CpuCases ==
  ASSUME TypeOK, BusShape, NEW wait \in BOOLEAN, Clock(wait)
  PROVE  /\ rst' => cpu' = "none"
         /\ state # "ST_IDLE" /\ ~rst' =>
              \/ state # "ST_ACK" /\ ~rst
                 /\ UNCHANGED <<cpu, cpu_addr, cpu_lanes, cpu_writedata>>
              \/ rst /\ cpu' = "none"
              \/ state = "ST_ACK" /\ cpu = "none"
              \/ state = "ST_ACK" /\ cpu # "none"
                 /\ (cpu' = cpu \/ cpu' = "none")
                 /\ UNCHANGED <<cpu_addr, cpu_lanes, cpu_writedata>>
<1>1. /\ Cpu /\ rst \in BOOLEAN /\ cpu \in {"none", "rd", "wr"}
      /\ state \in {"ST_IDLE", "ST_CMD", "ST_DATA", "ST_ACK"}
  BY DEF Clock, TypeOK
<1>2. rst' => cpu' = "none"
  BY <1>1 DEF Cpu
<1>3. CASE rst
  BY <1>1, <1>3 DEF Cpu
<1>4. CASE ~rst
  <2>1. state \in {"ST_CMD", "ST_DATA"} => cpu # "none"
    BY <1>4 DEF BusShape, Busy, access_active
  <2>2. ASSUME ~rst' PROVE CpuStep
    BY <1>1, <1>4, <2>2 DEF Cpu
  <2>3. CASE rst'
    BY <1>2, <2>3
  <2>4. CASE ~rst'
    BY <1>1, <1>4, <2>1, <2>2, <2>4 DEF CpuStep, cpu_dtack
  <2> QED
    BY <1>1, <2>3, <2>4
<1> QED
  BY <1>1, <1>2, <1>3, <1>4

(* One clock edge keeps request and bus cycle in step.                      *)
LEMMA StepBusShape ==
  ASSUME TypeOK, BusShape, NEW wait \in BOOLEAN, Clock(wait)
  PROVE  BusShape'
<1>1. Edge(wait) /\ Cpu /\ cpu \in {"none", "rd", "wr"}
      /\ avm_read \in BOOLEAN /\ avm_write \in BOOLEAN /\ rst \in BOOLEAN
  BY DEF Clock, TypeOK
<1>2. CASE Reset
  BY <1>1, <1>2, CpuCases DEF Reset, BusShape, Busy, access_active
<1>3. CASE ~rst /\ state = "ST_IDLE" /\ Begin
  <2>1. rst' => cpu' = "none"
    BY CpuCases
  <2>2. CASE access_active
    <3>1. ~rst' => UNCHANGED <<cpu, cpu_addr, cpu_lanes, cpu_writedata>>
      BY <1>1, <1>3, <2>2 DEF Cpu, CpuStep, cpu_dtack, access_active
    <3>2. /\ state' = "ST_CMD" /\ avm_address' = cpu_addr /\ avm_wdata' = cpu_writedata
          /\ avm_write' = (cpu = "wr") /\ avm_read' = (cpu = "rd")
          /\ cpu = "wr" => avm_be' = cpu_lanes
      BY <1>3, <2>2 DEF Begin
    <3> QED
      BY <1>1, <2>1, <2>2, <3>1, <3>2 DEF BusShape, Busy, access_active
  <2>3. CASE ~access_active
    BY <1>3, <2>1, <2>3 DEF Begin, BusShape, Busy, access_active, busVars
  <2> QED
    BY <2>2, <2>3
<1>4. CASE ~rst /\ state = "ST_CMD" /\ Command(wait)
  BY <1>1, <1>4, CpuCases DEF Command, BusShape, Busy, access_active
<1>5. CASE ~rst /\ state = "ST_DATA" /\ Data
  BY <1>1, <1>5, CpuCases DEF Data, BusShape, Busy, access_active
<1>6. CASE ~rst /\ state = "ST_ACK" /\ Acknowledge
  BY <1>1, <1>6, CpuCases DEF Acknowledge, BusShape, Busy, access_active, busVars
<1> QED
  BY <1>1, <1>2, <1>3, <1>4, <1>5, <1>6, EdgeCases

(* One clock edge keeps bus cycle, transaction and controller in step.      *)
LEMMA StepTransactionShape ==
  ASSUME TypeOK, BusShape, TransactionShape, NEW wait \in BOOLEAN, Clock(wait)
  PROVE  TransactionShape'
<1>1. /\ Edge(wait) /\ Controller(wait) /\ History(wait)
      /\ avm_read \in BOOLEAN /\ avm_write \in BOOLEAN /\ wait \in BOOLEAN
      /\ mem \in [Addr -> Word] /\ avm_address \in Addr
      /\ reading \in Addr \union {NoAddr}
      /\ NoAddr \notin Addr
  BY ConstantsAssumption DEF Clock, TypeOK
<1>2. readdatavalid' => reading' = NoAddr
  BY <1>1 DEF Controller, NoWord, Pending, TransactionShape
<1>3. ASSUME state' = "ST_CMD"
      PROVE  accepted' = 0 /\ ~expired'
  <2>1. CASE state = "ST_IDLE"
    BY <1>1, <2>1 DEF History
  <2>2. CASE state # "ST_IDLE"
    <3>1. state = "ST_CMD" /\ wait /\ ~Expiry
      BY <1>1, <1>3, <2>2, EdgeCases DEF Reset, Command, Data, Acknowledge
    <3> QED
      BY <1>1, <3>1 DEF History, TransactionShape
  <2> QED
    BY <2>1, <2>2
<1>4. ASSUME state' = "ST_DATA"
      PROVE  /\ accepted' = 1
             /\ reading' # NoAddr => reading' = avm_address'
             /\ readdatavalid' => readdata' = mem'[avm_address']
  <2>1. CASE state = "ST_CMD"
    <3>1. ~wait /\ avm_read /\ ~avm_write /\ UNCHANGED avm_address
      BY <1>1, <1>4, <2>1, EdgeCases DEF Command, Reset, BusShape
    <3>2. accepted' = 1
      BY <1>1, <2>1, <3>1 DEF History, TransactionShape
    <3>3. reading' = avm_address /\ ~readdatavalid'
      BY <1>1, <3>1 DEF Controller, NoWord, Pending
    <3> QED
      BY <3>1, <3>2, <3>3
  <2>2. CASE state # "ST_CMD"
    <3>1. state = "ST_DATA" /\ UNCHANGED avm_address
      BY <1>1, <1>4, <2>2, EdgeCases DEF Reset, Begin, Data, Acknowledge, busVars
    <3>2. ~avm_read /\ ~avm_write
      BY <3>1 DEF BusShape
    <3>3. accepted' = 1
      BY <1>1, <3>1, <3>2 DEF History, TransactionShape
    <3>4. mem' = mem /\ (reading' = reading \/ reading' = NoAddr)
      BY <1>1, <3>2 DEF Controller
    <3>5. readdatavalid' => reading # NoAddr /\ readdata' = mem[reading]
      BY <1>1, <3>2 DEF Controller, NoWord, Pending
    <3> QED
      BY <3>1, <3>3, <3>4, <3>5 DEF TransactionShape
  <2> QED
    BY <2>1, <2>2
<1> QED
  BY <1>2, <1>3, <1>4 DEF TransactionShape

(* One clock edge adds at most one transaction to a bus cycle.              *)
LEMMA StepAtMostOnce ==
  ASSUME TypeOK, BusShape, TransactionShape, AtMostOnce, NEW wait \in BOOLEAN, Clock(wait)
  PROVE  AtMostOnce'
<1>1. History(wait) /\ accepted \in Nat
      /\ state \in {"ST_IDLE", "ST_CMD", "ST_DATA", "ST_ACK"}
  BY DEF Clock, TypeOK
<1>2. CASE state = "ST_CMD"
  BY <1>1, <1>2 DEF History, TransactionShape, AtMostOnce
<1>3. CASE state # "ST_CMD"
  BY <1>1, <1>3 DEF History, BusShape, AtMostOnce
<1> QED
  BY <1>2, <1>3

(* One clock edge never acknowledges what was not done.                     *)
LEMMA StepAckMeansDone ==
  ASSUME TypeOK, BusShape, TransactionShape, AckMeansDone, BusShape', NEW wait \in BOOLEAN, Clock(wait)
  PROVE  AckMeansDone'
<1> SUFFICES ASSUME state' = "ST_ACK", access_active', ~expired'
             PROVE  /\ accepted' = 1
                    /\ cpu' = "rd" => rdata' = mem'[cpu_addr']
                    /\ cpu' = "wr" => \A l \in cpu_lanes' : mem'[cpu_addr'][l] = cpu_writedata'[l]
  BY DEF AckMeansDone
<1>1. /\ Edge(wait) /\ Controller(wait) /\ History(wait)
      /\ avm_read \in BOOLEAN /\ avm_write \in BOOLEAN /\ wait \in BOOLEAN
      /\ mem \in [Addr -> Word] /\ avm_address \in Addr
      /\ avm_be \in SUBSET Lane
      /\ reading \in Addr \union {NoAddr}
      /\ state \in {"ST_IDLE", "ST_CMD", "ST_DATA", "ST_ACK"}
      /\ cpu \in {"none", "rd", "wr"}
  BY DEF Clock, TypeOK
<1>2. ~rst /\ ~rst' /\ state # "ST_IDLE"
  BY <1>1, EdgeCases, BusShape' DEF Reset, Begin, BusShape, access_active, busVars
<1>3. /\ access_active
      /\ UNCHANGED <<cpu, cpu_addr, cpu_lanes, cpu_writedata>>
  <2>1. state = "ST_ACK" => access_active
    BY <1>1, <1>2, EdgeCases DEF Acknowledge, Reset
  <2> QED
    BY <1>1, <1>2, <2>1, CpuCases DEF access_active, BusShape, Busy
<1>4. ~Expiry /\ ~expired
  BY <1>1, <1>2 DEF History
<1>5. /\ avm_address = cpu_addr
      /\ cpu = "wr" => avm_be = cpu_lanes /\ avm_wdata = cpu_writedata
  BY <1>2, <1>3 DEF BusShape
<1>6. CASE state = "ST_CMD"
  <2>1. ~wait /\ ~avm_read /\ avm_write /\ cpu = "wr"
    BY <1>1, <1>2, <1>3, <1>4, <1>6, EdgeCases DEF Command, BusShape, Reset, access_active
  <2>2. accepted' = 1
    BY <1>1, <1>6, <2>1 DEF History, TransactionShape
  <2>3. mem' = [mem EXCEPT ![avm_address] =
                  [l \in Lane |-> IF l \in avm_be THEN avm_wdata[l] ELSE mem[avm_address][l]]]
    BY <1>1, <2>1 DEF Controller, NoWord, Pending
  <2> QED
    BY <1>1, <1>3, <1>5, <2>1, <2>2, <2>3
<1>7. CASE state = "ST_DATA"
  <2>1. readdatavalid /\ rdata' = readdata /\ cpu = "rd" /\ ~avm_read /\ ~avm_write
    BY <1>1, <1>2, <1>4, <1>7, EdgeCases DEF Data, BusShape, Reset
  <2>2. accepted' = 1 /\ mem' = mem
    BY <1>1, <1>7, <2>1 DEF History, TransactionShape, Controller
  <2> QED
    BY <1>3, <1>5, <1>7, <2>1, <2>2 DEF TransactionShape
<1>8. CASE state = "ST_ACK"
  <2>1. ~avm_read /\ ~avm_write /\ UNCHANGED rdata
    BY <1>1, <1>2, <1>8, EdgeCases DEF Acknowledge, BusShape, Reset
  <2>2. accepted' = accepted /\ mem' = mem
    BY <1>1, <1>8, <2>1 DEF History, Controller
  <2> QED
    BY <1>3, <1>4, <1>8, <2>1, <2>2 DEF AckMeansDone
<1> QED
  BY <1>1, <1>2, <1>6, <1>7, <1>8

(* One clock edge of a controller that keeps its latency keeps the count    *)
(* within what stall and latency allow.                                     *)
LEMMA StepBudget ==
  ASSUME TypeOK, BusShape, TransactionShape, Budget, WatchdogQuiet,
         NEW wait \in BOOLEAN, Clock(wait)
  PROVE  Budget' /\ WatchdogQuiet'
<1> SUFFICES ASSUME ~faulty' PROVE Budget' /\ WatchdogQuiet'
  BY DEF Budget, WatchdogQuiet
<1>0. ~faulty
  BY DEF Clock, Controller, TypeOK
<1>1. /\ Edge(wait) /\ Controller(wait)
      /\ avm_read \in BOOLEAN /\ avm_write \in BOOLEAN /\ wait \in BOOLEAN
      /\ reading \in Addr \union {NoAddr} /\ avm_address \in Addr
      /\ NoAddr \notin Addr
      /\ state \in {"ST_IDLE", "ST_CMD", "ST_DATA", "ST_ACK"}
      /\ age \in Nat /\ timeout_cnt \in Nat
      /\ MaxLatency \in Nat /\ MaxStall \in Nat /\ Timeout \in Nat
      /\ MaxStall + 2 * MaxLatency + 3 < Timeout
  BY ConstantsAssumption DEF Clock, TypeOK
<1>2. /\ age <= MaxLatency \/ age <= MaxStall
      /\ reading # NoAddr => age <= MaxLatency
      /\ state = "ST_CMD" /\ reading # NoAddr => timeout_cnt <= age
      /\ state = "ST_CMD" /\ reading = NoAddr =>
           timeout_cnt <= MaxLatency + 1 + age /\ age <= MaxStall
      /\ state = "ST_DATA" /\ reading # NoAddr =>
           timeout_cnt <= MaxLatency + 1 + MaxStall + 1 + age
      /\ state = "ST_DATA" /\ reading = NoAddr =>
           readdatavalid /\ timeout_cnt <= MaxLatency + 1 + MaxStall + 1 + MaxLatency + 1
  BY <1>0 DEF Budget
<1>3. ~Expiry
  BY <1>1, <1>2 DEF Expiry, Busy
<1>4. WatchdogQuiet'
  BY <1>0, <1>1, <1>3, EdgeCases
     DEF WatchdogQuiet, Reset, Begin, Command, Data, Acknowledge, Watchdog
<1>5. /\ age' <= MaxLatency \/ age' <= MaxStall
      /\ reading' # NoAddr => age' <= MaxLatency
  BY <1>1, <1>2 DEF Controller
<1>6. /\ state' = "ST_CMD" /\ reading' # NoAddr => timeout_cnt' <= age'
      /\ state' = "ST_CMD" /\ reading' = NoAddr =>
           timeout_cnt' <= MaxLatency + 1 + age' /\ age' <= MaxStall
  <2> SUFFICES ASSUME state' = "ST_CMD"
               PROVE  /\ reading' # NoAddr => timeout_cnt' <= age'
                      /\ reading' = NoAddr => timeout_cnt' <= MaxLatency + 1 + age' /\ age' <= MaxStall
    OBVIOUS
  <2>1. CASE state = "ST_IDLE"
    <3>1. timeout_cnt' = 0 /\ ~avm_read /\ ~avm_write
      BY <1>1, <2>1, EdgeCases DEF Begin, Watchdog, Busy, BusShape, Reset
    <3>2. reading' = NoAddr => age' = 0
      BY <1>1, <3>1 DEF Controller
    <3>3. age' \in Nat
      BY <1>1 DEF Controller
    <3>4. CASE reading' = NoAddr
      BY <3>1, <3>2, <3>4, ConstantsAssumption
    <3>5. CASE reading' # NoAddr
      BY <3>1, <3>3, <3>5
    <3> QED
      BY <3>4, <3>5
  <2>2. CASE state = "ST_CMD"
    <3>1. wait /\ timeout_cnt' = timeout_cnt + 1 /\ (avm_read \/ avm_write)
      BY <1>1, <1>3, <2>2, EdgeCases DEF Command, Watchdog, Busy, BusShape, Reset
    <3>2. CASE reading = NoAddr
      BY <1>1, <1>2, <2>2, <3>1, <3>2 DEF Controller, NoWord, Pending
    <3>3. CASE reading # NoAddr
      BY <1>1, <1>2, <2>2, <3>1, <3>3 DEF Controller, NoWord, Pending
    <3> QED
      BY <3>2, <3>3
  <2> QED
    BY <1>1, <2>1, <2>2, EdgeCases DEF Reset, Data, Acknowledge
<1>7. /\ state' = "ST_DATA" /\ reading' # NoAddr =>
           timeout_cnt' <= MaxLatency + 1 + MaxStall + 1 + age'
      /\ state' = "ST_DATA" /\ reading' = NoAddr =>
           readdatavalid' /\ timeout_cnt' <= MaxLatency + 1 + MaxStall + 1 + MaxLatency + 1
  <2> SUFFICES ASSUME state' = "ST_DATA"
               PROVE  /\ reading' # NoAddr => timeout_cnt' <= MaxLatency + 1 + MaxStall + 1 + age'
                      /\ reading' = NoAddr =>
                           readdatavalid' /\ timeout_cnt' <= MaxLatency + 1 + MaxStall + 1 + MaxLatency + 1
    OBVIOUS
  <2>1. CASE state = "ST_CMD"
    <3>1. ~wait /\ avm_read /\ ~avm_write /\ timeout_cnt' = timeout_cnt + 1
      BY <1>1, <1>3, <2>1, EdgeCases DEF Command, Watchdog, Busy, BusShape, Reset
    <3>2. reading = NoAddr /\ reading' = avm_address /\ age' = 0
      BY <1>1, <3>1 DEF Controller, NoWord, Pending
    <3> QED
      BY <1>1, <1>2, <2>1, <3>1, <3>2
  <2>2. CASE state = "ST_DATA"
    <3>1. ~readdatavalid /\ timeout_cnt' = timeout_cnt + 1 /\ ~avm_read /\ ~avm_write
      BY <1>1, <1>3, <2>2, EdgeCases DEF Data, Watchdog, Busy, BusShape, Reset
    <3>2. reading # NoAddr
      BY <1>2, <2>2, <3>1
    <3>3. \/ reading' = reading /\ age < MaxLatency /\ age' = age + 1
          \/ reading' = NoAddr /\ readdatavalid'
      BY <1>1, <3>2 DEF Controller, NoWord, Pending
    <3> QED
      BY <1>1, <1>2, <2>2, <3>1, <3>2, <3>3
  <2> QED
    BY <1>1, <2>1, <2>2, EdgeCases DEF Reset, Begin, Acknowledge, busVars
<1> QED
  BY <1>4, <1>5, <1>6, <1>7 DEF Budget

(* Whatever CPU, controller and reset do, the state machine stays in the    *)
(* invariant.                                                              *)
THEOREM Inductive ==
  Spec => []IInv
<1>1. Init => IInv
  BY InitIInv
<1>2. ASSUME IInv, [Next]_vars
      PROVE  IInv'
  <2>1. CASE Next
    <3>1. PICK wait \in BOOLEAN : Clock(wait)
      BY <2>1 DEF Next
    <3>2. TypeOK'
      BY <1>2, <3>1, StepTypeOK DEF IInv
    <3>3. BusShape'
      BY <1>2, <3>1, StepBusShape DEF IInv
    <3>4. TransactionShape'
      BY <1>2, <3>1, StepTransactionShape DEF IInv
    <3>5. AtMostOnce'
      BY <1>2, <3>1, StepAtMostOnce DEF IInv
    <3>6. AckMeansDone'
      BY <1>2, <3>1, <3>3, StepAckMeansDone DEF IInv
    <3>7. Budget' /\ WatchdogQuiet'
      BY <1>2, <3>1, StepBudget DEF IInv
    <3> QED
      BY <3>2, <3>3, <3>4, <3>5, <3>6, <3>7 DEF IInv
  <2>2. CASE UNCHANGED vars
    BY <1>2, <2>2
       DEF IInv, TypeOK, BusShape, TransactionShape, AtMostOnce, AckMeansDone, Budget,
           WatchdogQuiet, Busy, access_active, vars, cpuVars, fsmVars, busVars, ctrlVars
  <2> QED
    BY <1>2, <2>1, <2>2
<1> QED
  BY <1>1, <1>2, PTL DEF Spec

(* Every register and input keeps its type.                                 *)
THEOREM TypeCorrect ==
  Spec => []TypeOK
<1>1. IInv => TypeOK
  BY DEF IInv
<1> QED
  BY <1>1, Inductive, PTL

(* A bus cycle puts at most one transaction on the bus.                     *)
THEOREM OneTransactionPerCycle ==
  Spec => []AtMostOnce
<1>1. IInv => AtMostOnce
  BY DEF IInv
<1> QED
  BY <1>1, Inductive, PTL

(* DTACK that the watchdog did not force means the cycle was performed.     *)
THEOREM DtackMeansDone ==
  Spec => []AckMeansDone
<1>1. IInv => AckMeansDone
  BY DEF IInv
<1> QED
  BY <1>1, Inductive, PTL

(* A controller that stalls and works no longer than promised, with three   *)
(* cycles to spare for two of its latencies and a stall, never meets the    *)
(* watchdog, whenever resets abandon its reads.                             *)
THEOREM WatchdogNeverFires ==
  Spec => []WatchdogQuiet
<1>1. IInv => WatchdogQuiet
  BY DEF IInv
<1> QED
  BY <1>1, Inductive, PTL

(* On a working controller DTACK follows within the controller's own times,  *)
(* whatever the watchdog's limit: 60 clocks on SdramBus.                     *)
THEOREM AnsweredSoon ==
  Spec => []SoonOver
<1>1. IInv => SoonOver
  BY ConstantsAssumption DEF IInv, TypeOK, Budget, SoonOver, Busy
<1> QED
  BY <1>1, Inductive, PTL

(* A write changes the bytes the CPU strobes, of the word it addresses.     *)
THEOREM WritesStayInBounds ==
  Spec => OnlyStrobedBytes
<1>1. ASSUME IInv, [Next]_vars
      PROVE  [\A a \in Addr, l \in Lane :
                mem'[a][l] # mem[a][l] =>
                  rst \/ (cpu = "wr" /\ a = cpu_addr /\ l \in cpu_lanes)]_vars
  <2> SUFFICES ASSUME NEW a \in Addr, NEW l \in Lane, mem'[a][l] # mem[a][l], ~rst
               PROVE  cpu = "wr" /\ a = cpu_addr /\ l \in cpu_lanes
    OBVIOUS
  <2>1. Next
    BY <1>1 DEF vars, ctrlVars
  <2>2. PICK wait \in BOOLEAN : Clock(wait)
    BY <2>1 DEF Next
  <2>3. /\ Controller(wait) /\ mem \in [Addr -> Word] /\ avm_address \in Addr
        /\ state \in {"ST_IDLE", "ST_CMD", "ST_DATA", "ST_ACK"}
    BY <1>1, <2>2 DEF IInv, TypeOK, Clock
  <2>4. /\ avm_write
        /\ mem' = [mem EXCEPT ![avm_address] =
                      [k \in Lane |-> IF k \in avm_be THEN avm_wdata[k] ELSE mem[avm_address][k]]]
    BY <2>3 DEF Controller
  <2>5. a = avm_address /\ l \in avm_be
    BY <2>3, <2>4
  <2>6. cpu = "wr" /\ avm_address = cpu_addr /\ avm_be = cpu_lanes
    BY <1>1, <2>3, <2>4 DEF IInv, BusShape, Busy, access_active
  <2> QED
    BY <2>5, <2>6
<1> QED
  BY <1>1, Inductive, PTL DEF OnlyStrobedBytes, Spec

(* No 68000 bus cycle is ever held for longer than the watchdog allows: the  *)
(* safety half of CpuAnswered, with a number.                               *)
THEOREM AnsweredInTime ==
  Spec => CountsDown
<1>1. ASSUME IInv, [Next]_vars
      PROVE  [access_active /\ access_active' /\ ~cpu_dtack =>
                ToAck \in 1 .. Timeout + 3 /\ ToAck' \in 0 .. ToAck - 1]_vars
  <2> SUFFICES ASSUME Next, access_active, access_active', ~cpu_dtack
               PROVE  ToAck \in 1 .. Timeout + 3 /\ ToAck' \in 0 .. ToAck - 1
    BY <1>1
  <2>1. PICK wait \in BOOLEAN : Clock(wait)
    BY DEF Next
  <2>2. /\ timeout_cnt \in 0 .. Timeout /\ Timeout \in Nat
        /\ state \in {"ST_IDLE", "ST_CMD", "ST_DATA"}
    BY <1>1, ConstantsAssumption DEF IInv, TypeOK, cpu_dtack
  <2>3. ~rst /\ Edge(wait)
    BY <1>1, <2>1 DEF IInv, BusShape, access_active, Clock
  <2>4. \/ state = "ST_IDLE" /\ state' = "ST_CMD" /\ timeout_cnt' = 0
        \/ state \in {"ST_CMD", "ST_DATA"} /\ state' = "ST_ACK"
        \/ /\ state = "ST_CMD" /\ state' = "ST_DATA"
           /\ timeout_cnt' \in {timeout_cnt, timeout_cnt + 1} /\ timeout_cnt' <= Timeout
        \/ /\ state \in {"ST_CMD", "ST_DATA"} /\ state' = state
           /\ timeout_cnt # Timeout /\ timeout_cnt' = timeout_cnt + 1
    BY <2>2, <2>3 DEF Edge, Reset, Begin, Command, Data, Acknowledge, Watchdog, Expiry, Busy
  <2> QED
    BY <2>2, <2>4 DEF ToAck
<1> QED
  BY <1>1, Inductive, PTL DEF CountsDown, Spec
(* The state machine is a master as the arbiter and the controller want it,  *)
(* whenever the watchdog or a reset takes its request back.                  *)
THEOREM ProperMaster ==
  Spec => RequestHeld
<1>1. ASSUME IInv, [Next]_vars
      PROVE  [avm_read \/ avm_write =>
                /\ ~(avm_read /\ avm_write)
                /\ avm_read' \/ avm_write' => UNCHANGED busVars]_vars
  <2> SUFFICES ASSUME Next, avm_read \/ avm_write
               PROVE  /\ ~(avm_read /\ avm_write)
                      /\ avm_read' \/ avm_write' => UNCHANGED busVars
    BY <1>1
  <2>1. PICK wait \in BOOLEAN : Clock(wait)
    BY DEF Next
  <2>2. /\ state = "ST_CMD" /\ avm_read # avm_write
        /\ avm_read \in BOOLEAN /\ avm_write \in BOOLEAN
    BY <1>1 DEF IInv, TypeOK, BusShape
  <2>3. Reset \/ Command(wait)
    BY <2>1, <2>2 DEF Clock, Edge, Begin, Data, Acknowledge
  <2>4. CASE Reset
    BY <2>2, <2>4 DEF Reset
  <2>5. CASE Command(wait)
    BY <2>2, <2>5 DEF Command, busVars
  <2> QED
    BY <2>3, <2>4, <2>5
<1> QED
  BY <1>1, Inductive, PTL DEF RequestHeld, Spec
=============================================================================
