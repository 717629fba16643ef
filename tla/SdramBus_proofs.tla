--------------------------- MODULE SdramBus_proofs ---------------------------
(***************************************************************************)
(* Proofs about SdramBus, for every memory, refresh interval and traffic of  *)
(* the two masters: avm_arbit.vhd on sdram.vhd implements AvmArbit, whose    *)
(* theorems (AvmArbit_proofs) then hold of main RAM and the QL-SD buffer,    *)
(* and the chip's command and refresh times are kept.                       *)
(***************************************************************************)
EXTENDS SdramBus, AvmArbit_proofs

(* The times of sdram.vhd.                                                   *)
LEMMA Times ==
  /\ Ctl!CAC = 3 /\ Ctl!RCD = 3 /\ Ctl!RC = 10 /\ Ctl!RP = 3 /\ Ctl!MRD = 2 /\ Ctl!QMD = 2
  /\ Ctl!Grace = 12
  /\ RefreshTime \in Nat /\ RefreshTime >= 22 /\ PowerOnTime \in Nat \ {0}
  /\ NoAddr \notin Addr /\ (\A a \in Addr : a.row # NoAddr)
<1>1. /\ Ctl!CAC = 3 /\ Ctl!RCD = 3 /\ Ctl!RC = 10 /\ Ctl!RP = 3 /\ Ctl!MRD = 2
      /\ Ctl!QMD = 2 /\ Ctl!Grace = 12
  BY DEF Ctl!CAC, Ctl!RCD, Ctl!RC, Ctl!RP, Ctl!MRD, Ctl!QMD, Ctl!Grace
<1>2. Ctl!ConstantsAssumption
  BY BusAssumption
<1> QED
  BY <1>1, <1>2 DEF Ctl!ConstantsAssumption

-----------------------------------------------------------------------------
(* The schedule of the controller.                                           *)

(* One edge adds one to the time since a command, where it still counts.      *)
LEMMA AgoStep ==
  ASSUME Ctl!Schedule, Ctl!Chip, NEW c \in Ctl!Timed
  PROVE  /\ Ctl!Ago(c) \in Nat /\ since'[c] \in Nat
         /\ since'[c] <= Ctl!Ago(c) + 1
         /\ \/ since'[c] = Ctl!Ago(c) + 1
            \/ since'[c] = Ctl!Ago(c) /\ Ctl!Ago(c) >= 10
<1>1. since \in [Ctl!Timed -> Nat] /\ since[c] \in Nat
  BY DEF Ctl!Schedule
<1>2. since'[c] = IF pins.cmd = c THEN 1
                  ELSE IF since[c] < Ctl!Longest(c) THEN since[c] + 1 ELSE since[c]
  BY DEF Ctl!Chip
<1>3. Ctl!Longest(c) \in Nat /\ Ctl!Longest(c) >= 10
  BY Times DEF Ctl!Longest
<1> QED
  BY <1>1, <1>2, <1>3 DEF Ctl!Ago

LEMMA SinceType == ASSUME Ctl!Schedule, Ctl!Chip PROVE since' \in [Ctl!Timed -> Nat]
<1>1. \A c \in Ctl!Timed : since'[c] \in Nat
  BY AgoStep
<1>2. since' = [c \in Ctl!Timed |-> since'[c]]
  BY DEF Ctl!Chip
<1> QED
  BY <1>1, <1>2
-----------------------------------------------------------------------------
(* What an edge does to the state, the timers and the command.               *)

Runs(f) == timer_refresh' = (IF timer_refresh > 0 THEN timer_refresh - 1 ELSE 0) /\ f

(* It waits for the command timer.                                           *)
WaitStep ==
  /\ state \notin {"IDLE", "WRITE"} /\ timer_cmd > 0
  /\ state' = state /\ timer_cmd' = timer_cmd - 1 /\ pins'.cmd \in {"NOP", "BST"}

(* It sends command c from state s and goes to state to.                     *)
SendStep(s, c, t, to) ==
  /\ state = s /\ (s # "WRITE" => timer_cmd = 0)
  /\ state' = to /\ timer_cmd' = t /\ pins'.cmd = c

(* The steps that leave the refresh timer running.                           *)
OrdinaryStep ==
  \/ WaitStep
  \/ SendStep("INIT_POWER_ON", "PRE", 2, "INIT_PRECHARGE")
  \/ SendStep("INIT_PRECHARGE", "REF", 9, "INIT_REFRESH_1")
  \/ SendStep("INIT_REFRESH_2", "MRS", 1, "INIT_SET_MODE")
  \/ SendStep("INIT_SET_MODE", "NOP", 0, "IDLE")
  \/ SendStep("PRECHARGE", "NOP", 0, "IDLE")
  \/ SendStep("REFRESH", "NOP", 0, "IDLE")
  \/ SendStep("ACTIVE", "READ", 4, "READ")
  \/ SendStep("ACTIVE", "WRITE", 0, "WRITE")
  \/ SendStep("READ", "PRE", 2, "PRECHARGE")
  \/ SendStep("WRITE", "PRE", 2, "PRECHARGE")

FirstRefresh ==
  SendStep("INIT_REFRESH_1", "REF", 9, "INIT_REFRESH_2") /\ timer_refresh' = RefreshTime - 1

RefreshStep ==
  /\ state = "IDLE" /\ timer_refresh = 0
  /\ state' = "REFRESH" /\ timer_cmd' = 10 /\ pins'.cmd = "REF"
  /\ timer_refresh' = RefreshTime - 1

AcceptStep ==
  /\ state = "IDLE" /\ timer_refresh > 0
  /\ state' = "ACTIVE" /\ timer_cmd' = 2 /\ pins'.cmd = "ACT" /\ pins'.a \in Addr

StayStep ==
  /\ state = "IDLE" /\ timer_refresh > 0
  /\ state' = "IDLE" /\ timer_cmd' \in Nat /\ pins'.cmd = "NOP"

LEMMA Pins ==
  /\ Ctl!Nop.cmd = "NOP"
  /\ \A c : [Ctl!Nop EXCEPT !.cmd = c].cmd = c
  /\ \A c, a : [Ctl!Nop EXCEPT !.cmd = c, !.a = a].cmd = c
  /\ \A c, a : [Ctl!Nop EXCEPT !.cmd = c, !.a = a].a = a
  /\ \A c, m : [Ctl!Nop EXCEPT !.cmd = c, !.mask = m].cmd = c
  BY DEF Ctl!Nop

(* The word of a write on the pins.                                          *)
LEMMA FifoCommand ==
  ASSUME Ctl!Schedule, NEW a
  PROVE  [fifo EXCEPT !.cmd = "WRITE", !.a = a].cmd = "WRITE"
<1>1. "cmd" \in DOMAIN fifo
  <2>1. fifo = [Ctl!Nop EXCEPT !.mask = fifo.mask, !.dq = fifo.dq]
    BY DEF Ctl!Schedule
  <2>2. DOMAIN Ctl!Nop = {"cmd", "a", "mask", "dq"}
    BY DEF Ctl!Nop
  <2> QED
    BY <2>1, <2>2
<1> QED
  BY <1>1

(* A state of After waits, or sends its command.                             *)
LEMMA AfterSteps ==
  ASSUME Ctl!Schedule, NEW from, NEW c, NEW t, NEW to, Ctl!After(from, c, t, to)
  PROVE  /\ state = from
         /\ \/ /\ timer_cmd = 0 /\ state' = to /\ timer_cmd' = t /\ pins'.cmd = c
            \/ /\ timer_cmd > 0 /\ state' = from /\ timer_cmd' = timer_cmd - 1
               /\ pins'.cmd = "NOP"
<1>1. timer_cmd \in Nat
  BY DEF Ctl!Schedule
<1>2. CASE timer_cmd = 0
  BY <1>2, Pins DEF Ctl!After, Ctl!Command
<1>3. CASE timer_cmd # 0
  <2>1. pins' = Ctl!Nop /\ timer_cmd' = timer_cmd - 1 /\ timer_cmd > 0
    BY <1>1, <1>3 DEF Ctl!After, Ctl!Down
  <2>2. state = from /\ state' = from
    BY <1>3 DEF Ctl!After
  <2> QED
    BY <2>1, <2>2, Pins
<1> QED
  BY <1>2, <1>3

LEMMA ControllerSteps ==
  ASSUME Ctl!Schedule, NEW rd \in BOOLEAN, NEW wr \in BOOLEAN, NEW a, NEW w, NEW be,
         rd \/ wr => a \in Addr, Ctl!Controller(rd, wr, a, w, be)
  PROVE  FirstRefresh \/ RefreshStep \/ Runs(OrdinaryStep \/ AcceptStep \/ StayStep)
<1>t. timer_cmd \in Nat /\ timer_refresh \in Nat
  BY DEF Ctl!Schedule
<1>d. Ctl!Down(timer_refresh) = IF timer_refresh > 0 THEN timer_refresh - 1 ELSE 0
  BY DEF Ctl!Down
<1>1. CASE Ctl!PowerUp
  <2>1. ASSUME Ctl!After("INIT_POWER_ON", "PRE", Ctl!RP - 1, "INIT_PRECHARGE"), timer_refresh' = Ctl!Down(timer_refresh)
       PROVE  Runs(OrdinaryStep)
    <3>1. Runs(WaitStep) \/ Runs(SendStep("INIT_POWER_ON", "PRE", 2, "INIT_PRECHARGE"))
      BY <2>1, <1>d, AfterSteps, Times DEF Runs, WaitStep, SendStep
    <3> QED
      BY <3>1 DEF Runs, OrdinaryStep
  <2>2. ASSUME Ctl!After("INIT_PRECHARGE", "REF", Ctl!RC - 1, "INIT_REFRESH_1"), timer_refresh' = Ctl!Down(timer_refresh)
       PROVE  Runs(OrdinaryStep)
    <3>1. Runs(WaitStep) \/ Runs(SendStep("INIT_PRECHARGE", "REF", 9, "INIT_REFRESH_1"))
      BY <2>2, <1>d, AfterSteps, Times DEF Runs, WaitStep, SendStep
    <3> QED
      BY <3>1 DEF Runs, OrdinaryStep
  <2>3. ASSUME Ctl!After("INIT_REFRESH_2", "MRS", Ctl!MRD - 1, "INIT_SET_MODE"), timer_refresh' = Ctl!Down(timer_refresh)
       PROVE  Runs(OrdinaryStep)
    <3>1. Runs(WaitStep) \/ Runs(SendStep("INIT_REFRESH_2", "MRS", 1, "INIT_SET_MODE"))
      BY <2>3, <1>d, AfterSteps, Times DEF Runs, WaitStep, SendStep
    <3> QED
      BY <3>1 DEF Runs, OrdinaryStep
  <2>4. ASSUME Ctl!After("INIT_SET_MODE", "NOP", 0, "IDLE"), timer_refresh' = Ctl!Down(timer_refresh)
       PROVE  Runs(OrdinaryStep)
    <3>1. Runs(WaitStep) \/ Runs(SendStep("INIT_SET_MODE", "NOP", 0, "IDLE"))
      BY <2>4, <1>d, AfterSteps, Times DEF Runs, WaitStep, SendStep
    <3> QED
      BY <3>1 DEF Runs, OrdinaryStep
  <2>5. ASSUME Ctl!After("INIT_REFRESH_1", "REF", Ctl!RC - 1, "INIT_REFRESH_2"),
               timer_refresh' = IF timer_cmd = 0 THEN RefreshTime - 1 ELSE Ctl!Down(timer_refresh)
       PROVE  FirstRefresh \/ Runs(OrdinaryStep)
    <3>1. FirstRefresh \/ Runs(WaitStep)
      BY <2>5, <1>d, <1>t, AfterSteps, Times DEF Runs, WaitStep, SendStep, FirstRefresh
    <3> QED
      BY <3>1 DEF Runs, OrdinaryStep
  <2>6. FirstRefresh \/ Runs(OrdinaryStep)
    BY <1>1, <2>1, <2>2, <2>3, <2>4, <2>5 DEF Ctl!PowerUp
  <2> QED
    BY <2>6 DEF Runs
<1>2. CASE Ctl!Refresh
  <2>1. RefreshStep
    BY <1>2, Pins, Times DEF Ctl!Refresh, Ctl!Command, RefreshStep
  <2> QED
    BY <2>1
<1>3. CASE Ctl!Accept(rd, wr, a, w, be)
  <2>1. Runs(AcceptStep)
    BY <1>3, <1>t, <1>d, Pins, Times DEF Ctl!Accept, AcceptStep, Runs
  <2> QED
    BY <2>1 DEF Runs
<1>4. CASE Ctl!Stay(rd, wr)
  <2>1. Runs(StayStep)
    BY <1>4, <1>t, <1>d, Pins DEF Ctl!Stay, StayStep, Runs, Ctl!Down
  <2> QED
    BY <2>1 DEF Runs
<1>5. CASE Ctl!Active
  <2>0. /\ state = "ACTIVE" /\ timer_refresh' = Ctl!Down(timer_refresh)
        /\ \/ timer_cmd # 0 /\ pins'.cmd = "NOP" /\ timer_cmd' = Ctl!Down(timer_cmd) /\ state' = state
           \/ timer_cmd = 0 /\ pins'.cmd = "READ" /\ timer_cmd' = 4 /\ state' = "READ"
           \/ /\ timer_cmd = 0 /\ pins'.cmd = "WRITE" /\ timer_cmd' = 0 /\ state' = "WRITE"
    <3>1. CASE timer_cmd # 0
      BY <1>5, <3>1, Pins DEF Ctl!Active
    <3>2. CASE timer_cmd = 0 /\ avm_read /\ state' = "READ"
      <4>1. /\ pins' = [Ctl!Nop EXCEPT !.cmd = "READ", !.a = avm_address]
            /\ timer_cmd' = Ctl!CAC + 1 /\ state = "ACTIVE"
            /\ timer_refresh' = Ctl!Down(timer_refresh)
        BY <1>5, <3>2 DEF Ctl!Active
      <4>2. [Ctl!Nop EXCEPT !.cmd = "READ", !.a = avm_address].cmd = "READ"
        BY Pins
      <4>3. timer_cmd' = 4
        BY <4>1, Times
      <4> QED
        BY <3>2, <4>1, <4>2, <4>3
    <3>3. CASE timer_cmd = 0 /\ state' = "WRITE"
      BY <1>5, <3>3, FifoCommand DEF Ctl!Active
    <3> QED
      BY <1>5, <3>1, <3>2, <3>3 DEF Ctl!Active
  <2>1. Runs(WaitStep) \/ Runs(SendStep("ACTIVE", "READ", 4, "READ"))
        \/ Runs(SendStep("ACTIVE", "WRITE", 0, "WRITE"))
    BY <2>0, <1>t, <1>d DEF Runs, WaitStep, SendStep, Ctl!Down
  <2> QED
    BY <2>1 DEF Runs, OrdinaryStep
<1>6. CASE Ctl!Write
  <2>1. Runs(SendStep("WRITE", "PRE", 2, "PRECHARGE"))
    BY <1>6, <1>d, Pins, Times DEF Runs, SendStep, Ctl!Write, Ctl!Command
  <2> QED
    BY <2>1 DEF Runs, OrdinaryStep
<1>7. CASE Ctl!Read
  <2>0. pins'.cmd = IF timer_cmd = 4 THEN "BST" ELSE IF timer_cmd = 0 THEN "PRE" ELSE "NOP"
    BY <1>7, Pins, Times DEF Ctl!Read
  <2>1. /\ state = "READ" /\ timer_refresh' = Ctl!Down(timer_refresh)
        /\ \/ timer_cmd = 0 /\ timer_cmd' = 2 /\ state' = "PRECHARGE"
           \/ timer_cmd # 0 /\ timer_cmd' = timer_cmd - 1 /\ state' = state
    BY <1>7, <1>t, Times DEF Ctl!Read, Ctl!Down
  <2>2. Runs(WaitStep) \/ Runs(SendStep("READ", "PRE", 2, "PRECHARGE"))
    BY <2>0, <2>1, <1>t, <1>d DEF Runs, WaitStep, SendStep
  <2> QED
    BY <2>2 DEF Runs, OrdinaryStep
<1>8. CASE Ctl!Recover
  <2>1. ASSUME Ctl!After("PRECHARGE", "NOP", 0, "IDLE"), timer_refresh' = Ctl!Down(timer_refresh)
       PROVE  Runs(OrdinaryStep)
    <3>1. Runs(WaitStep) \/ Runs(SendStep("PRECHARGE", "NOP", 0, "IDLE"))
      BY <2>1, <1>d, AfterSteps DEF Runs, WaitStep, SendStep
    <3> QED
      BY <3>1 DEF Runs, OrdinaryStep
  <2>2. ASSUME Ctl!After("REFRESH", "NOP", 0, "IDLE"), timer_refresh' = Ctl!Down(timer_refresh)
       PROVE  Runs(OrdinaryStep)
    <3>1. Runs(WaitStep) \/ Runs(SendStep("REFRESH", "NOP", 0, "IDLE"))
      BY <2>2, <1>d, AfterSteps DEF Runs, WaitStep, SendStep
    <3> QED
      BY <3>1 DEF Runs, OrdinaryStep
  <2>3. Runs(OrdinaryStep)
    BY <1>8, <2>1, <2>2 DEF Ctl!Recover
  <2> QED
    BY <2>3 DEF Runs
<1> QED
  BY <1>1, <1>2, <1>3, <1>4, <1>5, <1>6, <1>7, <1>8 DEF Ctl!Controller
-----------------------------------------------------------------------------
(* The schedule is kept.  The counts of the four timed commands, as numbers:  *)
(* before the edge, and after it.                                            *)

LEMMA Counts ==
  ASSUME Ctl!Schedule, Ctl!Chip
  PROVE  \A c \in {"ACT", "PRE", "REF", "MRS"} :
           /\ Ctl!Ago(c) \in Nat /\ since'[c] \in Nat
           /\ since'[c] <= Ctl!Ago(c) + 1
           /\ since'[c] = Ctl!Ago(c) + 1 \/ (since'[c] = Ctl!Ago(c) /\ Ctl!Ago(c) >= 10)
           /\ Ctl!Ago(c)' = IF pins'.cmd = c THEN 0 ELSE since'[c]
<1>1. Ctl!Timed = {"ACT", "PRE", "REF", "MRS"}
  BY DEF Ctl!Timed
<1>2. \A c : Ctl!Ago(c)' = IF pins'.cmd = c THEN 0 ELSE since'[c]
  BY DEF Ctl!Ago
<1> QED
  BY <1>1, <1>2, AgoStep

LEMMA RowStep ==
  ASSUME Ctl!Schedule, Ctl!Chip
  PROVE  /\ pins.cmd = "ACT" => open' # NoAddr /\ state = "ACTIVE"
         /\ pins.cmd = "PRE" => open' = NoAddr
         /\ pins.cmd \notin {"ACT", "PRE"} => open' = open
<1>1. pins.cmd = "ACT" => open' = pins.a.row /\ state = "ACTIVE" /\ pins.a \in Addr
  BY DEF Ctl!Schedule, Ctl!Rows, Ctl!Chip
<1>2. pins.cmd = "ACT" => open' # NoAddr
  BY <1>1, Times
<1>3. pins.cmd # "ACT" => open' = IF pins.cmd = "PRE" THEN NoAddr ELSE open
  BY DEF Ctl!Chip
<1> QED
  BY <1>1, <1>2, <1>3

LEMMA TimingStep ==
  ASSUME Ctl!Schedule, Ctl!Chip,
         FirstRefresh \/ RefreshStep \/ Runs(OrdinaryStep \/ AcceptStep \/ StayStep)
  PROVE  Ctl!Counted' /\ Ctl!Over' /\ Ctl!Rows' /\ Ctl!CommandsInTime'
<1> USE Times
<1>1. /\ Ctl!Counted /\ Ctl!Over /\ Ctl!Rows /\ timer_cmd \in Nat
      /\ state \in {"INIT_POWER_ON", "INIT_PRECHARGE", "INIT_REFRESH_1", "INIT_REFRESH_2",
                   "INIT_SET_MODE", "IDLE", "ACTIVE", "WRITE", "READ", "PRECHARGE", "REFRESH"}
  BY DEF Ctl!Schedule, Ctl!States, Ctl!Initial
<1>2. CASE FirstRefresh
  <2>1. Ctl!Counted' /\ Ctl!Over'
    BY <1>1, <1>2, Counts DEF FirstRefresh, SendStep, Ctl!Counted, Ctl!Over
  <2>2. Ctl!Rows'
    BY <1>1, <1>2, Counts, RowStep DEF FirstRefresh, SendStep, Ctl!Counted, Ctl!Over, Ctl!Rows, Ctl!Ago
  <2>3. Ctl!CommandsInTime'
    BY <1>1, <1>2, Counts, RowStep
       DEF FirstRefresh, SendStep, Ctl!Counted, Ctl!Over, Ctl!Rows, Ctl!CommandsInTime, Ctl!Ago
  <2> QED
    BY <2>1, <2>2, <2>3
<1>3. CASE RefreshStep
  <2>1. Ctl!Counted' /\ Ctl!Over'
    BY <1>1, <1>3, Counts DEF RefreshStep, Ctl!Counted, Ctl!Over
  <2>2. Ctl!Rows'
    BY <1>1, <1>3, Counts, RowStep DEF RefreshStep, Ctl!Counted, Ctl!Over, Ctl!Rows, Ctl!Ago
  <2>3. Ctl!CommandsInTime'
    BY <1>1, <1>3, Counts, RowStep
       DEF RefreshStep, Ctl!Counted, Ctl!Over, Ctl!Rows, Ctl!CommandsInTime, Ctl!Ago
  <2> QED
    BY <2>1, <2>2, <2>3
<1>4. CASE AcceptStep
  <2>1. Ctl!Counted' /\ Ctl!Over'
    BY <1>1, <1>4, Counts DEF AcceptStep, Ctl!Counted, Ctl!Over
  <2>2. Ctl!Rows'
    BY <1>1, <1>4, Counts, RowStep DEF AcceptStep, Ctl!Counted, Ctl!Over, Ctl!Rows, Ctl!Ago
  <2>3. Ctl!CommandsInTime'
    BY <1>1, <1>4, Counts, RowStep
       DEF AcceptStep, Ctl!Counted, Ctl!Over, Ctl!Rows, Ctl!CommandsInTime, Ctl!Ago
  <2> QED
    BY <2>1, <2>2, <2>3
<1>5. CASE StayStep
  <2>1. Ctl!Counted' /\ Ctl!Over'
    BY <1>1, <1>5, Counts DEF StayStep, Ctl!Counted, Ctl!Over
  <2>2. Ctl!Rows'
    BY <1>1, <1>5, Counts, RowStep DEF StayStep, Ctl!Counted, Ctl!Over, Ctl!Rows, Ctl!Ago
  <2>3. Ctl!CommandsInTime'
    BY <1>1, <1>5, Counts, RowStep
       DEF StayStep, Ctl!Counted, Ctl!Over, Ctl!Rows, Ctl!CommandsInTime, Ctl!Ago
  <2> QED
    BY <2>1, <2>2, <2>3
<1>6. CASE WaitStep
  <2>1. Ctl!Counted' /\ Ctl!Over'
    BY <1>1, <1>6, Counts DEF WaitStep, Ctl!Counted, Ctl!Over
  <2>2. Ctl!Rows'
    BY <1>1, <1>6, Counts, RowStep DEF WaitStep, Ctl!Counted, Ctl!Over, Ctl!Rows, Ctl!Ago
  <2>3. Ctl!CommandsInTime'
    BY <1>1, <1>6, Counts, RowStep
       DEF WaitStep, Ctl!Counted, Ctl!Over, Ctl!Rows, Ctl!CommandsInTime, Ctl!Ago
  <2> QED
    BY <2>1, <2>2, <2>3
<1>7. CASE SendStep("INIT_POWER_ON", "PRE", 2, "INIT_PRECHARGE")
  <2>1. Ctl!Counted' /\ Ctl!Over'
    BY <1>1, <1>7, Counts DEF SendStep, Ctl!Counted, Ctl!Over
  <2>2. Ctl!Rows'
    BY <1>1, <1>7, Counts, RowStep DEF SendStep, Ctl!Counted, Ctl!Over, Ctl!Rows, Ctl!Ago
  <2>3. Ctl!CommandsInTime'
    BY <1>1, <1>7, Counts, RowStep
       DEF SendStep, Ctl!Counted, Ctl!Over, Ctl!Rows, Ctl!CommandsInTime, Ctl!Ago
  <2> QED
    BY <2>1, <2>2, <2>3
<1>8. CASE SendStep("INIT_PRECHARGE", "REF", 9, "INIT_REFRESH_1")
  <2>1. Ctl!Counted' /\ Ctl!Over'
    BY <1>1, <1>8, Counts DEF SendStep, Ctl!Counted, Ctl!Over
  <2>2. Ctl!Rows'
    BY <1>1, <1>8, Counts, RowStep DEF SendStep, Ctl!Counted, Ctl!Over, Ctl!Rows, Ctl!Ago
  <2>3. Ctl!CommandsInTime'
    BY <1>1, <1>8, Counts, RowStep
       DEF SendStep, Ctl!Counted, Ctl!Over, Ctl!Rows, Ctl!CommandsInTime, Ctl!Ago
  <2> QED
    BY <2>1, <2>2, <2>3
<1>9. CASE SendStep("INIT_REFRESH_2", "MRS", 1, "INIT_SET_MODE")
  <2>1. Ctl!Counted' /\ Ctl!Over'
    BY <1>1, <1>9, Counts DEF SendStep, Ctl!Counted, Ctl!Over
  <2>2. Ctl!Rows'
    BY <1>1, <1>9, Counts, RowStep DEF SendStep, Ctl!Counted, Ctl!Over, Ctl!Rows, Ctl!Ago
  <2>3. Ctl!CommandsInTime'
    BY <1>1, <1>9, Counts, RowStep
       DEF SendStep, Ctl!Counted, Ctl!Over, Ctl!Rows, Ctl!CommandsInTime, Ctl!Ago
  <2> QED
    BY <2>1, <2>2, <2>3
<1>10. CASE SendStep("INIT_SET_MODE", "NOP", 0, "IDLE")
  <2>1. Ctl!Counted' /\ Ctl!Over'
    BY <1>1, <1>10, Counts DEF SendStep, Ctl!Counted, Ctl!Over
  <2>2. Ctl!Rows'
    BY <1>1, <1>10, Counts, RowStep DEF SendStep, Ctl!Counted, Ctl!Over, Ctl!Rows, Ctl!Ago
  <2>3. Ctl!CommandsInTime'
    BY <1>1, <1>10, Counts, RowStep
       DEF SendStep, Ctl!Counted, Ctl!Over, Ctl!Rows, Ctl!CommandsInTime, Ctl!Ago
  <2> QED
    BY <2>1, <2>2, <2>3
<1>11. CASE SendStep("PRECHARGE", "NOP", 0, "IDLE")
  <2>1. Ctl!Counted' /\ Ctl!Over'
    BY <1>1, <1>11, Counts DEF SendStep, Ctl!Counted, Ctl!Over
  <2>2. Ctl!Rows'
    BY <1>1, <1>11, Counts, RowStep DEF SendStep, Ctl!Counted, Ctl!Over, Ctl!Rows, Ctl!Ago
  <2>3. Ctl!CommandsInTime'
    BY <1>1, <1>11, Counts, RowStep
       DEF SendStep, Ctl!Counted, Ctl!Over, Ctl!Rows, Ctl!CommandsInTime, Ctl!Ago
  <2> QED
    BY <2>1, <2>2, <2>3
<1>12. CASE SendStep("REFRESH", "NOP", 0, "IDLE")
  <2>1. Ctl!Counted' /\ Ctl!Over'
    BY <1>1, <1>12, Counts DEF SendStep, Ctl!Counted, Ctl!Over
  <2>2. Ctl!Rows'
    BY <1>1, <1>12, Counts, RowStep DEF SendStep, Ctl!Counted, Ctl!Over, Ctl!Rows, Ctl!Ago
  <2>3. Ctl!CommandsInTime'
    BY <1>1, <1>12, Counts, RowStep
       DEF SendStep, Ctl!Counted, Ctl!Over, Ctl!Rows, Ctl!CommandsInTime, Ctl!Ago
  <2> QED
    BY <2>1, <2>2, <2>3
<1>13. CASE SendStep("ACTIVE", "READ", 4, "READ")
  <2>1. Ctl!Counted' /\ Ctl!Over'
    BY <1>1, <1>13, Counts DEF SendStep, Ctl!Counted, Ctl!Over
  <2>2. Ctl!Rows'
    BY <1>1, <1>13, Counts, RowStep DEF SendStep, Ctl!Counted, Ctl!Over, Ctl!Rows, Ctl!Ago
  <2>3. Ctl!CommandsInTime'
    BY <1>1, <1>13, Counts, RowStep
       DEF SendStep, Ctl!Counted, Ctl!Over, Ctl!Rows, Ctl!CommandsInTime, Ctl!Ago
  <2> QED
    BY <2>1, <2>2, <2>3
<1>14. CASE SendStep("ACTIVE", "WRITE", 0, "WRITE")
  <2>1. Ctl!Counted' /\ Ctl!Over'
    BY <1>1, <1>14, Counts DEF SendStep, Ctl!Counted, Ctl!Over
  <2>2. Ctl!Rows'
    BY <1>1, <1>14, Counts, RowStep DEF SendStep, Ctl!Counted, Ctl!Over, Ctl!Rows, Ctl!Ago
  <2>3. Ctl!CommandsInTime'
    BY <1>1, <1>14, Counts, RowStep
       DEF SendStep, Ctl!Counted, Ctl!Over, Ctl!Rows, Ctl!CommandsInTime, Ctl!Ago
  <2> QED
    BY <2>1, <2>2, <2>3
<1>15. CASE SendStep("READ", "PRE", 2, "PRECHARGE")
  <2>1. Ctl!Counted' /\ Ctl!Over'
    BY <1>1, <1>15, Counts DEF SendStep, Ctl!Counted, Ctl!Over
  <2>2. Ctl!Rows'
    BY <1>1, <1>15, Counts, RowStep DEF SendStep, Ctl!Counted, Ctl!Over, Ctl!Rows, Ctl!Ago
  <2>3. Ctl!CommandsInTime'
    BY <1>1, <1>15, Counts, RowStep
       DEF SendStep, Ctl!Counted, Ctl!Over, Ctl!Rows, Ctl!CommandsInTime, Ctl!Ago
  <2> QED
    BY <2>1, <2>2, <2>3
<1>16. CASE SendStep("WRITE", "PRE", 2, "PRECHARGE")
  <2>1. Ctl!Counted' /\ Ctl!Over'
    BY <1>1, <1>16, Counts DEF SendStep, Ctl!Counted, Ctl!Over
  <2>2. Ctl!Rows'
    BY <1>1, <1>16, Counts, RowStep DEF SendStep, Ctl!Counted, Ctl!Over, Ctl!Rows, Ctl!Ago
  <2>3. Ctl!CommandsInTime'
    BY <1>1, <1>16, Counts, RowStep
       DEF SendStep, Ctl!Counted, Ctl!Over, Ctl!Rows, Ctl!CommandsInTime, Ctl!Ago
  <2> QED
    BY <2>1, <2>2, <2>3
<1> QED
  BY <1>2, <1>3, <1>4, <1>5, <1>6, <1>7, <1>8, <1>9, <1>10, <1>11, <1>12, <1>13, <1>14, <1>15, <1>16 DEF Runs, OrdinaryStep

LEMMA RefreshingStep ==
  ASSUME Ctl!Schedule, Ctl!Chip,
         FirstRefresh \/ RefreshStep \/ Runs(OrdinaryStep \/ AcceptStep \/ StayStep)
  PROVE  Ctl!Refreshing' /\ Ctl!RefreshOnTime' /\ timer_refresh' \in Nat
<1> USE Times
<1>1. /\ Ctl!Refreshing /\ timer_cmd \in Nat /\ timer_refresh \in Nat
      /\ state \in {"INIT_POWER_ON", "INIT_PRECHARGE", "INIT_REFRESH_1", "INIT_REFRESH_2",
                   "INIT_SET_MODE", "IDLE", "ACTIVE", "WRITE", "READ", "PRECHARGE", "REFRESH"}
  BY DEF Ctl!Schedule, Ctl!States, Ctl!Initial
<1>r. /\ Ctl!Ago("REF") \in Nat /\ since'["REF"] \in Nat
      /\ since'["REF"] <= Ctl!Ago("REF") + 1
      /\ Ctl!Ago("REF")' = IF pins'.cmd = "REF" THEN 0 ELSE since'["REF"]
  BY Counts
<1>2. CASE FirstRefresh
  BY <1>1, <1>r, <1>2
     DEF FirstRefresh, SendStep, Runs, Ctl!Refreshing, Ctl!RefreshOnTime, Ctl!Left, Ctl!Initial
<1>3. CASE RefreshStep
  BY <1>1, <1>r, <1>3
     DEF RefreshStep, Runs, Ctl!Refreshing, Ctl!RefreshOnTime, Ctl!Left, Ctl!Initial
<1>4. CASE AcceptStep /\ Runs(TRUE)
  BY <1>1, <1>r, <1>4
     DEF AcceptStep, Runs, Ctl!Refreshing, Ctl!RefreshOnTime, Ctl!Left, Ctl!Initial
<1>5. CASE StayStep /\ Runs(TRUE)
  BY <1>1, <1>r, <1>5
     DEF StayStep, Runs, Ctl!Refreshing, Ctl!RefreshOnTime, Ctl!Left, Ctl!Initial
<1>6. CASE WaitStep /\ Runs(TRUE)
  BY <1>1, <1>r, <1>6
     DEF WaitStep, Runs, Ctl!Refreshing, Ctl!RefreshOnTime, Ctl!Left, Ctl!Initial
<1>7. CASE SendStep("INIT_POWER_ON", "PRE", 2, "INIT_PRECHARGE") /\ Runs(TRUE)
  BY <1>1, <1>r, <1>7
     DEF SendStep, Runs, Ctl!Refreshing, Ctl!RefreshOnTime, Ctl!Left, Ctl!Initial
<1>8. CASE SendStep("INIT_PRECHARGE", "REF", 9, "INIT_REFRESH_1") /\ Runs(TRUE)
  BY <1>1, <1>r, <1>8
     DEF SendStep, Runs, Ctl!Refreshing, Ctl!RefreshOnTime, Ctl!Left, Ctl!Initial
<1>9. CASE SendStep("INIT_REFRESH_2", "MRS", 1, "INIT_SET_MODE") /\ Runs(TRUE)
  BY <1>1, <1>r, <1>9
     DEF SendStep, Runs, Ctl!Refreshing, Ctl!RefreshOnTime, Ctl!Left, Ctl!Initial
<1>10. CASE SendStep("INIT_SET_MODE", "NOP", 0, "IDLE") /\ Runs(TRUE)
  BY <1>1, <1>r, <1>10
     DEF SendStep, Runs, Ctl!Refreshing, Ctl!RefreshOnTime, Ctl!Left, Ctl!Initial
<1>11. CASE SendStep("PRECHARGE", "NOP", 0, "IDLE") /\ Runs(TRUE)
  BY <1>1, <1>r, <1>11
     DEF SendStep, Runs, Ctl!Refreshing, Ctl!RefreshOnTime, Ctl!Left, Ctl!Initial
<1>12. CASE SendStep("REFRESH", "NOP", 0, "IDLE") /\ Runs(TRUE)
  BY <1>1, <1>r, <1>12
     DEF SendStep, Runs, Ctl!Refreshing, Ctl!RefreshOnTime, Ctl!Left, Ctl!Initial
<1>13. CASE SendStep("ACTIVE", "READ", 4, "READ") /\ Runs(TRUE)
  BY <1>1, <1>r, <1>13
     DEF SendStep, Runs, Ctl!Refreshing, Ctl!RefreshOnTime, Ctl!Left, Ctl!Initial
<1>14. CASE SendStep("ACTIVE", "WRITE", 0, "WRITE") /\ Runs(TRUE)
  BY <1>1, <1>r, <1>14
     DEF SendStep, Runs, Ctl!Refreshing, Ctl!RefreshOnTime, Ctl!Left, Ctl!Initial
<1>15. CASE SendStep("READ", "PRE", 2, "PRECHARGE") /\ Runs(TRUE)
  BY <1>1, <1>r, <1>15
     DEF SendStep, Runs, Ctl!Refreshing, Ctl!RefreshOnTime, Ctl!Left, Ctl!Initial
<1>16. CASE SendStep("WRITE", "PRE", 2, "PRECHARGE") /\ Runs(TRUE)
  BY <1>1, <1>r, <1>16
     DEF SendStep, Runs, Ctl!Refreshing, Ctl!RefreshOnTime, Ctl!Left, Ctl!Initial
<1> QED
  BY <1>2, <1>3, <1>4, <1>5, <1>6, <1>7, <1>8, <1>9, <1>10, <1>11, <1>12, <1>13, <1>14, <1>15, <1>16 DEF Runs, OrdinaryStep

LEMMA FifoStep ==
  ASSUME Ctl!Schedule, NEW rd, NEW wr, NEW a, NEW w, NEW be, Ctl!Controller(rd, wr, a, w, be)
  PROVE  fifo' = [Ctl!Nop EXCEPT !.mask = fifo'.mask, !.dq = fifo'.dq]
<1>1. \A m, d : LET f == [Ctl!Nop EXCEPT !.mask = m, !.dq = d]
               IN f = [Ctl!Nop EXCEPT !.mask = f.mask, !.dq = f.dq]
  BY DEF Ctl!Nop
<1>2. Ctl!Nop = [Ctl!Nop EXCEPT !.mask = Ctl!Nop.mask, !.dq = Ctl!Nop.dq]
  BY DEF Ctl!Nop
<1>3. fifo = [Ctl!Nop EXCEPT !.mask = fifo.mask, !.dq = fifo.dq]
  BY DEF Ctl!Schedule
<1>4. CASE fifo' = fifo
  BY <1>3, <1>4
<1>5. CASE fifo' = Ctl!Nop
  BY <1>2, <1>5
<1>6. CASE fifo' = [Ctl!Nop EXCEPT !.mask = Lane \ be, !.dq = w]
  BY <1>1, <1>6
<1>7. fifo' = fifo \/ fifo' = Ctl!Nop \/ fifo' = [Ctl!Nop EXCEPT !.mask = Lane \ be, !.dq = w]
  BY DEF Ctl!Controller, Ctl!PowerUp, Ctl!Refresh, Ctl!Accept, Ctl!Stay, Ctl!Active, Ctl!Write,
         Ctl!Read, Ctl!Recover, Ctl!regs
<1> QED
  BY <1>4, <1>5, <1>6, <1>7

(* Whatever is asked of the controller, its schedule is kept.                *)
LEMMA ScheduleStep ==
  ASSUME Ctl!Schedule, NEW rd \in BOOLEAN, NEW wr \in BOOLEAN, NEW a, NEW w, NEW be,
         rd \/ wr => a \in Addr, Ctl!Edge(rd, wr, a, w, be)
  PROVE  Ctl!Schedule'
<1>1. Ctl!Controller(rd, wr, a, w, be) /\ Ctl!Chip
  BY DEF Ctl!Edge
<1>2. FirstRefresh \/ RefreshStep \/ Runs(OrdinaryStep \/ AcceptStep \/ StayStep)
  BY <1>1, ControllerSteps
<1>3. state' \in Ctl!States /\ timer_cmd' \in Nat /\ pins'.cmd \in Ctl!Commands
  <2>1. /\ timer_cmd \in Nat
        /\ state \in {"INIT_POWER_ON", "INIT_PRECHARGE", "INIT_REFRESH_1", "INIT_REFRESH_2",
                   "INIT_SET_MODE", "IDLE", "ACTIVE", "WRITE", "READ", "PRECHARGE", "REFRESH"}
    BY DEF Ctl!Schedule, Ctl!States, Ctl!Initial
  <2>2. timer_cmd' \in Nat
    BY <1>2, <2>1 DEF FirstRefresh, RefreshStep, Runs, OrdinaryStep, AcceptStep, StayStep,
                      WaitStep, SendStep
  <2>3. state' \in Ctl!States
    BY <1>2, <2>1 DEF FirstRefresh, RefreshStep, Runs, OrdinaryStep, AcceptStep, StayStep,
                      WaitStep, SendStep, Ctl!States, Ctl!Initial
  <2>4. pins'.cmd \in Ctl!Commands
    BY <1>2 DEF FirstRefresh, RefreshStep, Runs, OrdinaryStep, AcceptStep, StayStep,
                WaitStep, SendStep, Ctl!Commands, Ctl!Timed
  <2> QED
    BY <2>2, <2>3, <2>4
<1> QED
  BY <1>1, <1>2, <1>3, TimingStep, RefreshingStep, FifoStep, SinceType DEF Ctl!Schedule

LEMMA ScheduleInit == ASSUME Ctl!Init PROVE Ctl!Schedule
<1> USE Times
<1>1. /\ state = "INIT_POWER_ON" /\ timer_cmd \in Nat /\ timer_refresh = 0
      /\ pins.cmd = "NOP" /\ open = NoAddr /\ fifo = Ctl!Nop
  BY Pins DEF Ctl!Init
<1>2. since = [c \in Ctl!Timed |-> Ctl!Longest(c)]
  BY DEF Ctl!Init
<1>3. \A c \in Ctl!Timed : Ctl!Longest(c) \in Nat /\ Ctl!Longest(c) >= 10
  BY DEF Ctl!Longest
<1>4. since \in [Ctl!Timed -> Nat]
  BY <1>2, <1>3
<1>5. \A c \in {"ACT", "PRE", "REF", "MRS"} : Ctl!Ago(c) >= 10
  BY <1>1, <1>2, <1>3 DEF Ctl!Ago, Ctl!Timed
<1>6. fifo = [Ctl!Nop EXCEPT !.mask = fifo.mask, !.dq = fifo.dq]
  BY <1>1 DEF Ctl!Nop
<1>7. Ctl!Counted /\ Ctl!Over /\ Ctl!Rows
  <2>1. Ctl!Ago("PRE") \in Nat /\ Ctl!Ago("REF") \in Nat /\ Ctl!Ago("MRS") \in Nat
    BY <1>1, <1>4 DEF Ctl!Ago, Ctl!Timed
  <2> QED
    BY <1>1, <1>5, <2>1 DEF Ctl!Counted, Ctl!Over, Ctl!Rows
<1>8. Ctl!Refreshing /\ Ctl!RefreshOnTime /\ Ctl!CommandsInTime
  BY <1>1 DEF Ctl!Refreshing, Ctl!RefreshOnTime, Ctl!CommandsInTime, Ctl!Initial
<1>9. state \in Ctl!States /\ pins.cmd \in Ctl!Commands
  BY <1>1 DEF Ctl!States, Ctl!Initial, Ctl!Commands
<1> QED
  BY <1>1, <1>4, <1>6, <1>7, <1>8, <1>9 DEF Ctl!Schedule

-----------------------------------------------------------------------------
(* The arbiter's account of the controller.                                  *)

(* Everything that is asked of the controller is in its memory.              *)
LEMMA Asked ==
  ASSUME IInv, Account
  PROVE  /\ last_grant \in Master
         /\ m_avm_cmd # "none" => /\ pin[last_grant] \in Operand[last_grant]
                                 /\ pin[last_grant].a \in Addr
                                 /\ m_avm_cmd = req[last_grant].cmd
<1>1. last_grant \in Master
  BY DEF IInv, TypeOK
<1>2. ASSUME m_avm_cmd # "none"
      PROVE  active_req(last_grant) /\ m_avm_cmd = req[last_grant].cmd
  BY <1>2 DEF m_avm_cmd, active_req
<1>3. ASSUME m_avm_cmd # "none"
      PROVE  pin[last_grant] \in Operand[last_grant]
  BY <1>1, <1>2, <1>3 DEF Account
<1>4. \A m \in Master : \A x \in Operand[m] : x.a \in Addr
  BY BusAssumption
<1> QED
  BY <1>1, <1>2, <1>3, <1>4

(* The steps of a read: it begins, or goes on, or has been answered.         *)
LEMMA ReadSteps ==
  ASSUME IInv, Account, Ctl!Schedule, Memory
  PROVE  /\ UnderWay => Ctl!waitrequest
         /\ Accepts("rd") => /\ ~UnderWay /\ UnderWay' /\ ~avm_readdatavalid'
                             /\ avm_address' = pin[last_grant].a
         /\ ~Accepts("rd") => /\ UnderWay' <=> (UnderWay /\ ~avm_readdatavalid)
                              /\ UnderWay' => avm_address' = avm_address
         /\ ~(avm_read' /\ avm_write')
         /\ avm_readdatavalid' => state' = "PRECHARGE" /\ timer_cmd' = Ctl!RP - 1
<1> DEFINE rd == m_avm_cmd = "rd"
           wr == m_avm_cmd = "wr"
           p  == pin[last_grant]
<1> USE Times
<1>0. /\ ~(avm_read /\ avm_write) /\ (avm_readdatavalid => state = "PRECHARGE" /\ timer_cmd = 2)
      /\ timer_cmd \in Nat
  BY DEF Account, Ctl!Schedule
<1>1. Ctl!Controller(rd, wr, p.a, p.w, p.be)
  BY DEF Memory, Ctl!Edge
<1>2. UnderWay => Ctl!waitrequest
  BY <1>0 DEF UnderWay, Ctl!waitrequest
<1>3. Accepts("rd") <=> (rd /\ state = "IDLE" /\ timer_refresh # 0)
  BY DEF Accepts, Ctl!waitrequest
<1>q. ASSUME Ctl!Quiet PROVE ~avm_readdatavalid'
  BY <1>q DEF Ctl!Quiet
<1>4. CASE Ctl!PowerUp
  <2>1. /\ state \in Ctl!Initial /\ state' \in Ctl!Initial \union {"IDLE"}
        /\ ~avm_readdatavalid' /\ UNCHANGED Ctl!regs
    BY <1>4, <1>q DEF Ctl!PowerUp, Ctl!After, Ctl!Initial
  <2>2. ~UnderWay /\ ~UnderWay' /\ ~Accepts("rd")
    BY <2>1, <1>0, <1>3 DEF UnderWay, Ctl!Initial
  <2> QED
    BY <1>0, <1>2, <2>1, <2>2 DEF Ctl!regs
<1>5. CASE Ctl!Refresh
  <2>1. /\ state = "IDLE" /\ timer_refresh = 0 /\ state' = "REFRESH"
        /\ ~avm_readdatavalid' /\ UNCHANGED Ctl!regs
    BY <1>5, <1>q DEF Ctl!Refresh
  <2>2. ~UnderWay /\ ~UnderWay' /\ ~Accepts("rd")
    BY <2>1, <1>0, <1>3 DEF UnderWay
  <2> QED
    BY <1>0, <1>2, <2>1, <2>2 DEF Ctl!regs
<1>6. CASE Ctl!Accept(rd, wr, p.a, p.w, p.be)
  <2>1. /\ state = "IDLE" /\ timer_refresh # 0 /\ state' = "ACTIVE" /\ avm_address' = p.a
        /\ (avm_read' <=> rd) /\ (avm_write' <=> wr) /\ ~avm_readdatavalid'
    BY <1>6, <1>q DEF Ctl!Accept
  <2>2. ~UnderWay
    BY <2>1, <1>0 DEF UnderWay
  <2>3. UnderWay' <=> rd
    BY <2>1 DEF UnderWay
  <2>4. ~(avm_read' /\ avm_write')
    BY <2>1
  <2>5. Accepts("rd") <=> rd
    BY <2>1, <1>3
  <2> QED
    BY <1>2, <2>1, <2>2, <2>3, <2>4, <2>5
<1>7. CASE Ctl!Stay(rd, wr)
  <2>1. /\ state = "IDLE" /\ ~rd /\ state' = "IDLE"
        /\ ~avm_readdatavalid' /\ UNCHANGED Ctl!regs
    BY <1>7, <1>q DEF Ctl!Stay
  <2>2. ~UnderWay /\ ~UnderWay' /\ ~Accepts("rd")
    BY <2>1, <1>0, <1>3 DEF UnderWay
  <2> QED
    BY <1>0, <1>2, <2>1, <2>2 DEF Ctl!regs
<1>8. CASE Ctl!Active
  <2>1. /\ state = "ACTIVE" /\ ~avm_readdatavalid'
        /\ UNCHANGED <<avm_read, avm_write, avm_address>>
        /\ state' = "ACTIVE" \/ (avm_read /\ state' = "READ") \/ (avm_write /\ state' = "WRITE")
    BY <1>8, <1>q DEF Ctl!Active
  <2>2. ~avm_readdatavalid /\ ~Accepts("rd")
    BY <2>1, <1>0, <1>3
  <2>3. UnderWay' <=> UnderWay
    BY <2>1, <2>2, <1>0 DEF UnderWay
  <2> QED
    BY <1>0, <1>2, <2>1, <2>2, <2>3
<1>9. CASE Ctl!Write
  <2>1. /\ state = "WRITE" /\ state' = "PRECHARGE" /\ ~avm_readdatavalid' /\ ~avm_write'
    BY <1>9, <1>q DEF Ctl!Write
  <2>2. ~UnderWay /\ ~UnderWay' /\ ~Accepts("rd")
    BY <2>1, <1>0, <1>3 DEF UnderWay
  <2> QED
    BY <1>2, <2>1, <2>2
<1>10. CASE Ctl!Read
  <2>a. Ctl!RP - 1 = 2
    OBVIOUS
  <2>b. state = "READ" /\ UNCHANGED Ctl!regs /\ avm_readdatavalid' = (timer_cmd = 0)
    BY <1>10 DEF Ctl!Read
  <2>c. \/ timer_cmd = 0 /\ timer_cmd' = Ctl!RP - 1 /\ state' = "PRECHARGE"
        \/ timer_cmd # 0 /\ UNCHANGED state
    BY <1>10, ZenonT(30) DEF Ctl!Read
  <2>1. /\ state = "READ" /\ UNCHANGED Ctl!regs
        /\ (avm_readdatavalid' <=> timer_cmd = 0)
        /\ \/ timer_cmd = 0 /\ timer_cmd' = 2 /\ state' = "PRECHARGE"
           \/ timer_cmd # 0 /\ state' = "READ"
    BY <2>a, <2>b, <2>c
  <2>2. UnderWay /\ ~avm_readdatavalid /\ UnderWay' /\ ~Accepts("rd")
    BY <2>1, <1>0, <1>3 DEF UnderWay
  <2> QED
    BY <1>0, <1>2, <2>1, <2>2 DEF Ctl!regs
<1>11. CASE Ctl!Recover
  <2>1. /\ state \in {"PRECHARGE", "REFRESH"} /\ state' \in {"PRECHARGE", "REFRESH", "IDLE"}
        /\ ~avm_readdatavalid' /\ UNCHANGED Ctl!regs
    BY <1>11, <1>q DEF Ctl!Recover, Ctl!After
  <2>2. ~UnderWay' /\ (UnderWay <=> avm_readdatavalid) /\ ~Accepts("rd")
    BY <2>1, <1>0, <1>3 DEF UnderWay
  <2> QED
    BY <1>0, <1>2, <2>1, <2>2 DEF Ctl!regs
<1> QED
  BY <1>1, <1>4, <1>5, <1>6, <1>7, <1>8, <1>9, <1>10, <1>11 DEF Ctl!Controller

(* The master whose address the controller takes is the asker.              *)
LEMMA AskerOf ==
  ASSUME NEW m \in Master, NEW x \in Operand[m], NEW a, a = x.a
  PROVE  m = IF \E y \in Operand[0] : y.a = a THEN 0 ELSE 1
<1>1. \A y \in Operand[0], z \in Operand[1] : y.a # z.a
  BY BusAssumption
<1>2. m = 0 \/ m = 1
  BY DEF Master
<1> QED
  BY <1>1, <1>2

(* An edge of the bus is an edge of the abstract arbiter.                    *)
LEMMA BusStep == ASSUME BusIInv, BusNext PROVE Clock(Ctl!waitrequest, Answered)
<1> USE DEF BusIInv
<1>0. /\ IInv /\ Account /\ Ctl!Schedule /\ Memory
      /\ last_grant \in Master /\ Nobody \notin Master /\ MaxLen = 1
      /\ req[last_grant].len \in Length /\ Asker \in Master
  <2>1. last_grant \in Master
    BY Asked
  <2>2. req[last_grant].len \in Length
    BY <2>1 DEF IInv, TypeOK
  <2>3. Asker \in Master
    BY DEF Asker, Master
  <2> QED
    BY <2>1, <2>2, <2>3, BusAssumption, ConstantsAssumption DEF BusNext
<1>1. req[last_grant].len = 1
  BY <1>0 DEF Length
<1>2. \A m \in Master : owed[m] = IF UnderWay /\ m = Asker THEN 1 ELSE 0
  BY DEF Account
<1>3. Answered # Nobody => owed[Answered] > 0
  BY <1>0, <1>2 DEF Answered, UnderWay
<1>4. (\E m \in Master : owed[m] > 0) => Ctl!waitrequest
  BY <1>0, <1>2, ReadSteps
<1>5. owed' = [m \in Master |->
         owed[m] + (IF m = last_grant /\ m_avm_cmd = "rd" /\ ~Ctl!waitrequest
                    THEN req[last_grant].len ELSE 0)
                 - (IF m = Answered THEN 1 ELSE 0)]
  BY <1>1 DEF BusNext, Ledger, Accepts
<1>6. unwritten \in [Master -> 0 .. MaxLen]
  BY DEF IInv, TypeOK
<1>7. ASSUME m_avm_cmd = "wr" PROVE unwritten[last_grant] = 0
  <2>1. req[last_grant].cmd = "wr"
    BY <1>0, <1>7, Asked
  <2>2. req[last_grant].left \in 1 .. req[last_grant].len
    BY <1>0, <2>1 DEF IInv, Presented
  <2>3. req[last_grant].left = req[last_grant].len
    BY <1>1, <2>2
  <2> QED
    BY <1>0, <2>3 DEF IInv, Presented
<1>8. unwritten' = [m \in Master |->
         IF m = last_grant /\ m_avm_cmd = "wr" /\ ~Ctl!waitrequest
         THEN IF unwritten[m] = 0 THEN req[last_grant].len - 1 ELSE unwritten[m] - 1
         ELSE unwritten[m]]
  <2>1. unwritten' = [m \in Master |-> unwritten[m]]
    BY <1>6 DEF BusNext, Ledger
  <2>2. \A m \in Master : unwritten[m] =
           IF m = last_grant /\ m_avm_cmd = "wr" /\ ~Ctl!waitrequest
           THEN IF unwritten[m] = 0 THEN req[last_grant].len - 1 ELSE unwritten[m] - 1
           ELSE unwritten[m]
    BY <1>1, <1>7
  <2> QED
    BY <2>1, <2>2
<1>9. Slave(Ctl!waitrequest, Answered)
  BY <1>3, <1>4, <1>5, <1>8 DEF Slave
<1> QED
  BY <1>9 DEF Clock, BusNext

(* The account goes on, whatever is asked.                                   *)
LEMMA AccountStep == ASSUME BusIInv, BusNext PROVE Account'
<1> USE DEF BusIInv
<1>0. /\ IInv /\ Account /\ Ctl!Schedule /\ Memory
      /\ last_grant \in Master /\ Nobody \notin Master
  BY Asked, ConstantsAssumption DEF BusNext
<1>1. /\ ~(avm_read' /\ avm_write')
      /\ avm_readdatavalid' => state' = "PRECHARGE" /\ timer_cmd' = Ctl!RP - 1
  BY <1>0, ReadSteps
<1>2. \A m \in Master : active_req(m)' => pin'[m] \in Operand[m]
  <2>1. PICK x \in Operand[0], y \in Operand[1] :
          pin' = [m \in Master |->
                   LET z == IF m = 0 THEN x ELSE y
                   IN IF ~active_req(m)' THEN Idle(m)
                      ELSE IF ~active_req(m) \/ Taken(m, Ctl!waitrequest) THEN z
                      ELSE pin[m]]
    <3>1. PICK x \in Operand[0], y \in Operand[1] :
          pin' = [m \in Master |->
             IF m = 0
             THEN IF ~active_req(0)' THEN Idle(0)
                  ELSE IF ~active_req(0) \/ Taken(0, Ctl!waitrequest) THEN x ELSE pin[0]
             ELSE IF ~active_req(1)' THEN Idle(1)
                  ELSE IF ~active_req(1) \/ Taken(1, Ctl!waitrequest) THEN y ELSE pin[1]]
      BY DEF BusNext, Operands
    <3>2. \A m \in Master : m # 0 => m = 1
      BY DEF Master
    <3> QED
      BY <3>1, <3>2
  <2>2. 0 \in Master /\ 1 \in Master /\ \A m \in Master : m = 0 \/ m = 1
    BY DEF Master
  <2> QED
    BY <2>1, <2>2 DEF Account
<1>3. owed' = [m \in Master |-> IF UnderWay' /\ m = Asker' THEN 1 ELSE 0]
  <2>1. owed' = [m \in Master |->
          owed[m] + (IF m = last_grant /\ Accepts("rd") THEN 1 ELSE 0)
                  - (IF m = Answered THEN 1 ELSE 0)]
    BY DEF BusNext, Ledger
  <2>2. \A m \in Master : owed[m] = IF UnderWay /\ m = Asker THEN 1 ELSE 0
    BY DEF Account
  <2>3. avm_readdatavalid => UnderWay
    BY DEF UnderWay
  <2>4. ASSUME Accepts("rd"), NEW m \in Master
        PROVE  owed[m] + (IF m = last_grant /\ Accepts("rd") THEN 1 ELSE 0)
                  - (IF m = Answered THEN 1 ELSE 0) = IF UnderWay' /\ m = Asker' THEN 1 ELSE 0
    <3>1. ~UnderWay /\ UnderWay' /\ avm_address' = pin[last_grant].a
      BY <1>0, <2>4, ReadSteps
    <3>2. pin[last_grant] \in Operand[last_grant]
      BY <1>0, <2>4, Asked DEF Accepts
    <3>3. Asker' = last_grant
      BY <1>0, <3>1, <3>2, AskerOf DEF Asker
    <3>4. m # Answered /\ owed[m] = 0
      BY <1>0, <2>2, <2>3, <3>1 DEF Answered
    <3> QED
      BY <2>4, <3>1, <3>3, <3>4
  <2>5. ASSUME ~Accepts("rd"), NEW m \in Master
        PROVE  owed[m] + (IF m = last_grant /\ Accepts("rd") THEN 1 ELSE 0)
                  - (IF m = Answered THEN 1 ELSE 0) = IF UnderWay' /\ m = Asker' THEN 1 ELSE 0
    <3>1. /\ UnderWay' <=> (UnderWay /\ ~avm_readdatavalid)
          /\ UnderWay' => avm_address' = avm_address
      BY <1>0, <2>5, ReadSteps
    <3>2. UnderWay' => Asker' = Asker
      BY <3>1 DEF Asker
    <3>3. m = Answered <=> (avm_readdatavalid /\ m = Asker)
      BY <1>0 DEF Answered
    <3>4. owed[m] = IF UnderWay /\ m = Asker THEN 1 ELSE 0
      BY <2>2
    <3>5. CASE avm_readdatavalid
      BY <2>3, <2>5, <3>1, <3>3, <3>4, <3>5
    <3>6. CASE ~avm_readdatavalid
      BY <2>5, <3>1, <3>2, <3>3, <3>4, <3>6
    <3> QED
      BY <3>5, <3>6
  <2>6. \A m \in Master :
          owed[m] + (IF m = last_grant /\ Accepts("rd") THEN 1 ELSE 0)
                  - (IF m = Answered THEN 1 ELSE 0) = IF UnderWay' /\ m = Asker' THEN 1 ELSE 0
    BY <2>4, <2>5
  <2> QED
    BY <2>1, <2>6
<1> QED
  BY <1>1, <1>2, <1>3 DEF Account

-----------------------------------------------------------------------------
(* The word under way.                                                       *)

(* The word of the FIFO, as it goes on the pins.                             *)
LEMMA FifoPins ==
  ASSUME Ctl!Schedule, NEW a
  PROVE  LET p == [fifo EXCEPT !.cmd = "WRITE", !.a = a]
         IN p.a = a /\ p.mask = fifo.mask /\ p.dq = fifo.dq
<1>1. DOMAIN fifo = {"cmd", "a", "mask", "dq"}
  <2>1. fifo = [Ctl!Nop EXCEPT !.mask = fifo.mask, !.dq = fifo.dq]
    BY DEF Ctl!Schedule
  <2>2. DOMAIN Ctl!Nop = {"cmd", "a", "mask", "dq"}
    BY DEF Ctl!Nop
  <2> QED
    BY <2>1, <2>2
<1> QED
  BY <1>1

(* The chip reads and writes the word that was asked for.                    *)
LEMMA ChipSteps ==
  ASSUME Ctl!Schedule, DataPath, Ctl!Chip
  PROVE  /\ cells' = IF state = "WRITE" THEN words ELSE cells
         /\ pins.cmd = "READ" => pipe'.cas1 = cells[avm_address]
         /\ pipe'.cas2 = IF pins.mask = {} THEN pipe.cas1 ELSE Junk
         /\ pipe'.cas3 = pipe.cas2 /\ sdram_dq_in' = pipe.cas3
         /\ open' = IF pins.cmd = "ACT" THEN pins.a.row
                    ELSE IF pins.cmd = "PRE" THEN NoAddr ELSE open
<1>1. avm_address = [row |-> avm_address.row, col |-> avm_address.col] /\ avm_address \in Addr
  BY BusAssumption DEF Ctl!ConstantsAssumption, DataPath
<1>2. ASSUME pins.cmd \in {"READ", "WRITE"} PROVE Ctl!Cell = avm_address
  <2>1. state \in {"READ", "WRITE"}
    BY <1>2 DEF DataPath
  <2> QED
    BY <1>1, <1>2, <2>1 DEF DataPath, Ctl!Cell
<1>3. CASE pins.cmd = "WRITE"
  <2>1. state = "WRITE" /\ words = Written(pins)
    BY <1>3 DEF DataPath
  <2>2. cells' = Written(pins)
    <3> DEFINE W(a) == [cells EXCEPT ![a] =
                          [l \in Lane |-> IF l \in pins.mask THEN @[l] ELSE pins.dq[l]]]
    <3>1. Ctl!Cell = avm_address /\ Ctl!Cell \in Addr
      BY <1>1, <1>2, <1>3
    <3>2. cells' = W(Ctl!Cell)
      BY <1>3, <3>1 DEF Ctl!Chip
    <3>3. W(avm_address) = Written(pins)
      BY DEF Written
    <3> HIDE DEF W
    <3> QED
      BY <3>1, <3>2, <3>3
  <2> QED
    BY <1>3, <2>1, <2>2 DEF Ctl!Chip
<1>4. CASE pins.cmd # "WRITE"
  <2>1. state # "WRITE" /\ cells' = cells
    BY <1>4 DEF DataPath, Ctl!Chip
  <2>2. pins.cmd = "READ" => pipe'.cas1 = cells[avm_address]
    BY <1>1, <1>2 DEF Ctl!Chip
  <2> QED
    BY <2>1, <2>2 DEF Ctl!Chip
<1> QED
  BY <1>3, <1>4

(* What is accepted joins the history of the writes.                         *)
LEMMA WordsStep ==
  ASSUME IInv, Account, DataPath, BusNext
  PROVE  LET p == pin[last_grant]
         IN /\ words' = IF Accepts("wr")
                        THEN [words EXCEPT ![p.a] =
                                [l \in Lane |-> IF l \in p.be THEN p.w[l] ELSE @[l]]]
                        ELSE words
            /\ words' \in [Addr -> Ctl!Word]
            /\ m_avm_cmd # "none" => p.a \in Addr /\ p.be \subseteq Lane
<1> DEFINE p == pin[last_grant]
<1>1. words' = IF Accepts("wr")
               THEN [words EXCEPT ![p.a] = [l \in Lane |-> IF l \in p.be THEN p.w[l] ELSE @[l]]]
               ELSE words
  BY DEF BusNext, BusHistory, Merge
<1>2. m_avm_cmd # "none" => p.a \in Addr /\ p.w \in Ctl!Word /\ p.be \subseteq Lane
  <2>1. m_avm_cmd # "none" => last_grant \in Master /\ p \in Operand[last_grant]
    BY Asked
  <2>2. \A m \in Master : Operand[m] \subseteq [a : Addr, w : Ctl!Word, be : SUBSET Lane]
    BY BusAssumption
  <2> QED
    BY <2>1, <2>2
<1>3. words \in [Addr -> Ctl!Word]
  BY DEF DataPath
<1>4. CASE Accepts("wr")
  <2>1. p.a \in Addr /\ p.w \in Ctl!Word /\ p.be \subseteq Lane
    BY <1>2, <1>4 DEF Accepts
  <2>2. words[p.a] \in Ctl!Word
    BY <1>3, <2>1
  <2>3. [l \in Lane |-> IF l \in p.be THEN p.w[l] ELSE words[p.a][l]] \in Ctl!Word
    BY <2>1, <2>2 DEF Ctl!Word
  <2>4. words' \in [Addr -> Ctl!Word]
    BY <1>1, <1>3, <1>4, <2>3
  <2> QED
    BY <1>1, <1>2, <2>4
<1>5. CASE ~Accepts("wr")
  BY <1>1, <1>2, <1>3, <1>5
<1> QED
  BY <1>4, <1>5

(* While no command is at work, memory is what the writes made it.           *)
LEMMA Calm ==
  ASSUME DataPath, BusNext, IInv, Account, Ctl!Schedule,
         state \notin {"ACTIVE", "READ", "WRITE"}, state' \notin {"ACTIVE", "READ", "WRITE"},
         pins'.cmd \notin {"READ", "WRITE"}, UNCHANGED Ctl!regs, ~avm_readdatavalid',
         ~Accepts("wr")
  PROVE  DataPath'
<1>1. cells' = cells /\ words' = words /\ words = cells
  BY ChipSteps, WordsStep DEF DataPath, BusNext, Memory, Ctl!Edge
<1>2. avm_address' = avm_address
  BY DEF Ctl!regs
<1> QED
  BY <1>1, <1>2 DEF DataPath

(* Every step of the controller moves the word under way on by one.          *)
LEMMA DataStep == ASSUME BusIInv, BusNext PROVE DataPath'
<1> USE Times
<1> DEFINE rd == m_avm_cmd = "rd"
           wr == m_avm_cmd = "wr"
           p  == pin[last_grant]
<1>0. /\ IInv /\ Account /\ Ctl!Schedule /\ DataPath /\ Ctl!Chip
      /\ Ctl!Controller(rd, wr, p.a, p.w, p.be) /\ timer_cmd \in Nat
  BY DEF BusIInv, BusNext, Memory, Ctl!Edge, Ctl!Schedule
<1>1. /\ words' \in [Addr -> Ctl!Word] /\ (~Accepts("wr") => words' = words)
      /\ words \in [Addr -> Ctl!Word] /\ cells \in [Addr -> Ctl!Word] /\ avm_address \in Addr
  BY <1>0, WordsStep DEF DataPath
<1>2. Accepts("wr") <=> (wr /\ state = "IDLE" /\ timer_refresh # 0)
  BY DEF Accepts, Ctl!waitrequest
<1>3. cells' = IF state = "WRITE" THEN words ELSE cells
  BY <1>0, ChipSteps
<1>q. ASSUME Ctl!Quiet PROVE ~avm_readdatavalid'
  BY <1>q DEF Ctl!Quiet
<1>4. CASE Ctl!PowerUp
  <2>1. /\ state \in Ctl!Initial /\ state' \in Ctl!Initial \union {"IDLE"}
        /\ ~avm_readdatavalid' /\ UNCHANGED Ctl!regs /\ pins'.cmd \notin {"READ", "WRITE"}
    <3>1. ~avm_readdatavalid' /\ UNCHANGED Ctl!regs
      BY <1>4, <1>q DEF Ctl!PowerUp
    <3>2. PICK from \in Ctl!Initial, c \in {"PRE", "REF", "MRS", "NOP"}, time \in Nat,
               to \in Ctl!Initial \union {"IDLE"} : Ctl!After(from, c, time, to)
      BY <1>4 DEF Ctl!PowerUp, Ctl!Initial
    <3>3. pins' = [Ctl!Nop EXCEPT !.cmd = c] \/ pins' = Ctl!Nop
      BY <3>2 DEF Ctl!After, Ctl!Command
    <3>4. pins'.cmd \notin {"READ", "WRITE"}
      BY <3>3, Pins
    <3> QED
      BY <3>1, <3>2, <3>4 DEF Ctl!After
  <2> QED
    BY <1>0, <1>2, <2>1, Calm DEF Ctl!Initial
<1>5. CASE Ctl!Refresh
  <2>1. /\ state = "IDLE" /\ timer_refresh = 0 /\ state' = "REFRESH"
        /\ ~avm_readdatavalid' /\ UNCHANGED Ctl!regs /\ pins'.cmd \notin {"READ", "WRITE"}
    BY <1>5, <1>q, Pins DEF Ctl!Refresh, Ctl!Command
  <2> QED
    BY <1>0, <1>2, <2>1, Calm
<1>6. CASE Ctl!Stay(rd, wr)
  <2>1. /\ state = "IDLE" /\ ~wr /\ state' = "IDLE"
        /\ ~avm_readdatavalid' /\ UNCHANGED Ctl!regs /\ pins'.cmd \notin {"READ", "WRITE"}
    BY <1>6, <1>q, Pins DEF Ctl!Stay
  <2> QED
    BY <1>0, <1>2, <2>1, Calm
<1>7. CASE Ctl!Recover
  <2>1. /\ state \in {"PRECHARGE", "REFRESH"} /\ state' \in {"PRECHARGE", "REFRESH", "IDLE"}
        /\ ~avm_readdatavalid' /\ UNCHANGED Ctl!regs /\ pins'.cmd \notin {"READ", "WRITE"}
    BY <1>7, <1>q, Pins DEF Ctl!Recover, Ctl!After, Ctl!Command
  <2> QED
    BY <1>0, <1>2, <2>1, Calm
<1>8. CASE Ctl!Accept(rd, wr, p.a, p.w, p.be)
  <2>1. /\ state = "IDLE" /\ timer_refresh # 0 /\ state' = "ACTIVE" /\ avm_address' = p.a
        /\ (avm_write' <=> wr) /\ ~avm_readdatavalid' /\ (rd \/ wr)
        /\ fifo' = IF wr THEN [Ctl!Nop EXCEPT !.mask = Lane \ p.be, !.dq = p.w] ELSE fifo
        /\ pins' = [Ctl!Nop EXCEPT !.cmd = "ACT", !.a = p.a]
    BY <1>8, <1>q DEF Ctl!Accept
  <2>2. pins'.cmd = "ACT" /\ pins'.a = p.a /\ p.a \in Addr /\ p.be \subseteq Lane
    <3>1. m_avm_cmd # "none"
      BY <2>1
    <3> QED
      BY <1>0, <2>1, <3>1, Pins, WordsStep
  <2>3. cells' = cells /\ words = cells
    BY <1>0, <1>3, <2>1 DEF DataPath
  <2>4. words' = IF avm_write' THEN Written(fifo)' ELSE cells'
    <3>1. CASE wr
      <4>1. fifo'.mask = Lane \ p.be /\ fifo'.dq = p.w
        BY <2>1, <3>1 DEF Ctl!Nop
      <4>2. words' = [words EXCEPT ![p.a] =
                        [l \in Lane |-> IF l \in p.be THEN p.w[l] ELSE words[p.a][l]]]
        <5>1. Accepts("wr")
          BY <1>2, <2>1, <3>1
        <5>2. words' = [words EXCEPT ![p.a] =
                          [l \in Lane |-> IF l \in p.be THEN p.w[l] ELSE @[l]]]
          BY <1>0, <5>1, WordsStep
        <5> QED
          BY <1>1, <2>2, <5>2
      <4>3. [l \in Lane |-> IF l \in p.be THEN p.w[l] ELSE words[p.a][l]]
            = [l \in Lane |-> IF l \in Lane \ p.be THEN words[p.a][l] ELSE p.w[l]]
        OBVIOUS
      <4>4. Written(fifo)' = [cells' EXCEPT ![p.a] =
              [l \in Lane |-> IF l \in Lane \ p.be THEN cells'[p.a][l] ELSE p.w[l]]]
        <5> DEFINE W(a, masked, w) == [cells' EXCEPT ![a] =
                     [l \in Lane |-> IF l \in masked THEN cells'[a][l] ELSE w[l]]]
        <5>1. Written(fifo)' = W(avm_address', fifo'.mask, fifo'.dq)
          BY DEF Written
        <5>2. /\ avm_address' = p.a /\ fifo'.mask = Lane \ p.be /\ fifo'.dq = p.w
          BY <2>1, <4>1
        <5> HIDE DEF W
        <5>3. Written(fifo)' = W(p.a, Lane \ p.be, p.w)
          BY <5>1, <5>2
        <5> QED
          BY <5>3 DEF W
      <4> QED
        BY <2>1, <2>3, <3>1, <4>2, <4>3, <4>4
    <3>2. CASE ~wr
      BY <1>1, <1>2, <2>1, <2>3, <3>2
    <3> QED
      BY <3>1, <3>2
  <2> QED
    BY <1>1, <2>1, <2>2, <2>3, <2>4 DEF DataPath
<1>9. CASE Ctl!Active
  <2>0. /\ state = "ACTIVE" /\ ~avm_readdatavalid' /\ UNCHANGED <<avm_write, avm_address>>
        /\ cells' = cells /\ words' = words
        /\ avm_address.row = open' /\ ~Accepts("wr")
        /\ words = IF avm_write THEN Written(fifo) ELSE cells
    <3>1. /\ state = "ACTIVE" /\ ~avm_readdatavalid' /\ UNCHANGED <<avm_write, avm_address>>
      BY <1>9, <1>q DEF Ctl!Active
    <3>2. pins.cmd # "PRE"
      BY <1>0, <3>1 DEF Ctl!Schedule, Ctl!Rows
    <3>3. avm_address.row = open'
      BY <1>0, <3>1, <3>2, ChipSteps DEF DataPath
    <3> QED
      BY <1>0, <1>1, <1>2, <1>3, <3>1, <3>3 DEF DataPath
  <2>1. CASE timer_cmd # 0 /\ pins' = Ctl!Nop /\ UNCHANGED <<state, fifo>>
    <3>1. pins'.cmd = "NOP" /\ Written(fifo)' = Written(fifo)
      BY <2>0, <2>1, Pins DEF Written
    <3> QED
      BY <1>1, <2>0, <2>1, <3>1 DEF DataPath
  <2>2. CASE /\ avm_read /\ pins' = [Ctl!Nop EXCEPT !.cmd = "READ", !.a = avm_address]
             /\ timer_cmd' = Ctl!CAC + 1 /\ state' = "READ"
    <3>1. pins'.cmd = "READ" /\ pins'.a = avm_address /\ timer_cmd' = 4
      BY <2>2, Pins
    <3>2. ~avm_write
      BY <1>0, <2>2 DEF Account
    <3> QED
      BY <1>1, <2>0, <2>2, <3>1, <3>2 DEF DataPath
  <2>3. CASE /\ avm_write /\ pins' = [fifo EXCEPT !.cmd = "WRITE", !.a = avm_address]
             /\ state' = "WRITE"
    <3>1. /\ pins'.cmd = "WRITE" /\ pins'.a = avm_address
          /\ pins'.mask = fifo.mask /\ pins'.dq = fifo.dq
      BY <1>0, <2>3, FifoCommand, FifoPins
    <3>2. Written(pins)' = Written(fifo)
      BY <2>0, <3>1 DEF Written
    <3> QED
      BY <1>1, <2>0, <2>3, <3>1, <3>2 DEF DataPath
  <2> QED
    BY <1>9, <2>1, <2>2, <2>3 DEF Ctl!Active
<1>10. CASE Ctl!Write
  <2>1. /\ state = "WRITE" /\ state' = "PRECHARGE" /\ ~avm_readdatavalid'
        /\ UNCHANGED avm_address /\ pins'.cmd = "PRE" /\ ~Accepts("wr")
    BY <1>2, <1>10, <1>q, Pins DEF Ctl!Write, Ctl!Command
  <2> QED
    BY <1>1, <1>3, <2>1 DEF DataPath
<1>11. CASE Ctl!Read
  <2>1. /\ state = "READ" /\ UNCHANGED Ctl!regs /\ ~Accepts("wr")
        /\ pins' = [Ctl!Nop EXCEPT
             !.cmd  = IF timer_cmd = Ctl!CAC + 1 THEN "BST" ELSE IF timer_cmd = 0 THEN "PRE" ELSE "NOP",
             !.mask = IF timer_cmd = Ctl!QMD + 2 THEN {} ELSE Lane]
    BY <1>2, <1>11 DEF Ctl!Read
  <2>2. /\ pins'.cmd = IF timer_cmd = 4 THEN "BST" ELSE IF timer_cmd = 0 THEN "PRE" ELSE "NOP"
        /\ timer_cmd = 4 => pins'.mask = {}
    BY <2>1 DEF Ctl!Nop
  <2>3. /\ cells' = cells /\ words' = words /\ words = cells /\ UNCHANGED avm_address
        /\ open' = open /\ avm_address.row = open /\ timer_cmd \in 0 .. 4
    <3>1. pins.cmd \notin {"ACT", "PRE"}
      BY <1>0, <2>1 DEF Ctl!Schedule, Ctl!Rows
    <3> QED
      BY <1>0, <1>1, <1>3, <2>1, <3>1, ChipSteps DEF DataPath, Ctl!regs
  <2>4. CASE timer_cmd = 0
    <3>1. /\ state' = "PRECHARGE" /\ avm_readdata' = sdram_dq_in
      BY <1>11, <2>4 DEF Ctl!Read
    <3>2. sdram_dq_in = cells[avm_address]
      BY <1>0, <2>1, <2>4 DEF DataPath
    <3> QED
      BY <1>1, <2>2, <2>3, <2>4, <3>1, <3>2 DEF DataPath
  <2>5. CASE timer_cmd # 0
    <3>1. state' = "READ" /\ timer_cmd' = timer_cmd - 1 /\ ~avm_readdatavalid'
      <4>1. timer_cmd' = Ctl!Down(timer_cmd) /\ UNCHANGED state
        BY <1>11, <2>5 DEF Ctl!Read
      <4>2. avm_readdatavalid' = (timer_cmd = 0)
        BY <1>11 DEF Ctl!Read
      <4>3. timer_cmd' = timer_cmd - 1
        BY <2>3, <2>5, <4>1 DEF Ctl!Down
      <4>4. ~avm_readdatavalid'
        BY <2>5, <4>2
      <4> QED
        BY <2>1, <4>1, <4>3, <4>4
    <3>2. /\ timer_cmd = 4 => pipe'.cas1 = cells[avm_address]
          /\ timer_cmd = 3 => pipe'.cas2 = cells[avm_address]
          /\ timer_cmd = 2 => pipe'.cas3 = cells[avm_address]
          /\ timer_cmd = 1 => sdram_dq_in' = cells[avm_address]
      BY <1>0, <2>1, ChipSteps DEF DataPath
    <3>3. pins'.cmd \notin {"READ", "WRITE"}
      BY <2>2
    <3> QED
      BY <1>1, <2>2, <2>3, <2>5, <3>1, <3>2, <3>3 DEF DataPath
  <2> QED
    BY <2>4, <2>5
<1> QED
  BY <1>0, <1>4, <1>5, <1>6, <1>7, <1>8, <1>9, <1>10, <1>11 DEF Ctl!Controller

-----------------------------------------------------------------------------
LEMMA BusInitHolds == BusInit => BusIInv
<1> SUFFICES ASSUME BusInit PROVE BusIInv
  OBVIOUS
<1>1. IInv /\ Ctl!Schedule
  BY InitHolds, ScheduleInit DEF BusInit
<1>2. state = "INIT_POWER_ON" /\ ~avm_read /\ ~avm_readdatavalid
  BY DEF BusInit, Ctl!Init
<1>3. owed = [m \in Master |-> 0] /\ \A m \in Master : ~active_req(m)
  BY DEF BusInit, Init, active_req, NoRequest
<1>4. owed = [m \in Master |-> IF UnderWay /\ m = Asker THEN 1 ELSE 0]
  BY <1>2, <1>3 DEF UnderWay
<1>5. DataPath
  BY <1>2, Pins DEF BusInit, Ctl!Init, DataPath
<1> QED
  BY <1>1, <1>2, <1>3, <1>4, <1>5 DEF BusIInv, Account

LEMMA BusStepHolds == BusIInv /\ [BusNext]_busVars => BusIInv' /\ [Next]_vars
<1>1. ASSUME BusIInv, BusNext PROVE BusIInv' /\ [Next]_vars
  <2>1. Next
    <3>1. Ctl!waitrequest \in BOOLEAN
      BY DEF Ctl!waitrequest
    <3>2. Answered \in Master \union {Nobody}
      BY DEF Answered, Asker, Master
    <3> QED
      BY <1>1, <3>1, <3>2, BusStep DEF Next
  <2>2. IInv'
    BY <1>1, <2>1, StepHolds DEF BusIInv
  <2>3. Account'
    BY <1>1, AccountStep
  <2>4. Ctl!Schedule'
    <3> DEFINE p == pin[last_grant]
    <3>1. Ctl!Edge(m_avm_cmd = "rd", m_avm_cmd = "wr", p.a, p.w, p.be)
      BY <1>1 DEF BusNext, Memory
    <3>2. m_avm_cmd = "rd" \/ m_avm_cmd = "wr" => p.a \in Addr
      BY <1>1, Asked DEF BusIInv
    <3>3. Ctl!Schedule /\ (m_avm_cmd = "rd") \in BOOLEAN /\ (m_avm_cmd = "wr") \in BOOLEAN
      BY <1>1 DEF BusIInv
    <3> QED
      BY <3>1, <3>2, <3>3, ScheduleStep
  <2>5. DataPath'
    BY <1>1, DataStep
  <2> QED
    BY <2>1, <2>2, <2>3, <2>4, <2>5 DEF BusIInv
<1>2. ASSUME BusIInv, UNCHANGED busVars PROVE BusIInv' /\ [Next]_vars
  <2>1. UNCHANGED vars /\ UNCHANGED pin /\ UNCHANGED Ctl!vars
    BY <1>2 DEF busVars
  <2>2. IInv'
    BY <1>2, <2>1, StepHolds DEF BusIInv
  <2>3. UNCHANGED <<req, owed, last_grant>>
    BY <2>1 DEF vars, arbVars, slaveVars
  <2>4. UNCHANGED <<state, timer_cmd, timer_refresh, avm_read, avm_write, avm_address, fifo,
                    pins, avm_readdatavalid, open, since>>
    BY <2>1 DEF Ctl!vars, Ctl!timers, Ctl!regs
  <2>5. Account'
    BY <1>2, <2>1, <2>3, <2>4 DEF BusIInv, Account, UnderWay, Asker, active_req
  <2>6. Ctl!Schedule'
    BY <1>2, <2>4 DEF BusIInv, Ctl!Schedule, Ctl!Counted, Ctl!Over, Ctl!Rows, Ctl!Refreshing,
         Ctl!CommandsInTime, Ctl!RefreshOnTime, Ctl!Ago, Ctl!Left
  <2>7. DataPath'
    <3>1. UNCHANGED <<cells, words, pipe, sdram_dq_in, avm_readdata>>
      BY <1>2, <2>1 DEF busVars, Ctl!vars
    <3> QED
      BY <1>2, <2>4, <3>1 DEF BusIInv, DataPath, Written
  <2> QED
    BY <2>1, <2>2, <2>5, <2>6, <2>7 DEF BusIInv
<1> QED
  BY <1>1, <1>2

(* How long main RAM waits.                                                  *)

LEMMA Limits ==
  /\ WriteRest = 7 /\ ReadTurn = 12 /\ RefreshPause = 12
  /\ MaxLatency = 7 /\ MaxStall = 43
  BY Times DEF WriteRest, ReadTurn, RefreshPause, MaxLatency, MaxStall

(* The ledger, in terms of the read under way.                               *)
OpenIsRead ==
  \A m \in Master : /\ Open(m) <=> (UnderWay /\ m = Asker)
                    /\ Working(m) <=> (UnderWay /\ m = Asker /\ ~avm_readdatavalid)

LEMMA OpenReads == BusIInv => OpenIsRead
<1> SUFFICES ASSUME BusIInv, NEW m \in Master
             PROVE  /\ Open(m) <=> (UnderWay /\ m = Asker)
                    /\ Working(m) <=> (UnderWay /\ m = Asker /\ ~avm_readdatavalid)
  BY DEF OpenIsRead
<1>1. owed[m] = IF UnderWay /\ m = Asker THEN 1 ELSE 0
  BY DEF BusIInv, Account
<1>2. unwritten[m] = 0
  <2>1. req[m].len = 1 /\ req[m].left \in {0, 1}
    BY BusAssumption DEF BusIInv, IInv, TypeOK, Length
  <2>2. unwritten[m] = IF req[m].left = req[m].len THEN 0 ELSE req[m].left
    BY DEF BusIInv, IInv, Presented
  <2> QED
    BY <2>1, <2>2
<1> QED
  BY <1>1, <1>2 DEF Open, Working

LEMMA OpenReadsNext == BusIInv' => OpenIsRead'
  BY OpenReads, PTL

(* The pause that is left before the controller takes a request.             *)
PauseBounds ==
  /\ Busy \in 0 .. 11 /\ RefreshDue \in {0, 12}
  /\ ~UnderWay => Busy <= 7 \/ RefreshDue = 0
  /\ avm_readdatavalid => Busy = 3
  /\ ~Ctl!waitrequest => Busy = 0 /\ RefreshDue = 0

LEMMA Pauses == BusIInv /\ Timetable /\ state \notin Ctl!Initial => PauseBounds
<1> SUFFICES ASSUME BusIInv, Timetable, state \notin Ctl!Initial PROVE PauseBounds
  OBVIOUS
<1>1. /\ timer_cmd \in Nat /\ timer_refresh \in Nat
      /\ avm_readdatavalid => state = "PRECHARGE" /\ timer_cmd = 2
      /\ state \in {"IDLE", "ACTIVE", "WRITE", "READ", "PRECHARGE", "REFRESH"}
  BY Times DEF BusIInv, Account, Ctl!Schedule, Ctl!States
<1> QED
  BY <1>1, Times, Limits
     DEF PauseBounds, Timetable, Busy, RefreshDue, Ctl!Left, UnderWay, Ctl!waitrequest,
         Ctl!Initial

LEMMA PausesNext ==
  BusIInv' /\ Timetable' /\ (state \notin Ctl!Initial)' => PauseBounds'
  BY Pauses, PTL

(* The timers go on within a command, and the pause gets shorter, until a    *)
(* request is taken.                                                         *)
LEMMA PauseStep ==
  ASSUME BusIInv, Timetable, Memory
  PROVE  /\ Timetable'
         /\ state \notin Ctl!Initial =>
              /\ state' \notin Ctl!Initial
              /\ Ctl!waitrequest => Busy' + RefreshDue' < Busy + RefreshDue
              /\ m_avm_cmd = "none" => Busy' + RefreshDue' <= Busy + 12
              /\ Accepts("wr") => Busy' = 7
<1> DEFINE p  == pin[last_grant]
           rd == m_avm_cmd = "rd"
           wr == m_avm_cmd = "wr"
<1> USE Times, Limits
<1>0. IInv /\ Account /\ Ctl!Schedule
  BY DEF BusIInv
<1>1. FirstRefresh \/ RefreshStep \/ Runs(OrdinaryStep \/ AcceptStep \/ StayStep)
  <2>1. Ctl!Controller(rd, wr, p.a, p.w, p.be)
    BY DEF Memory, Ctl!Edge
  <2>2. rd \/ wr => p.a \in Addr
    BY <1>0, Asked
  <2>3. rd \in BOOLEAN /\ wr \in BOOLEAN
    OBVIOUS
  <2> QED
    BY <1>0, <2>1, <2>2, <2>3, ControllerSteps
<1>2. /\ timer_cmd \in Nat /\ timer_refresh \in Nat
      /\ state \in {"INIT_POWER_ON", "INIT_PRECHARGE", "INIT_REFRESH_1", "INIT_REFRESH_2",
                    "INIT_SET_MODE", "IDLE", "ACTIVE", "WRITE", "READ", "PRECHARGE", "REFRESH"}
  BY DEF BusIInv, Ctl!Schedule, Ctl!States, Ctl!Initial
<1>3. /\ avm_readdatavalid => state = "PRECHARGE"
      /\ UnderWay => Ctl!waitrequest
      /\ Accepts("rd") => UnderWay'
      /\ ~Accepts("rd") => (UnderWay' <=> (UnderWay /\ ~avm_readdatavalid))
      /\ avm_readdatavalid' => state' = "PRECHARGE"
  BY <1>0, ReadSteps DEF Account
<1>4. Timetable'
  BY <1>1, <1>2 DEF Timetable, FirstRefresh, RefreshStep, Runs, OrdinaryStep, AcceptStep,
                    StayStep, WaitStep, SendStep
<1>a. state = "IDLE" /\ timer_refresh # 0 /\ (rd \/ wr) => state' = "ACTIVE"
  <2>1. Ctl!Controller(rd, wr, p.a, p.w, p.be)
    BY DEF Memory, Ctl!Edge
  <2> QED
    BY <2>1 DEF Ctl!Controller, Ctl!PowerUp, Ctl!After, Ctl!Refresh, Ctl!Accept, Ctl!Stay,
                Ctl!Active, Ctl!Write, Ctl!Read, Ctl!Recover
<1>b. state = "IDLE" /\ state' = "ACTIVE" => rd \/ wr
  <2>1. Ctl!Controller(rd, wr, p.a, p.w, p.be)
    BY DEF Memory, Ctl!Edge
  <2> QED
    BY <2>1 DEF Ctl!Controller, Ctl!PowerUp, Ctl!After, Ctl!Refresh, Ctl!Accept, Ctl!Stay,
                Ctl!Active, Ctl!Write, Ctl!Read, Ctl!Recover
<1>5. ASSUME state \notin Ctl!Initial
      PROVE  /\ state' \notin Ctl!Initial
             /\ Ctl!waitrequest => Busy' + RefreshDue' < Busy + RefreshDue
             /\ m_avm_cmd = "none" => Busy' + RefreshDue' <= Busy + 12
             /\ Accepts("wr") => Busy' = 7
  <2>1. CASE RefreshStep
    BY <1>2, <1>5, <2>1
       DEF RefreshStep, Busy, RefreshDue, Ctl!Left, Ctl!Initial, Accepts, Ctl!waitrequest
  <2>2. CASE AcceptStep /\ Runs(TRUE)
    <3>1. /\ ~Ctl!waitrequest /\ state = "IDLE" /\ timer_refresh # 0 /\ m_avm_cmd # "none"
          /\ ~UnderWay
      <4>1. rd \/ wr
          BY <1>b, <2>2 DEF AcceptStep
      <4> QED
        BY <1>3, <2>2, <4>1 DEF AcceptStep, Ctl!waitrequest
    <3>2. Accepts("wr") => ~avm_read'
      BY <1>3, <2>2, <3>1 DEF Accepts, UnderWay, AcceptStep
    <3> QED
      BY <2>2, <3>1, <3>2
         DEF AcceptStep, Busy, RefreshDue, Ctl!Left, Ctl!Initial
  <2>3. CASE StayStep /\ Runs(TRUE)
    BY <1>2, <1>5, <2>3, <1>a
       DEF StayStep, Busy, RefreshDue, Ctl!Left, Ctl!Initial, Accepts, Ctl!waitrequest
  <2>4. CASE OrdinaryStep /\ Runs(TRUE)
    <3>1. /\ state # "IDLE" /\ Ctl!waitrequest /\ state' \notin Ctl!Initial
      BY <1>2, <1>5, <2>4
         DEF OrdinaryStep, WaitStep, SendStep, Ctl!Initial, Ctl!waitrequest
    <3>2. /\ state = "ACTIVE" /\ state' = "ACTIVE" => (avm_read' <=> avm_read)
          /\ state = "ACTIVE" /\ state' = "READ" => avm_read
      BY <1>3, <3>1 DEF UnderWay, Accepts
    <3>3. Busy' < Busy /\ RefreshDue' <= RefreshDue
      BY <1>2, <1>5, <2>4, <3>2
         DEF OrdinaryStep, WaitStep, SendStep, Runs, Busy, RefreshDue, Ctl!Left, Ctl!Initial,
             Timetable
    <3>4. Busy \in Nat /\ RefreshDue \in {0, 12} /\ Busy' \in Int /\ RefreshDue' \in {0, 12}
      BY <1>2, <1>5, <2>4
         DEF OrdinaryStep, WaitStep, SendStep, Runs, Busy, RefreshDue, Ctl!Left, Ctl!Initial
    <3> QED
      BY <3>1, <3>3, <3>4 DEF Accepts
  <2> QED
    BY <1>1, <1>5, <2>1, <2>2, <2>3, <2>4 DEF Runs, FirstRefresh, SendStep, Ctl!Initial
<1> QED
  BY <1>4, <1>5

(* Main RAM's turn: it has it, or the other's read is under way, or the      *)
(* other's request comes first, or its own forgotten read ends.              *)
LEMMA TurnComes ==
  ASSUME BusIInv, BusNext, Stalled, ~Taken(0, Ctl!waitrequest),
         (\A m \in Master : ~grant[m]) => last_grant = 1
  PROVE  /\ ~Open(0)'
         /\ grant[0] /\ ~Open(0) => Ctl!waitrequest /\ grant'[0]
         /\ Open(1) => Ctl!waitrequest /\ (grant'[0] \/ Open(1)')
         /\ grant[1] /\ Taken(1, Ctl!waitrequest) => grant'[0] \/ Open(1)'
         /\ ~grant[0] /\ ~Open(0) /\ ~Open(1) /\ ~(grant[1] /\ active_req(1)) =>
              grant'[0] /\ m_avm_cmd = "none"
<1> DEFINE wait == Ctl!waitrequest
<1>0. /\ IInv /\ Account /\ Clock(wait, Answered) /\ wait \in BOOLEAN
      /\ Answered \in Master \union {Nobody} /\ 0 \in Master /\ 1 \in Master
      /\ Other(0) = 1 /\ Other(1) = 0 /\ BusIInv'
  BY BusStep, BusStepHolds DEF BusIInv, Ctl!waitrequest, Answered, Asker, Master, Other
<1>1. active_req(0) /\ ~(UnderWay /\ Asker = 0 /\ ~avm_readdatavalid)
  BY <1>0, OpenReads DEF OpenIsRead, Stalled
<1>2. ~Open(0)'
  <2>1. Open(0)' <=> (UnderWay' /\ Asker' = 0)
    <3>1. OpenIsRead'
      BY <1>0, OpenReadsNext
    <3> QED
      BY <1>0, <3>1 DEF OpenIsRead
  <2>2. CASE Accepts("rd")
    <3>1. m_avm_cmd = "rd" /\ ~wait /\ UnderWay' /\ avm_address' = pin[last_grant].a
      BY <1>0, <2>2, ReadSteps DEF Accepts, BusNext, BusIInv
    <3>2. grant[last_grant] /\ last_grant # 0
      <4>1. grant[last_grant] /\ active_req(last_grant)
        BY <3>1 DEF m_avm_cmd, active_req
      <4> QED
        BY <1>1, <3>1, <4>1 DEF Taken, Waits
    <3>3. pin[last_grant] \in Operand[last_grant] /\ last_grant \in Master
      BY <1>0, <3>1, Asked
    <3>4. Asker' = last_grant
      BY <3>1, <3>3, AskerOf DEF Asker
    <3> QED
      BY <2>1, <3>2, <3>4
  <2>3. CASE ~Accepts("rd")
    <3>1. UnderWay' => UnderWay /\ ~avm_readdatavalid /\ Asker' = Asker
      BY <1>0, <2>3, ReadSteps DEF BusNext, BusIInv, Asker
    <3> QED
      BY <1>1, <2>1, <3>1
  <2> QED
    BY <2>2, <2>3
<1>3. /\ grant[0] /\ ~Open(0) => grant'[0]
      /\ grant[1] /\ (Open(1) \/ Taken(1, wait)) => grant'[0] \/ (grant'[1] /\ Open(1)')
  BY <1>0, <1>1, HandOver
<1>4. grant[0] => wait
  BY <1>0, <1>1 DEF Taken, Waits
<1>5. Open(1) => wait /\ grant[1]
  <2>1. Open(1) => wait
    BY <1>0, OpenReads, ReadSteps DEF OpenIsRead, BusNext, BusIInv
  <2>2. Open(1) => grant[1]
    BY <1>0 DEF IInv, Holding
  <2> QED
    BY <2>1, <2>2
<1>6. ASSUME ~grant[0], ~Open(0), ~Open(1), ~(grant[1] /\ active_req(1))
      PROVE  grant'[0] /\ m_avm_cmd = "none"
  <2>1. m_avm_cmd = "none"
    <3>1. last_grant \in Master
      BY <1>0 DEF IInv, TypeOK
    <3>2. last_grant = 1 => ~grant[1] \/ req[1].cmd = "none"
      BY <1>6 DEF active_req
    <3> QED
      BY <1>6, <3>1, <3>2 DEF m_avm_cmd, Master
  <2>2. Grant(wait, Answered)
    BY <1>0 DEF Clock
  <2>3. CASE ~grant[1]
    <3>1. \A m \in Master : ~grant[m]
      BY <1>6, <2>3 DEF Master
    <3>2. last_grant = 1
      BY <3>1
    <3>3. \A m \in Master : ~Last(m, wait, Answered)
      BY <3>1 DEF Last
    <3>4. PICK m \in Master : /\ active_req(m) /\ (last_grant # m \/ ~active_req(Other(m)))
                              /\ grant' = [x \in Master |-> x = m]
      BY <1>0, <1>1, <2>2, <3>1, <3>3 DEF Grant
    <3>5. m = 0
      BY <1>0, <1>1, <3>2, <3>4 DEF Master
    <3> QED
      BY <1>0, <2>1, <3>4, <3>5
  <2>4. CASE grant[1]
    <3>1. ~active_req(1) /\ last_grant = 1 /\ burstcount = 0
      <4>1. \A m \in Master : ~Open(m)
        BY <1>6 DEF Master
      <4> QED
        BY <1>0, <1>6, <2>4, <4>1 DEF IInv, Exclusive, Holding
    <3>2. Last(1, wait, Answered)
      BY <2>4, <3>1 DEF Last
    <3>3. PICK m \in Master : Last(m, wait, Answered) /\ grant' = [x \in Master |-> x = Turn(m)]
      BY <1>0, <2>2, <2>4, <3>2 DEF Grant
    <3>4. m = 1
      BY <1>6, <3>3 DEF Last, Master
    <3>5. Turn(1) = 0
      BY <1>0, <1>1, <3>1 DEF Turn
    <3> QED
      BY <1>0, <2>1, <3>3, <3>4, <3>5
  <2> QED
    BY <2>3, <2>4
<1> QED
  BY <1>2, <1>3, <1>4, <1>5, <1>6

(* While main RAM waits, each clock is one less to wait.                     *)
LEMMA WaitStep0 ==
  ASSUME BusIInv, BusNext, Budget, Stalled, ~Taken(0, Ctl!waitrequest)
  PROVE  ToWait' < ToWait
<1>0. /\ Memory /\ state \notin Ctl!Initial /\ BusIInv' /\ Timetable /\ Exclusive'
      /\ active_req(0)
  <2>1. active_req(0) /\ 0 \in Master
    BY DEF Stalled, Master
  <2>2. BusIInv'
    BY BusStepHolds
  <2> QED
    BY <2>1, <2>2 DEF Budget, BusNext, BusIInv, IInv
<1>1. /\ Timetable' /\ state' \notin Ctl!Initial
      /\ Ctl!waitrequest => Busy' + RefreshDue' < Busy + RefreshDue
      /\ m_avm_cmd = "none" => Busy' + RefreshDue' <= Busy + 12
  BY <1>0, PauseStep
<1>2. PauseBounds /\ PauseBounds'
  BY <1>0, <1>1, Pauses, PausesNext
<1>3. PICK b \in 0 .. 11, d \in {0, 12}, b1 \in 0 .. 11, d1 \in {0, 12} :
        b = Busy /\ d = RefreshDue /\ b1 = Busy' /\ d1 = RefreshDue'
  BY <1>2 DEF PauseBounds
<1>4. /\ ~Open(0)'
      /\ grant[0] /\ ~Open(0) => Ctl!waitrequest /\ grant'[0]
      /\ Open(1) => Ctl!waitrequest /\ (grant'[0] \/ Open(1)')
      /\ grant[1] /\ Taken(1, Ctl!waitrequest) => grant'[0] \/ Open(1)'
      /\ ~grant[0] /\ ~Open(0) /\ ~Open(1) /\ ~(grant[1] /\ active_req(1)) =>
           grant'[0] /\ m_avm_cmd = "none"
  BY TurnComes DEF Budget
<1>5. grant'[0] => ~grant'[1]
  BY <1>0 DEF Exclusive, Master, Other
<1>6. grant'[0] \/ Open(1)' => ToWait' = b1 + d1
  BY <1>3, <1>4, <1>5 DEF ToWait
<1>7. ToWait' \in {b1 + d1 + 24, b1 + d1, b1 + 13}
  BY <1>3, Limits DEF ToWait
<1>8. CASE (grant[1] /\ active_req(1) /\ ~Open(1)) \/ Open(0)
  <2>1. Open(0) => Ctl!waitrequest
    BY <1>0, OpenReads, ReadSteps DEF OpenIsRead, BusIInv, Master
  <2>2. ToWait = b + d + 24
    BY <1>3, <1>8, Limits DEF ToWait
  <2>3. CASE Ctl!waitrequest
    <3>1. b1 + d1 < b + d
      BY <1>1, <1>3, <2>3
    <3>2. b1 + d1 + 24 < b + d + 24 /\ b1 + d1 < b + d + 24 /\ b1 + 13 < b + d + 24
      BY <3>1
    <3> QED
      BY <1>7, <2>2, <3>2
  <2>4. CASE ~Ctl!waitrequest
    <3>1. Taken(1, Ctl!waitrequest) /\ grant[1]
      BY <1>8, <2>1, <2>4 DEF Taken, Waits
    <3>2. ToWait' = b1 + d1
      BY <1>4, <1>6, <3>1
    <3>3. b1 + d1 < b + d + 24
      OBVIOUS
    <3> QED
      BY <2>2, <3>2, <3>3
  <2> QED
    BY <2>3, <2>4
<1>9. CASE /\ ~((grant[1] /\ active_req(1) /\ ~Open(1)) \/ Open(0))
           /\ grant[0] \/ Open(1)
  <2>1. ToWait = b + d
    BY <1>3, <1>9 DEF ToWait
  <2>2. Ctl!waitrequest /\ ToWait' = b1 + d1
    BY <1>4, <1>6, <1>9
  <2>3. b1 + d1 < b + d
    BY <1>1, <1>3, <2>2
  <2> QED
    BY <2>1, <2>2, <2>3
<1>10. CASE /\ ~((grant[1] /\ active_req(1) /\ ~Open(1)) \/ Open(0))
            /\ ~(grant[0] \/ Open(1))
  <2>1. ToWait = b + 13
    BY <1>3, <1>10, Limits DEF ToWait
  <2>2. m_avm_cmd = "none" /\ ToWait' = b1 + d1
    BY <1>4, <1>6, <1>10
  <2>3. b1 + d1 <= b + 12
    BY <1>1, <1>3, <2>2
  <2> QED
    BY <2>1, <2>2, <2>3
<1> QED
  BY <1>8, <1>9, <1>10

(* A request that has just come waits MaxStall clocks at most.               *)
LEMMA ToWaitBound ==
  BusIInv /\ Timetable /\ state \notin Ctl!Initial /\ Stalled => ToWait \in 0 .. MaxStall
<1> SUFFICES ASSUME BusIInv, Timetable, state \notin Ctl!Initial, Stalled
             PROVE  ToWait \in 0 .. 43
  BY Limits
<1> USE Limits
<1>1. PauseBounds /\ OpenIsRead
  BY Pauses, OpenReads
<1>2. /\ Busy \in 0 .. 11 /\ RefreshDue \in {0, 12}
      /\ ~UnderWay => Busy <= 7 \/ RefreshDue = 0
      /\ avm_readdatavalid => Busy = 3
  BY <1>1 DEF PauseBounds
<1>3. Open(0) => avm_readdatavalid
  BY <1>1 DEF OpenIsRead, Stalled, Master
<1>4. grant[1] /\ ~Open(1) => ~UnderWay
  <2>1. ASSUME grant[1], ~Open(1), UnderWay PROVE FALSE
    <3>1. Asker \in Master /\ Open(Asker)
      BY <1>1, <2>1 DEF OpenIsRead, Asker, Master
    <3>2. grant[Asker]
      BY <3>1 DEF BusIInv, IInv, Holding
    <3>3. Asker = 0
      BY <2>1, <3>1 DEF Master
    <3> QED
      BY <2>1, <3>2, <3>3 DEF BusIInv, IInv, Exclusive, Master, Other
  <2> QED
    BY <2>1
<1> QED
  BY <1>2, <1>3, <1>4 DEF ToWait

LEMMA ToWaitBoundNext ==
  BusIInv' /\ Timetable' /\ (state \notin Ctl!Initial)' /\ Stalled'
    => (ToWait \in 0 .. MaxStall)'
  BY ToWaitBound, PTL

LEMMA WaitsNat == BusIInv /\ Timetable /\ state \notin Ctl!Initial => ToWait \in Nat
  BY Pauses, Limits DEF PauseBounds, ToWait

LEMMA WaitsNext ==
  BusIInv' /\ Timetable' /\ (state \notin Ctl!Initial)' => (ToWait \in Nat)'
  BY WaitsNat, PTL

(* Main RAM's read counts down to its word; one begins with its acceptance.  *)
LEMMA WorkStep ==
  ASSUME BusIInv, BusNext, Timetable
  PROVE  /\ Working(0) /\ ~avm_readdatavalid' =>
              Working(0)' /\ Countdown \in Nat /\ Countdown' \in Nat /\ Countdown' < Countdown
         /\ Working(0)' /\ ~Working(0) =>
              Taken(0, Ctl!waitrequest) /\ Countdown' = MaxLatency
<1> DEFINE p  == pin[last_grant]
           rd == m_avm_cmd = "rd"
           wr == m_avm_cmd = "wr"
<1> USE Times, Limits
<1>0. /\ IInv /\ Account /\ Ctl!Schedule /\ Memory /\ 0 \in Master
      /\ OpenIsRead /\ OpenIsRead' /\ timer_cmd \in Nat
  <2>1. BusIInv'
    BY BusStepHolds
  <2> QED
    BY <2>1, OpenReads, OpenReadsNext DEF BusIInv, BusNext, Master, Ctl!Schedule
<1>1. /\ Working(0) <=> (UnderWay /\ Asker = 0 /\ ~avm_readdatavalid)
      /\ Working(0)' <=> (UnderWay' /\ Asker' = 0 /\ ~avm_readdatavalid')
  BY <1>0 DEF OpenIsRead
<1>2. Ctl!Controller(rd, wr, p.a, p.w, p.be)
  BY <1>0 DEF Memory, Ctl!Edge
<1>3. /\ state = "ACTIVE" /\ avm_read /\ ~avm_write =>
           /\ timer_cmd # 0 => state' = "ACTIVE" /\ timer_cmd' = timer_cmd - 1
           /\ timer_cmd = 0 => state' = "READ" /\ timer_cmd' = 4
      /\ state = "READ" /\ ~avm_readdatavalid' =>
           timer_cmd # 0 /\ state' = "READ" /\ timer_cmd' = timer_cmd - 1
  <2>1. (state = "ACTIVE" => Ctl!Active) /\ (state = "READ" => Ctl!Read)
    BY <1>2 DEF Ctl!Controller, Ctl!PowerUp, Ctl!After, Ctl!Refresh, Ctl!Accept, Ctl!Stay,
                Ctl!Active, Ctl!Write, Ctl!Read, Ctl!Recover
  <2>2. timer_cmd # 0 => Ctl!Down(timer_cmd) = timer_cmd - 1
    BY <1>0 DEF Ctl!Down
  <2>3. state = "ACTIVE" /\ avm_read /\ ~avm_write =>
          /\ timer_cmd # 0 => state' = "ACTIVE" /\ timer_cmd' = timer_cmd - 1
          /\ timer_cmd = 0 => state' = "READ" /\ timer_cmd' = 4
    BY <2>1, <2>2 DEF Ctl!Active
  <2>4. state = "READ" /\ ~avm_readdatavalid' =>
          timer_cmd # 0 /\ state' = "READ" /\ timer_cmd' = timer_cmd - 1
    BY <2>1, <2>2 DEF Ctl!Read
  <2> QED
    BY <2>3, <2>4
<1>4. ASSUME Working(0), ~avm_readdatavalid'
      PROVE  Working(0)' /\ Countdown \in Nat /\ Countdown' \in Nat /\ Countdown' < Countdown
  <2>1. UnderWay /\ Asker = 0 /\ ~avm_readdatavalid
    BY <1>1, <1>4
  <2>2. Ctl!waitrequest /\ ~Accepts("rd")
    BY <1>0, <2>1, ReadSteps DEF Accepts
  <2>3. UnderWay' /\ Asker' = Asker
    BY <1>0, <2>1, <2>2, ReadSteps DEF Asker
  <2>4. \/ state = "ACTIVE" /\ avm_read /\ ~avm_write
        \/ state = "READ"
    BY <1>0, <2>1 DEF UnderWay, Account
  <2>5. Countdown \in Nat /\ Countdown' \in Nat
    BY <1>0, <1>3, <1>4, <2>4 DEF Countdown
  <2>6. Countdown' < Countdown
    BY <1>0, <1>3, <1>4, <2>4 DEF Countdown
  <2> QED
    BY <1>1, <1>4, <2>1, <2>3, <2>5, <2>6
<1>5. ASSUME Working(0)', ~Working(0)
      PROVE  Taken(0, Ctl!waitrequest) /\ Countdown' = MaxLatency
  <2>1. UnderWay' /\ Asker' = 0
    BY <1>1, <1>5
  <2>2. Accepts("rd")
    <3>1. ASSUME ~Accepts("rd") PROVE FALSE
      <4>1. UnderWay /\ ~avm_readdatavalid /\ Asker' = Asker
        BY <1>0, <2>1, <3>1, ReadSteps DEF Asker
      <4> QED
        BY <1>1, <1>5, <2>1, <4>1
    <3> QED
      BY <3>1
  <2>3. /\ rd /\ ~Ctl!waitrequest /\ avm_address' = p.a
    BY <1>0, <2>2, ReadSteps DEF Accepts
  <2>4. last_grant = 0
    <3>1. p \in Operand[last_grant] /\ last_grant \in Master
      BY <1>0, <2>3, Asked
    <3>2. Asker' = last_grant
      BY <2>3, <3>1, AskerOf DEF Asker
    <3> QED
      BY <2>1, <3>2
  <2>5. state' = "ACTIVE" /\ timer_cmd' = 2
    BY <1>2, <2>3 DEF Ctl!waitrequest, Ctl!Controller, Ctl!PowerUp, Ctl!After, Ctl!Refresh,
         Ctl!Accept, Ctl!Stay, Ctl!Active, Ctl!Write, Ctl!Read, Ctl!Recover
  <2> QED
    BY <2>3, <2>4, <2>5 DEF Countdown, Taken, Waits, active_req, m_avm_cmd
<1> QED
  BY <1>4, <1>5

(* A grant is never taken back, only handed on.                              *)
LEMMA GrantStays ==
  ASSUME BusIInv, BusNext, (\A m \in Master : ~grant[m]) => last_grant = 1
  PROVE  (\A m \in Master : ~grant'[m]) => last_grant' = 1
<1>1. Grant(Ctl!waitrequest, Answered) /\ last_grant \in Master
  BY DEF BusNext, BusIInv, IInv, TypeOK
<1>2. \A m \in Master : Turn(m) \in Master
  BY DEF Turn, Other, Master
<1> QED
  BY <1>1, <1>2 DEF Grant

LEMMA BudgetInit == BusInit => Budget
<1> SUFFICES ASSUME BusInit PROVE Budget
  OBVIOUS
<1>1. /\ state = "INIT_POWER_ON" /\ age = 0 /\ last_grant = 1
      /\ req = [m \in Master |-> NoRequest] /\ owed = [m \in Master |-> 0]
  BY DEF BusInit, Init, Ctl!Init
<1>2. \A m \in Master : ~active_req(m)
  BY <1>1 DEF active_req, NoRequest
<1>3. 0 \in Master /\ ~Working(0)
  BY <1>1 DEF Working, Master
<1> QED
  BY <1>1, <1>2, <1>3, Limits DEF Budget, Timetable, Stalled, Ctl!Initial

LEMMA Passing ==
  ASSUME NEW n \in Nat, NEW a \in Nat, NEW d \in Nat, NEW d1 \in Nat, a + d <= n, d1 < d
  PROVE  a + 1 \in 0 .. n /\ a + 1 + d1 <= n
  OBVIOUS

LEMMA BudgetStep == BusIInv /\ Budget /\ [BusNext]_busVars => Budget'
<1> SUFFICES ASSUME BusIInv, Budget, [BusNext]_busVars PROVE Budget'
  OBVIOUS
<1>1. CASE BusNext
  <2>1. /\ Memory /\ Timetable /\ BusIInv' /\ 0 \in Master
        /\ (\A m \in Master : ~grant[m]) => last_grant = 1
    <3>1. BusIInv'
      BY <1>1, BusStepHolds
    <3> QED
      BY <1>1, <3>1 DEF Budget, BusNext, Master
  <2>2. Timetable' /\ (state \notin Ctl!Initial => state' \notin Ctl!Initial)
    BY <2>1, PauseStep
  <2>3. (\A m \in Master : ~grant'[m]) => last_grant' = 1
    BY <1>1, <2>1, GrantStays
  <2>4. (state \in Ctl!Initial => \A m \in Master : ~active_req(m))'
    BY <1>1, <2>2 DEF BusNext, Booting
  <2>5. /\ age \in Nat /\ (Working(0) => age + Countdown <= 7)
        /\ (Stalled => age + ToWait <= 43)
    BY Limits DEF Budget
  <2>6. age' = IF \/ Working(0) /\ ~avm_readdatavalid'
                  \/ ~Working(0) /\ active_req(0) /\ ~Taken(0, Ctl!waitrequest)
               THEN age + 1 ELSE 0
    BY <1>1 DEF BusNext, BusHistory
  <2>7. /\ Working(0) /\ ~avm_readdatavalid' =>
             Working(0)' /\ Countdown \in Nat /\ Countdown' \in Nat /\ Countdown' < Countdown
        /\ Working(0)' /\ ~Working(0) =>
             Taken(0, Ctl!waitrequest) /\ Countdown' = 7
    BY <1>1, <2>1, WorkStep, Limits
  <2>8. Stalled' => ToWait' \in 0 .. 43
    <3>1. Stalled' => (state \notin Ctl!Initial)'
      BY <2>1, <2>4 DEF Stalled
    <3>2. Stalled' => (ToWait \in 0 .. MaxStall)'
      BY <2>1, <2>2, <3>1, ToWaitBoundNext
    <3> QED
      BY <3>2, Limits
  <2>9. CASE Working(0) /\ ~avm_readdatavalid'
    <3>1. Working(0)' /\ age' = age + 1 /\ age + Countdown <= 7
      BY <2>5, <2>6, <2>7, <2>9
    <3>2. Countdown \in Nat /\ Countdown' \in Nat /\ Countdown' < Countdown
      BY <2>7, <2>9
    <3>3. age' \in 0 .. 7 /\ age' + Countdown' <= 7
      BY <2>5, <3>1, <3>2, Passing
    <3>4. ~Stalled'
      BY <3>1 DEF Stalled
    <3> QED
      BY <2>2, <2>3, <2>4, <3>1, <3>3, <3>4, Limits DEF Budget
  <2>10. CASE ~Working(0) /\ active_req(0) /\ ~Taken(0, Ctl!waitrequest)
    <3>1. Stalled /\ age' = age + 1 /\ ~Working(0)'
      BY <2>6, <2>7, <2>10 DEF Stalled
    <3>2. age + ToWait <= 43 /\ ToWait' < ToWait
      BY <1>1, <2>5, <2>10, <3>1, WaitStep0
    <3>3. ToWait \in Nat /\ ToWait' \in Nat
      <4>1. state \notin Ctl!Initial
        BY <2>1, <2>10 DEF Budget
      <4>2. (ToWait \in Nat)'
        BY <2>1, <2>2, <4>1, WaitsNext
      <4> QED
        BY <2>1, <4>1, <4>2, WaitsNat
    <3>4. age' \in 0 .. 43 /\ age' + ToWait' <= 43
      BY <2>5, <3>1, <3>2, <3>3, Passing
    <3> QED
      BY <2>2, <2>3, <2>4, <3>1, <3>4, Limits DEF Budget
  <2>11. CASE /\ ~(Working(0) /\ ~avm_readdatavalid')
              /\ ~(~Working(0) /\ active_req(0) /\ ~Taken(0, Ctl!waitrequest))
    <3>1. age' = 0
      BY <2>6, <2>11
    <3>2. Working(0)' => Countdown' = 7
      <4>1. Working(0)' => ~avm_readdatavalid'
        BY DEF Working
      <4> QED
        BY <2>7, <2>11, <4>1
    <3>3. Working(0)' => age' + Countdown' <= 7
      BY <3>1, <3>2
    <3>4. Stalled' => age' + ToWait' <= 43
      BY <2>8, <3>1
    <3> QED
      BY <2>2, <2>3, <2>4, <3>1, <3>3, <3>4, Limits DEF Budget
  <2> QED
    BY <2>9, <2>10, <2>11
<1>2. CASE UNCHANGED busVars
  <2>1. UNCHANGED <<req, grant, last_grant, owed, state, timer_cmd, timer_refresh, avm_read,
                    avm_readdatavalid, unwritten, age>>
    BY <1>2 DEF busVars, vars, arbVars, slaveVars, Ctl!vars, Ctl!timers, Ctl!regs
  <2>2. UNCHANGED <<Timetable, Busy, RefreshDue, Countdown>>
    BY <2>1 DEF Timetable, Busy, RefreshDue, Ctl!Left, Countdown
  <2>3. (\A m \in Master : active_req(m)' = active_req(m) /\ Open(m)' = Open(m)
                           /\ Working(m)' = Working(m)) /\ 0 \in Master /\ 1 \in Master
    BY <2>1 DEF active_req, Open, Working, Master
  <2>4. UNCHANGED <<ToWait, Stalled>>
    BY <2>1, <2>2, <2>3 DEF ToWait, Stalled
  <2> QED
    BY <2>1, <2>2, <2>3, <2>4 DEF Budget
<1> QED
  BY <1>1, <1>2

(* The arbiter's invariant, its account of the controller and the schedule.  *)
THEOREM BusInductive == BusSpec => []BusIInv
  BY BusInitHolds, BusStepHolds, PTL DEF BusSpec

(* avm_arbit.vhd on sdram.vhd implements the arbiter on a serial slave: the   *)
(* controller keeps waitrequest high until a read's word is out and answers  *)
(* nothing that was not asked.                                               *)
THEOREM Implements == BusSpec => ArbiterSpec
<1>1. BusInit => Init
  BY DEF BusInit
<1> QED
  BY <1>1, BusStepHolds, BusInductive, PTL DEF BusSpec, ArbiterSpec, Spec

(* So what is shown of the arbiter holds of main RAM and the QL-SD buffer:   *)
(* a read word reaches the master that asked for it.                         *)
THEOREM BusWordsComeHome == BusSpec => []RoutedHome
<1>1. BusIInv => RoutedHome
  BY DEF BusIInv, IInv
<1> QED
  BY <1>1, BusInductive, PTL

(* A word on the pins is the one last written.                               *)
LEMMA WordIsLast == BusIInv => Coherent
  BY DEF BusIInv, Account, DataPath, Coherent

LEMMA WordIsLastNext == BusIInv' => Coherent'
  BY WordIsLast, PTL

(* A word that is read is the one last written to its address, by either     *)
(* master and across refreshes, and an idle controller keeps nothing back.   *)
THEOREM BusCoherent == BusSpec => []Coherent
  BY WordIsLast, BusInductive, PTL

(* The delays of sdram.vhd's constants are kept between the commands.        *)
THEOREM Delays == BusSpec => []CommandsInTime
<1>1. BusIInv => CommandsInTime
  BY DEF BusIInv, Ctl!Schedule, CommandsInTime
<1> QED
  BY <1>1, BusInductive, PTL

(* Rows are refreshed in time, whatever the two masters ask and however      *)
(* long they keep asking.                                                    *)
THEOREM Refreshed == BusSpec => []RefreshOnTime
<1>1. BusIInv => RefreshOnTime
  BY DEF BusIInv, Ctl!Schedule, RefreshOnTime
<1> QED
  BY <1>1, BusInductive, PTL

(* The schedule of the two masters' turns and the refreshes.                 *)
THEOREM BudgetKept == BusSpec => []Budget
  BY BusInductive, BudgetInit, BudgetStep, PTL DEF BusSpec

(* A request of main RAM is taken after MaxStall clocks at most, and its     *)
(* read answered after MaxLatency: the last write, a refresh, the other      *)
(* master's turn and one more refresh are all that can come before it.       *)
THEOREM MainRamInTime == BusSpec => []WithinBudget
<1>1. BusIInv /\ Budget => WithinBudget
  <2> SUFFICES ASSUME BusIInv, Budget PROVE WithinBudget
    OBVIOUS
  <2>1. timer_cmd \in Nat /\ Countdown \in Nat /\ age \in Nat
    BY Times, Limits DEF BusIInv, Ctl!Schedule, Budget, Countdown
  <2>2. Working(0) => age + Countdown <= 7
    BY Limits DEF Budget
  <2>3. Working(0) => age <= 7
    BY <2>1, <2>2
  <2>4. age <= 43
    BY Limits DEF Budget
  <2> QED
    BY <2>3, <2>4, Limits DEF WithinBudget
<1> QED
  BY <1>1, BusInductive, BudgetKept, PTL
-----------------------------------------------------------------------------
(* The slave that main RAM sees.                                             *)

(* The arbiter's readdatavalid for main RAM: the word is its own.            *)
LEMMA ValidIsMine == BusIInv => (Valid(0, Answered) <=> (avm_readdatavalid /\ Asker = 0))
<1> SUFFICES ASSUME BusIInv PROVE Valid(0, Answered) <=> (avm_readdatavalid /\ Asker = 0)
  OBVIOUS
<1>1. Nobody \notin Master /\ Asker \in Master /\ 0 \in Master
  BY ConstantsAssumption DEF Asker, Master
<1>2. Answered # Nobody <=> avm_readdatavalid
  BY <1>1 DEF Answered
<1>3. avm_readdatavalid => last_grant = Asker
  <2>1. avm_readdatavalid => Open(Asker)
    BY <1>1, OpenReads DEF OpenIsRead, UnderWay
  <2> QED
    BY <1>1, <2>1 DEF BusIInv, IInv, Holding, Exclusive
<1> QED
  BY <1>2, <1>3 DEF Valid

LEMMA ValidIsMineNext ==
  BusIInv' => (Valid(0, Answered) <=> (avm_readdatavalid /\ Asker = 0))'
  BY ValidIsMine, PTL

(* A word for main RAM ends the read that is worked on for it.               *)
LEMMA WordEndsRead ==
  ASSUME BusIInv, BusNext
  PROVE  /\ Working(0) => /\ Ctl!waitrequest /\ Asker = 0
                          /\ avm_address' = avm_address /\ Asker' = 0
         /\ Valid(0, Answered)' <=> (Working(0) /\ avm_readdatavalid')
<1>1. /\ IInv /\ Account /\ Ctl!Schedule /\ Memory /\ 0 \in Master
      /\ OpenIsRead /\ BusIInv'
  <2>1. BusIInv'
    BY BusStepHolds
  <2> QED
    BY <2>1, OpenReads DEF BusIInv, BusNext, Master
<1>2. Working(0) <=> (UnderWay /\ Asker = 0 /\ ~avm_readdatavalid)
  BY <1>1 DEF OpenIsRead
<1>3. ASSUME Working(0)
      PROVE  /\ Ctl!waitrequest /\ Asker = 0
             /\ avm_address' = avm_address /\ Asker' = 0
  <2>1. Ctl!waitrequest /\ ~Accepts("rd")
    BY <1>1, <1>2, <1>3, ReadSteps DEF Accepts
  <2>2. UnderWay' /\ avm_address' = avm_address
    BY <1>1, <1>2, <1>3, <2>1, ReadSteps
  <2> QED
    BY <1>2, <1>3, <2>1, <2>2 DEF Asker
<1>4. ASSUME avm_readdatavalid', Asker' = 0
      PROVE  Working(0)
  <2>1. UnderWay' /\ ~Accepts("rd")
    BY <1>1, <1>4, ReadSteps DEF UnderWay
  <2>2. UnderWay /\ ~avm_readdatavalid /\ avm_address' = avm_address
    BY <1>1, <2>1, ReadSteps
  <2> QED
    BY <1>2, <1>4, <2>2 DEF Asker
<1>5. Valid(0, Answered)' <=> (avm_readdatavalid' /\ Asker' = 0)
  BY <1>1, ValidIsMineNext
<1> QED
  BY <1>3, <1>4, <1>5

(* What main RAM has accepted is what the controller has accepted from it.   *)
LEMMA MineIsAccepted ==
  ASSUME BusIInv, BusNext
  PROVE  LET w == Waits(0, Ctl!waitrequest)
         IN /\ ~w => last_grant = 0 /\ m_avm_cmd = req[0].cmd /\ ~Ctl!waitrequest
            /\ w /\ ~Ctl!waitrequest /\ m_avm_cmd # "none" => last_grant = 1
            /\ active_req(0) <=> (req[0].cmd = "rd" \/ req[0].cmd = "wr")
            /\ Taken(0, Ctl!waitrequest) <=> (active_req(0) /\ ~w)
<1>1. /\ 0 \in Master /\ last_grant \in Master /\ last_grant \in {0, 1}
      /\ req[0].cmd \in {"none", "rd", "wr"} /\ Exclusive
  BY DEF BusIInv, IInv, TypeOK, Master
<1>2. grant[0] => last_grant = 0
  BY <1>1 DEF Exclusive
<1> QED
  BY <1>1, <1>2 DEF Waits, Taken, active_req, m_avm_cmd

(* Main RAM's part of the memory changes by its own writes only.             *)
LEMMA MineChangesMine ==
  ASSUME BusIInv, BusNext
  PROVE  LET w == Waits(0, Ctl!waitrequest)
             p == pin[0]
             m == [a \in RamAddr |-> words[a]]
         IN [a \in RamAddr |-> words'[a]] =
              IF req[0].cmd = "wr" /\ ~w
              THEN [m EXCEPT ![p.a] = [l \in Lane |-> IF l \in p.be THEN p.w[l] ELSE @[l]]]
              ELSE m
<1> DEFINE w == Waits(0, Ctl!waitrequest)
           p == pin[0]
           q == pin[last_grant]
           m == [a \in RamAddr |-> words[a]]
<1>1. /\ words' = IF Accepts("wr")
                  THEN [words EXCEPT ![q.a] =
                          [l \in Lane |-> IF l \in q.be THEN q.w[l] ELSE @[l]]]
                  ELSE words
      /\ words \in [Addr -> Ctl!Word]
  BY WordsStep DEF BusIInv, DataPath
<1>2. RamAddr \subseteq Addr
  BY BusAssumption DEF RamAddr, Master
<1>3. CASE req[0].cmd = "wr" /\ ~w
  <2>1. Accepts("wr") /\ q = p
    BY <1>3, MineIsAccepted DEF Accepts
  <2> QED
    BY <1>1, <1>2, <1>3, <2>1
<1>4. CASE ~(req[0].cmd = "wr" /\ ~w) /\ Accepts("wr")
  <2>1. last_grant = 1
    BY <1>4, MineIsAccepted DEF Accepts
  <2>2. q \in Operand[1]
    BY <1>4, <2>1, Asked DEF Accepts, BusIInv
  <2>3. q.a \notin RamAddr
    BY <2>2, BusAssumption DEF RamAddr
  <2> QED
    BY <1>1, <1>2, <1>4, <2>3
<1>5. CASE ~(req[0].cmd = "wr" /\ ~w) /\ ~Accepts("wr")
  BY <1>1, <1>5
<1> QED
  BY <1>3, <1>4, <1>5
(* An edge of the bus is an edge of the slave that main RAM is made for.     *)
LEMMA SlaveStep ==
  ASSUME BusIInv, Budget, BusNext
  PROVE  RamSide!Controller(Waits(0, Ctl!waitrequest))
<1> DEFINE w == Waits(0, Ctl!waitrequest)
           rd == req[0].cmd = "rd"
           wr == req[0].cmd = "wr"
           p == pin[0]
           m == [a \in RamAddr |-> words[a]]
<1>1. /\ IInv /\ Account /\ Ctl!Schedule /\ Memory /\ DataPath /\ 0 \in Master
      /\ BusIInv' /\ Budget' /\ OpenIsRead /\ OpenIsRead'
  <2>1. BusIInv' /\ Budget'
    BY BusStepHolds, BudgetStep
  <2> QED
    BY <2>1, OpenReads, OpenReadsNext DEF BusIInv, BusNext, Master
<1>2. /\ active_req(0) <=> (rd \/ wr)
      /\ Taken(0, Ctl!waitrequest) <=> ((rd \/ wr) /\ ~w)
      /\ ~w => last_grant = 0 /\ m_avm_cmd = req[0].cmd /\ ~Ctl!waitrequest
  BY MineIsAccepted
<1>3. /\ Working(0) => /\ Ctl!waitrequest /\ Asker = 0
                       /\ avm_address' = avm_address /\ Asker' = 0
      /\ Valid(0, Answered)' <=> (Working(0) /\ avm_readdatavalid')
  BY WordEndsRead
<1>4. Working(0) => w
  BY <1>3 DEF Waits
<1>5. age' = IF \/ Working(0) /\ ~avm_readdatavalid'
                \/ ~Working(0) /\ (rd \/ wr) /\ w
             THEN age + 1 ELSE 0
  BY <1>2 DEF BusNext, BusHistory
<1>6. /\ age \in Nat /\ age' \in 0 .. MaxStall /\ MaxStall = 43 /\ MaxLatency = 7
      /\ Working(0)' => age' + Countdown' <= 7
  BY <1>1, Limits DEF Budget
<1>7. /\ Working(0) /\ ~avm_readdatavalid' => Working(0)' /\ Countdown' \in Nat
      /\ Working(0)' /\ ~Working(0) => Taken(0, Ctl!waitrequest)
  BY <1>1, WorkStep DEF Budget
<1>8. Working(0)' => ~avm_readdatavalid'
  BY DEF Working
<1>9. [a \in RamAddr |-> words'[a]] =
        IF wr /\ ~w
        THEN [m EXCEPT ![p.a] = [l \in Lane |-> IF l \in p.be THEN p.w[l] ELSE @[l]]]
        ELSE m
  BY MineChangesMine
<1>10. NoAddr # avm_address /\ ~(rd /\ wr)
  BY <1>1, BusAssumption DEF DataPath, Ctl!ConstantsAssumption
<1> HIDE DEF w, rd, wr
<1>11. CASE ~rd /\ ~wr /\ ~Working(0)
  <2>1. age' = 0 /\ ~Working(0)' /\ ~Valid(0, Answered)'
    BY <1>2, <1>3, <1>5, <1>7, <1>11
  <2> QED
    BY <1>9, <1>11, <2>1 DEF RamSide!Controller, RamSide!Pending, RamSide!NoWord, rd, wr
<1>12. CASE (rd \/ wr) /\ ~Working(0) /\ w
  <2>1. age' = age + 1 /\ ~Working(0)' /\ ~Valid(0, Answered)'
    BY <1>2, <1>3, <1>5, <1>7, <1>12
  <2>2. age < MaxStall
    BY <1>6, <2>1
  <2> QED
    BY <1>6, <1>9, <1>12, <2>1, <2>2 DEF RamSide!Controller, RamSide!NoWord, rd, wr, w
<1>13. CASE wr /\ ~Working(0) /\ ~w
  <2>1. ~Accepts("rd") /\ ~UnderWay
    BY <1>1, <1>2, <1>13, ReadSteps DEF Accepts, wr
  <2>2. ~UnderWay'
    BY <1>1, <2>1, ReadSteps
  <2>3. age' = 0 /\ ~Working(0)' /\ ~Valid(0, Answered)'
    BY <1>1, <1>3, <1>5, <1>13, <2>2 DEF OpenIsRead
  <2> QED
    BY <1>9, <1>13, <2>3 DEF RamSide!Controller, RamSide!NoWord, rd, wr, w
<1>14. CASE rd /\ ~Working(0) /\ ~w
  <2>1. Accepts("rd") /\ last_grant = 0
    BY <1>2, <1>14 DEF Accepts, rd
  <2>2. UnderWay' /\ ~avm_readdatavalid' /\ avm_address' = p.a
    BY <1>1, <2>1, ReadSteps
  <2>3. Asker' = 0
    <3>1. p \in Operand[0]
      BY <1>1, <2>1, Asked DEF Accepts
    <3> QED
      BY <1>1, <2>2, <3>1, AskerOf DEF Asker
  <2>4. age' = 0 /\ Working(0)' /\ ~Valid(0, Answered)'
    BY <1>1, <1>3, <1>5, <1>14, <2>2, <2>3 DEF OpenIsRead
  <2>5. ~wr
    BY <1>10, <1>14 DEF rd, wr
  <2> QED
    BY <1>9, <1>14, <2>2, <2>4, <2>5 DEF RamSide!Controller, RamSide!NoWord, rd, wr, w
<1>15. CASE Working(0) /\ ~avm_readdatavalid'
  <2>1. age' = age + 1 /\ Working(0)' /\ ~Valid(0, Answered)' /\ avm_address' = avm_address
    BY <1>3, <1>5, <1>7, <1>15
  <2>2. age < MaxLatency
    BY <1>6, <1>7, <1>15, <2>1
  <2> QED
    BY <1>4, <1>6, <1>9, <1>10, <1>15, <2>1, <2>2
       DEF RamSide!Controller, RamSide!NoWord, rd, wr, w
<1>16. CASE Working(0) /\ avm_readdatavalid'
  <2>1. age' = 0 /\ ~Working(0)' /\ Valid(0, Answered)'
    BY <1>3, <1>5, <1>8, <1>16
  <2>2. avm_address' = avm_address /\ avm_address \in RamAddr
    BY <1>3, <1>16 DEF Asker, RamAddr
  <2>3. avm_readdata' = words'[avm_address']
    BY <1>1, <1>16, WordIsLastNext DEF Coherent
  <2>4. avm_readdata' = m[avm_address]
    BY <1>4, <1>9, <1>16, <2>2, <2>3
  <2> QED
    BY <1>4, <1>9, <1>10, <1>16, <2>1, <2>4
       DEF RamSide!Controller, rd, wr, w
<1> QED
  BY <1>11, <1>12, <1>13, <1>14, <1>15, <1>16

(* QlSdramRam's slave is there: whatever the QL-SD buffer asks for, main RAM *)
(* sees a memory of its own, that stalls MaxStall clocks and works           *)
(* MaxLatency clocks at most and never loses a word.                         *)
THEOREM MainRamSlave == BusSpec => SlaveSpec
<1>1. BusInit => RamSide!ControllerInit
  <2> SUFFICES ASSUME BusInit PROVE RamSide!ControllerInit
    OBVIOUS
  <2>1. ~Working(0) /\ ~Valid(0, Answered) /\ age = 0
    BY ConstantsAssumption
       DEF BusInit, Init, Ctl!Init, Working, Valid, Answered, Master
  <2> QED
    BY <2>1 DEF RamSide!ControllerInit
<1>2. BusIInv /\ Budget /\ [BusNext]_busVars =>
        [RamSide!Controller(Waits(0, Ctl!waitrequest))]_busVars
  BY SlaveStep
<1> QED
  BY <1>1, <1>2, BusInductive, BudgetKept, PTL DEF BusSpec, SlaveSpec
-----------------------------------------------------------------------------
(* Types.                                                                    *)

(* The pins and the FIFO keep their fields.                                  *)
LEMMA ControllerTypes ==
  ASSUME Ctl!Schedule, Ctl!TypeOK,
         NEW rd \in BOOLEAN, NEW wr \in BOOLEAN, NEW a, NEW w, NEW be,
         rd \/ wr => a \in Addr /\ be \subseteq Lane,
         Ctl!Controller(rd, wr, a, w, be)
  PROVE  /\ timer_refresh' \in 0 .. RefreshTime - 1
         /\ avm_read' \in BOOLEAN /\ avm_write' \in BOOLEAN /\ avm_address' \in Addr
         /\ avm_readdatavalid' \in BOOLEAN
         /\ pins'.a \in Addr \union {NoAddr} /\ pins'.mask \subseteq Lane
         /\ fifo'.mask \subseteq Lane
<1> USE Times
<1>0. /\ timer_refresh \in 0 .. RefreshTime - 1 /\ RefreshTime \in Nat /\ RefreshTime > 0
      /\ avm_read \in BOOLEAN /\ avm_write \in BOOLEAN /\ avm_address \in Addr
      /\ fifo.mask \subseteq Lane /\ fifo = [Ctl!Nop EXCEPT !.mask = fifo.mask, !.dq = fifo.dq]
  BY BusAssumption DEF Ctl!Schedule, Ctl!TypeOK, Ctl!ConstantsAssumption
<1>1. Ctl!Down(timer_refresh) \in 0 .. RefreshTime - 1
  BY <1>0 DEF Ctl!Down
<1>2. RefreshTime - 1 \in 0 .. RefreshTime - 1
  BY <1>0
<1>q. ASSUME Ctl!Quiet PROVE avm_readdatavalid' \in BOOLEAN
  BY <1>q DEF Ctl!Quiet
<1>n. Ctl!Nop.a = NoAddr /\ Ctl!Nop.mask = Lane
  BY DEF Ctl!Nop
<1>c. ASSUME NEW c, Ctl!Command(c)
      PROVE  pins'.a = NoAddr /\ pins'.mask = Lane
  BY <1>c DEF Ctl!Command, Ctl!Nop
<1>a. ASSUME NEW from, NEW c, NEW time, NEW to, Ctl!After(from, c, time, to)
      PROVE  pins'.a = NoAddr /\ pins'.mask = Lane
  BY <1>a, <1>c, <1>n DEF Ctl!After
<1>3. CASE Ctl!PowerUp
  <2>1. /\ Ctl!Quiet /\ UNCHANGED Ctl!regs
        /\ timer_refresh' \in {RefreshTime - 1, Ctl!Down(timer_refresh)}
        /\ pins'.a = NoAddr /\ pins'.mask = Lane
    BY <1>3, <1>a DEF Ctl!PowerUp
  <2> QED
    BY <1>0, <1>1, <1>2, <1>q, <2>1 DEF Ctl!regs
<1>4. CASE Ctl!Refresh
  BY <1>0, <1>2, <1>4, <1>c, <1>q DEF Ctl!Refresh, Ctl!regs
<1>5. CASE Ctl!Accept(rd, wr, a, w, be)
  <2>1. pins'.a = a /\ pins'.mask = Lane
    BY <1>5 DEF Ctl!Accept, Ctl!Nop
  <2>2. fifo'.mask \in {Lane \ be, fifo.mask}
    BY <1>5 DEF Ctl!Accept, Ctl!Nop
  <2>3. /\ avm_read' = rd /\ avm_write' = wr /\ avm_address' = a /\ (rd \/ wr)
        /\ timer_refresh' = Ctl!Down(timer_refresh) /\ Ctl!Quiet
    BY <1>5 DEF Ctl!Accept
  <2> QED
    BY <1>0, <1>1, <1>q, <2>1, <2>2, <2>3
<1>6. CASE Ctl!Stay(rd, wr)
  BY <1>0, <1>1, <1>6, <1>n, <1>q DEF Ctl!Stay, Ctl!regs
<1>7. CASE Ctl!Active
  <2>1. /\ timer_refresh' = Ctl!Down(timer_refresh) /\ Ctl!Quiet
        /\ UNCHANGED <<avm_read, avm_write, avm_address>>
    BY <1>7 DEF Ctl!Active
  <2>2. /\ pins'.a \in {NoAddr, avm_address}
        /\ pins'.mask \in {Lane, fifo.mask}
        /\ fifo'.mask \in {Lane, fifo.mask}
    <3>1. DOMAIN fifo = {"cmd", "a", "mask", "dq"}
      BY <1>0 DEF Ctl!Nop
    <3>2. CASE pins' = Ctl!Nop /\ UNCHANGED fifo
      BY <1>n, <3>2
    <3>3. CASE pins' = [Ctl!Nop EXCEPT !.cmd = "READ", !.a = avm_address] /\ UNCHANGED fifo
      BY <3>3 DEF Ctl!Nop
    <3>4. CASE pins' = [fifo EXCEPT !.cmd = "WRITE", !.a = avm_address] /\ fifo' = Ctl!Nop
      BY <1>n, <3>1, <3>4
    <3> QED
      BY <1>7, <3>2, <3>3, <3>4 DEF Ctl!Active
  <2> QED
    BY <1>0, <1>1, <1>q, <2>1, <2>2
<1>8. CASE Ctl!Write
  BY <1>0, <1>1, <1>8, <1>c, <1>q DEF Ctl!Write
<1>9. CASE Ctl!Read
  <2>1. pins'.a = NoAddr /\ pins'.mask \in {Lane, {}}
    BY <1>9 DEF Ctl!Read, Ctl!Nop
  <2>2. /\ timer_refresh' = Ctl!Down(timer_refresh) /\ UNCHANGED Ctl!regs
        /\ avm_readdatavalid' = (timer_cmd = 0)
    BY <1>9 DEF Ctl!Read
  <2> QED
    BY <1>0, <1>1, <2>1, <2>2 DEF Ctl!regs
<1>10. CASE Ctl!Recover
  <2>1. /\ Ctl!Quiet /\ UNCHANGED Ctl!regs /\ timer_refresh' = Ctl!Down(timer_refresh)
        /\ pins'.a = NoAddr /\ pins'.mask = Lane
    BY <1>10, <1>a DEF Ctl!Recover
  <2> QED
    BY <1>0, <1>1, <1>q, <2>1 DEF Ctl!regs
<1> QED
  BY <1>3, <1>4, <1>5, <1>6, <1>7, <1>8, <1>9, <1>10 DEF Ctl!Controller

(* A master's operand is one of its own, or still from another time.         *)
LEMMA OperandTypes ==
  ASSUME pin \in [Master -> UNION {Operand[m] : m \in Master}], BusNext
  PROVE  pin' \in [Master -> UNION {Operand[m] : m \in Master}]
<1> DEFINE All == UNION {Operand[m] : m \in Master}
<1>1. \A m \in Master : Idle(m) \in All
  BY BusAssumption DEF Idle
<1>2. PICK x \in Operand[0], y \in Operand[1] :
        pin' = [m \in Master |->
          IF m = 0
          THEN IF ~active_req(0)' THEN Idle(0)
               ELSE IF ~active_req(0) \/ Taken(0, Ctl!waitrequest) THEN x ELSE pin[0]
          ELSE IF ~active_req(1)' THEN Idle(1)
               ELSE IF ~active_req(1) \/ Taken(1, Ctl!waitrequest) THEN y ELSE pin[1]]
  BY DEF BusNext, Operands
<1>3. 0 \in Master /\ 1 \in Master
  BY DEF Master
<1>4. x \in All /\ y \in All /\ Idle(0) \in All /\ Idle(1) \in All
      /\ pin[0] \in All /\ pin[1] \in All
  BY <1>1, <1>3
<1> HIDE DEF All
<1>5. \A m \in Master : pin'[m] \in All
  BY <1>2, <1>4
<1> QED
  BY <1>2, <1>5 DEF All

(* Every register, pin and history variable of the bus keeps its type.       *)
THEOREM BusTypeCorrect == BusSpec => []BusTypeOK
<1>1. BusInit /\ BusIInv => BusTypeOK
  <2> SUFFICES ASSUME BusInit, BusIInv PROVE BusTypeOK
    OBVIOUS
  <2>1. Ctl!TypeOK
    <3>1. Ctl!Nop.a = NoAddr /\ Ctl!Nop.mask = Lane
      BY DEF Ctl!Nop
    <3>2. 0 \in 0 .. RefreshTime - 1
      BY BusAssumption, Times DEF Ctl!ConstantsAssumption
    <3>3. /\ state \in Ctl!States /\ timer_cmd \in Nat /\ pins.cmd \in Ctl!Commands
          /\ since \in [Ctl!Timed -> Nat] /\ cells \in [Addr -> Ctl!Word]
      BY DEF BusIInv, Ctl!Schedule, DataPath
    <3>4. /\ timer_refresh = 0 /\ ~avm_read /\ ~avm_write /\ ~avm_readdatavalid
          /\ avm_read \in BOOLEAN /\ avm_write \in BOOLEAN /\ avm_readdatavalid \in BOOLEAN
          /\ avm_address \in Addr /\ fifo = Ctl!Nop /\ pins = Ctl!Nop
      BY DEF BusInit, Ctl!Init
    <3> QED
      BY <3>1, <3>2, <3>3, <3>4 DEF Ctl!TypeOK
  <2>2. pin \in [Master -> UNION {Operand[m] : m \in Master}]
    BY BusAssumption DEF BusInit, Idle
  <2> QED
    BY <2>1, <2>2 DEF BusTypeOK, BusIInv, IInv, DataPath, BusInit
<1>2. ASSUME BusIInv, Budget, BusTypeOK, [BusNext]_busVars PROVE BusTypeOK'
  <2>1. BusIInv' /\ Budget'
    BY <1>2, BusStepHolds, BudgetStep
  <2>2. TypeOK' /\ words' \in [Addr -> Ctl!Word] /\ cells' \in [Addr -> Ctl!Word]
        /\ age' \in Nat
    BY <2>1, Limits DEF BusIInv, IInv, DataPath, Budget
  <2>3. CASE BusNext
    <3> DEFINE p == pin[last_grant]
    <3>1. /\ Ctl!Schedule /\ Ctl!TypeOK /\ (m_avm_cmd = "rd") \in BOOLEAN
          /\ (m_avm_cmd = "wr") \in BOOLEAN
      BY <1>2 DEF BusIInv, BusTypeOK
    <3>2. Ctl!Controller(m_avm_cmd = "rd", m_avm_cmd = "wr", p.a, p.w, p.be)
      BY <2>3 DEF BusNext, Memory, Ctl!Edge
    <3>3. m_avm_cmd = "rd" \/ m_avm_cmd = "wr" => p.a \in Addr /\ p.be \subseteq Lane
      BY <1>2, <2>3, WordsStep DEF BusIInv
    <3>4. /\ timer_refresh' \in 0 .. RefreshTime - 1
          /\ avm_read' \in BOOLEAN /\ avm_write' \in BOOLEAN /\ avm_address' \in Addr
          /\ avm_readdatavalid' \in BOOLEAN
          /\ pins'.a \in Addr \union {NoAddr} /\ pins'.mask \subseteq Lane
          /\ fifo'.mask \subseteq Lane
      BY <3>1, <3>2, <3>3, ControllerTypes
    <3>5. Ctl!TypeOK'
      BY <2>1, <2>2, <3>4 DEF BusIInv, Ctl!Schedule, Ctl!TypeOK
    <3>6. pin' \in [Master -> UNION {Operand[m] : m \in Master}]
      BY <1>2, <2>3, OperandTypes DEF BusTypeOK
    <3> QED
      BY <2>2, <3>5, <3>6 DEF BusTypeOK
  <2>4. CASE UNCHANGED busVars
    BY <1>2, <2>2, <2>4
       DEF BusTypeOK, Ctl!TypeOK, busVars, Ctl!vars, Ctl!timers, Ctl!regs
  <2> QED
    BY <1>2, <2>3, <2>4
<1> QED
  BY <1>1, <1>2, BusInductive, BudgetKept, PTL DEF BusSpec
=============================================================================
