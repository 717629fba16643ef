------------------------------ MODULE AvmArbit ------------------------------
(***************************************************************************)
(* The two-master Avalon arbiter of M2M/vhdl/memory/avm_arbit.vhd, as       *)
(* i_avm_arbit_mdv (two microdrive caches in front of the HyperRAM) and     *)
(* i_avm_arbit_sdram (main RAM and the QL-SD buffer in front of the SDRAM)  *)
(* use it: each master has one transaction under way at a time.             *)
(*                                                                         *)
(* A step is one rising edge of clk_i.  wait is m_avm_waitrequest_i and     *)
(* word the master whose read the slave answers in this cycle (the slave    *)
(* knows it by the address; the arbiter is told only that a word came).     *)
(* owed and unwritten are the slave's account of each master's traffic,     *)
(* due and req[m].left the master's own.                                    *)
(***************************************************************************)
EXTENDS Integers

CONSTANTS
  PreferSwap,   (* G_PREFER_SWAP                                            *)
  MaxLen,       (* longest burst                                            *)
  Serial,       (* the slave keeps waitrequest high until a read is         *)
                (* answered (sdram.vhd), or takes writes meanwhile          *)
  Withdrawing,  (* masters whose own reset or watchdog may drop a request   *)
                (* or abandon a read (ql_sdram_ram)                         *)
  Nobody        (* no word in this cycle                                    *)

Master == {0, 1}
Other(m) == 1 - m
BurstMax == 255                                \* burstcount has 8 bits

ASSUME ConstantsAssumption ==
  /\ PreferSwap \in BOOLEAN /\ Serial \in BOOLEAN
  /\ MaxLen \in 1 .. BurstMax
  /\ Withdrawing \subseteq Master /\ (Withdrawing # {} => Serial)
  /\ Nobody \notin Master

Length == 1 .. MaxLen

VARIABLES
  req,          (* each master's pins: cmd and burstcount (len), and the    *)
                (* beats of its write burst still to come (left)            *)
  due,          (* the read words each master is still waiting for          *)
  grant,        (* s0_active_grant, s1_active_grant                         *)
  last_grant, swapped, burstcount,
  owed,         (* the read words the slave has still to send to each       *)
  unwritten,    (* the beats the slave still expects of each write burst    *)
  overtaken,    (* history: transactions of the other master begun while    *)
                (* this one's request waits (counted up to two)             *)
  begun         (* history: the masters whose transaction began last cycle  *)

arbVars   == <<grant, last_grant, swapped, burstcount>>
slaveVars == <<owed, unwritten>>
vars      == <<req, due, arbVars, slaveVars, overtaken, begun>>

NoRequest == [cmd |-> "none", len |-> 1, left |-> 0]
Reads     == [cmd : {"rd"}, len : Length, left : {0}]
Writes    == {[cmd |-> "wr", len |-> n, left |-> n] : n \in Length}

Init ==
  /\ req = [m \in Master |-> NoRequest] /\ due = [m \in Master |-> 0]
  /\ grant = [m \in Master |-> FALSE] /\ last_grant = 1
  /\ swapped = FALSE /\ burstcount = 0
  /\ owed = [m \in Master |-> 0] /\ unwritten = [m \in Master |-> 0]
  /\ overtaken = [m \in Master |-> 0] /\ begun = {}

-----------------------------------------------------------------------------
(* The arbiter.                                                            *)

active_req(m) == req[m].cmd # "none"

(* s0_avm_waitrequest_o, s1_avm_waitrequest_o.                              *)
Waits(m, wait) == wait \/ ~grant[m]

Taken(m, wait) == active_req(m) /\ ~Waits(m, wait)

(* s0_avm_readdatavalid_o, s1_avm_readdatavalid_o.                          *)
Valid(m, word) == word # Nobody /\ last_grant = m

(* A read, or the first beat of a write burst, is accepted.                 *)
Opens(m, wait) == Taken(m, wait) /\ (req[m].cmd = "rd" \/ burstcount = 0)
Remaining(m)   == IF req[m].cmd = "rd" THEN req[m].len ELSE req[m].len - 1

(* burstcount_proc: the words left of the transaction under way.            *)
Burstcount(wait, word) ==
  burstcount' =
    IF Opens(0, wait) THEN Remaining(0)
    ELSE IF Opens(1, wait) THEN Remaining(1)
    ELSE IF \E m \in Master : (req[m].cmd = "wr" /\ Taken(m, wait)) \/ Valid(m, word)
    THEN (burstcount + BurstMax) % (BurstMax + 1) ELSE burstcount

(* Seeded fault: only the wires are looked at, not the words outstanding.   *)
LastWhenQuiet(m, wait, word) ==
  /\ grant[m]
  /\ \/ ~active_req(m)
     \/ burstcount = 1 /\ Valid(m, word) /\ Waits(m, wait)
     \/ req[m].cmd = "wr" /\ req[m].left = 1 /\ ~Waits(m, wait)

(* last_proc: no transaction is open after this cycle, and none begins.     *)
Last(m, wait, word) ==
  LET finished == burstcount = 1 /\ Valid(m, word) /\ Waits(m, wait)
      written  == req[m].cmd = "wr" /\ ~Waits(m, wait) /\ (burstcount = 1 \/ req[m].len = 1)
  IN /\ grant[m]
     /\ burstcount = 0 \/ (burstcount = 1 /\ (Valid(m, word) \/ req[m].cmd = "wr"))
     /\ ~active_req(m) \/ finished \/ written

(* Seeded fault: master 0 goes first whenever it asks.                      *)
ZeroFirst(m) == IF active_req(0) THEN 0 ELSE IF active_req(1) THEN 1 ELSE m

(* Seeded fault: the other way round.                                       *)
OneFirst(m) == IF active_req(1) THEN 1 ELSE IF active_req(0) THEN 0 ELSE m

(* Whom master m, done, hands the slave to: whoever asks, the other before  *)
(* itself; with nobody asking, back to itself, or for once to the other.    *)
Turn(m) ==
  IF active_req(m) /\ ~(last_grant = m /\ active_req(Other(m))) THEN m
  ELSE IF active_req(Other(m)) THEN Other(m)
  ELSE IF PreferSwap /\ ~swapped THEN Other(m) ELSE m

(* grant_proc.  Both grants at once is a reported failure in the source and *)
(* no case here.                                                            *)
Grant(wait, word) ==
  LET asked == \E m \in Master : active_req(m)
  IN \/ /\ \A m \in Master : ~grant[m]
        /\ \E m \in Master :
             /\ active_req(m) /\ (last_grant # m \/ ~active_req(Other(m)))
             /\ grant' = [x \in Master |-> x = m]
             /\ last_grant' = m
        /\ swapped' = FALSE
     \/ /\ \A m \in Master : ~Last(m, wait, word)
        /\ (\E m \in Master : grant[m]) \/ ~asked
        /\ UNCHANGED <<grant, last_grant>>
        /\ swapped' = (swapped /\ ~asked)
     \/ \E m \in Master :
          /\ Last(m, wait, word)
          /\ last_grant' = Turn(m)
          /\ grant' = [x \in Master |-> x = Turn(m)]
          /\ swapped' = (~asked /\ (PreferSwap \/ swapped))

-----------------------------------------------------------------------------
(* The slave, behind m_avm_*: the pins are those of last_grant's master,    *)
(* while it is granted.                                                     *)

m_avm_cmd == IF grant[last_grant] THEN req[last_grant].cmd ELSE "none"

Slave(wait, word) ==
  LET accepts(cmd) == m_avm_cmd = cmd /\ ~wait
      len          == req[last_grant].len
  IN /\ word # Nobody => owed[word] > 0
     /\ Serial /\ (\E m \in Master : owed[m] > 0) => wait
     /\ owed' = [m \in Master |->
          owed[m] + (IF m = last_grant /\ accepts("rd") THEN len ELSE 0)
                  - (IF m = word THEN 1 ELSE 0)]
     /\ unwritten' = [m \in Master |->
          IF m = last_grant /\ accepts("wr")
          THEN IF unwritten[m] = 0 THEN len - 1 ELSE unwritten[m] - 1
          ELSE unwritten[m]]

-----------------------------------------------------------------------------
(* The masters.  A new request waits for the words of the last one, unless  *)
(* the master was reset meanwhile.                                          *)

NewRequests(m) ==
  {NoRequest} \union
    IF m \in Withdrawing THEN {r \in Reads \union Writes : r.len = 1}
    ELSE IF due'[m] = 0 THEN Reads \union Writes ELSE {}

Beats(r) == IF r.left = 0 THEN {} ELSE {r, [r EXCEPT !.cmd = "none"]}

(* What master m may present after this edge: its request while it waits,   *)
(* the next beat of its burst now or later, or something new.               *)
NextRequests(m, wait) ==
  LET r == req[m]
  IN IF Taken(m, wait) /\ r.left <= 1 THEN NewRequests(m)
     ELSE IF Taken(m, wait) THEN Beats([r EXCEPT !.left = @ - 1])
     ELSE IF active_req(m) THEN {r} \union (IF m \in Withdrawing THEN {NoRequest} ELSE {})
     ELSE IF r.left = 0 THEN NewRequests(m)
     ELSE {r, [r EXCEPT !.cmd = "wr"]}

Masters(wait, word) ==
  /\ due' = [m \in Master |->
       due[m] + (IF req[m].cmd = "rd" /\ Taken(m, wait) THEN req[m].len ELSE 0)
              - (IF Valid(m, word) THEN 1 ELSE 0)]
  /\ \E r0 \in NextRequests(0, wait), r1 \in NextRequests(1, wait) :
       req' = [m \in Master |-> IF m = 0 THEN r0 ELSE r1]

(* A request that has not begun.                                            *)
Waiting(m) == req[m].cmd = "rd" \/ (req[m].cmd = "wr" /\ req[m].left = req[m].len)

History(wait) ==
  /\ begun' = {m \in Master : Waiting(m) /\ Taken(m, wait)}
  /\ overtaken' = [m \in Master |->
       IF ~Waiting(m) \/ m \in begun' THEN 0
       ELSE IF Other(m) \in begun' /\ overtaken[m] < 2 THEN overtaken[m] + 1
       ELSE overtaken[m]]

Clock(wait, word) ==
  /\ Slave(wait, word)
  /\ Burstcount(wait, word)
  /\ Grant(wait, word)
  /\ Masters(wait, word)
  /\ History(wait)

Next == \E wait \in BOOLEAN, word \in Master \union {Nobody} : Clock(wait, word)

Spec == Init /\ [][Next]_vars

(* The slave goes on accepting and answering, and no master leaves a write  *)
(* burst unfinished.                                                        *)
Accepting == \E word \in Master \union {Nobody} : Clock(FALSE, word)
Answering == \E wait \in BOOLEAN, word \in Master : Clock(wait, word)
Resuming(m) == Next /\ req[m].left > 0 /\ req'[m].cmd = "wr"

FairSpec ==
  /\ Spec
  /\ WF_vars(Accepting) /\ WF_vars(Answering)
  /\ \A m \in Master : WF_vars(Resuming(m))

-----------------------------------------------------------------------------
(* Properties.                                                             *)

\* The type of every register and of the traffic.
TypeOK ==
  /\ req \in [Master -> [cmd : {"none", "rd", "wr"}, len : Length, left : 0 .. MaxLen]]
  /\ due \in [Master -> 0 .. MaxLen]
  /\ grant \in [Master -> BOOLEAN] /\ last_grant \in Master
  /\ swapped \in BOOLEAN /\ burstcount \in 0 .. BurstMax
  /\ owed \in [Master -> 0 .. MaxLen] /\ unwritten \in [Master -> 0 .. MaxLen]
  /\ overtaken \in [Master -> 0 .. 2] /\ begun \subseteq Master

\* avm_arbit.vhd:137, "the two Masters are not granted access at the same
\* time", and the outputs' multiplexer points at the one that is.
Exclusive == \A m \in Master : grant[m] => ~grant[Other(m)] /\ last_grant = m

\* Each read word reaches the master that asked for it: what the slave owes
\* each master is what the master is waiting for, although the arbiter keeps
\* no record of whose words are outstanding.
RoutedHome == due = owed

\* The slave has at most one transaction open: nothing comes between the
\* beats of a write burst, or between a read and its last word.
Open(m) == owed[m] > 0 \/ unwritten[m] > 0
OneAtATime == \A m \in Master :
  Open(m) => ~Open(Other(m)) /\ (\A x \in Master : Taken(x, FALSE) => x = m)

\* Round robin: a request is overtaken by one transaction at most.
FairTurns == \A m \in Master : overtaken[m] <= 1

\* Every request is accepted, or withdrawn.
Served == \A m \in Master : Waiting(m) ~> (m \in begun \/ ~Waiting(m))

(* The counter is the length of what is open, and that holds its grant.     *)
Holding ==
  /\ \A m \in Master :
       /\ Open(m) => grant[m] /\ burstcount = owed[m] + unwritten[m]
       /\ owed[m] = 0 \/ unwritten[m] = 0
  /\ (\A m \in Master : ~Open(m)) => burstcount = 0

(* What a master presents, next to the slave's account of it.               *)
Presented == \A m \in Master :
  LET r == req[m]
  IN /\ r.cmd = "rd" => r.left = 0
     /\ r.cmd = "wr" => r.left \in 1 .. r.len
     /\ r.left <= r.len
     /\ unwritten[m] = IF r.left = r.len THEN 0 ELSE r.left
     /\ owed[m] > 0 => r.left = r.len \/ r.left = 0
     /\ owed[m] > 0 /\ m \notin Withdrawing => r = NoRequest
     /\ m \in Withdrawing => r.len = 1 /\ owed[m] <= 1

(* A request overtaken once is next, or granted already.                    *)
NextInTurn == \A m \in Master :
  overtaken[m] > 0 /\ Waiting(m) =>
    (grant[m] /\ ~Open(m)) \/ (grant[Other(m)] /\ Open(Other(m)))

\* The inductive invariant behind the safety properties.
IInv == /\ TypeOK /\ Exclusive /\ RoutedHome /\ Holding /\ Presented
        /\ FairTurns /\ NextInTurn
=============================================================================
