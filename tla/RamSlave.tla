------------------------------ MODULE RamSlave ------------------------------
(***************************************************************************)
(* The SDRAM as ql_sdram_ram.vhd, one of its two masters, can observe it:   *)
(* one transaction of its own at a time, waitrequest high until it is over, *)
(* a word for each read.  It may also stall for longer than it should, or   *)
(* for ever, and lose an answer, which is what the watchdog of              *)
(* ql_sdram_ram is for; faulty remembers that it did.  SdramBus is what     *)
(* stands behind these pins, and never is faulty.                           *)
(***************************************************************************)
EXTENDS Naturals

CONSTANTS
  Addr, Lane,  (* word addresses, byte lanes                                *)
  NoAddr,      (* no read in the controller                                 *)
  Junk,        (* what is on the data pins without readdatavalid            *)
  MaxStall,    (* most cycles a free controller keeps waitrequest high      *)
  MaxLatency   (* most cycles from accepting a read to its data             *)

VARIABLES
  (* the master's pins                                                      *)
  avm_write, avm_read, avm_address, avm_wdata, avm_be,
  (* the content, the read in work (an address or NoAddr), the cycles it    *)
  (* has stalled or worked, its answer in this cycle, and whether it ever   *)
  (* took longer than MaxStall or MaxLatency, or lost an answer             *)
  mem, reading, age, readdatavalid, readdata, faulty

ctrlVars == <<mem, reading, age, readdatavalid, readdata, faulty>>

ControllerInit ==
  /\ reading = NoAddr /\ age = 0
  /\ readdatavalid = FALSE /\ readdata = Junk
  /\ faulty = FALSE

(* A transaction is open here that it has not accepted, or is working on.   *)
Pending == avm_read \/ avm_write \/ reading # NoAddr

NoWord == readdatavalid' = FALSE /\ readdata' = Junk

(* One rising edge; wait is its waitrequest before it.                      *)
Controller(wait) ==
  \/ (* idle *)
     /\ ~Pending
     /\ age' = 0
     /\ NoWord /\ UNCHANGED <<mem, reading, faulty>>
  \/ (* refreshing, or serving the other master *)
     /\ reading = NoAddr /\ (avm_read \/ avm_write) /\ wait
     /\ age' = IF age < MaxStall THEN age + 1 ELSE age
     /\ faulty' = (faulty \/ age >= MaxStall)
     /\ NoWord /\ UNCHANGED <<mem, reading>>
  \/ (* a write is accepted *)
     /\ reading = NoAddr /\ avm_write /\ ~wait
     /\ mem' = [mem EXCEPT ![avm_address] =
                  [l \in Lane |-> IF l \in avm_be THEN avm_wdata[l] ELSE @[l]]]
     /\ age' = 0
     /\ NoWord /\ UNCHANGED <<reading, faulty>>
  \/ (* a read is accepted *)
     /\ reading = NoAddr /\ avm_read /\ ~wait
     /\ reading' = avm_address
     /\ age' = 0
     /\ NoWord /\ UNCHANGED <<mem, faulty>>
  \/ (* a read in work *)
     /\ reading # NoAddr /\ wait
     /\ age' = IF age < MaxLatency THEN age + 1 ELSE age
     /\ faulty' = (faulty \/ age >= MaxLatency)
     /\ NoWord /\ UNCHANGED <<mem, reading>>
  \/ (* its data *)
     /\ reading # NoAddr /\ wait
     /\ readdata' = mem[reading] /\ readdatavalid' = TRUE
     /\ reading' = NoAddr
     /\ age' = 0
     /\ UNCHANGED <<mem, faulty>>
  \/ (* its data is lost *)
     /\ reading # NoAddr /\ wait
     /\ reading' = NoAddr
     /\ age' = 0
     /\ faulty' = TRUE
     /\ NoWord /\ UNCHANGED mem
=============================================================================
