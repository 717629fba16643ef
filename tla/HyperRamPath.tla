---------------------------- MODULE HyperRamPath ----------------------------
(***************************************************************************)
(* From the cache of the first microdrive to the HyperRAM: avm_cache,       *)
(* i_avm_arbit_mdv (mega65.vhd:526), i_avm_fifo_mdv1 (mega65.vhd:574) and,  *)
(* in the HyperRAM's own clock, the controller.  AvmCache's abstract memory *)
(* becomes a ledger of what was asked (mem, left, next), and what AvmCache  *)
(* assumes of it is to be checked of the words that come.                   *)
(*                                                                         *)
(* Of the arbiter the other drive's turns remain, for which a request may   *)
(* be kept waiting; AvmArbit shows that nothing of the other's comes        *)
(* between a request and its words.                                         *)
(***************************************************************************)
EXTENDS AvmCache, Sequences

CONSTANTS
  WrDepth, RdDepth

(* The words' FIFO has room for a line.                                     *)
ASSUME PathAssumption ==
  WrDepth \in Nat /\ RdDepth \in Nat /\ Line <= RdDepth

VARIABLES
  requests, answers,
  hram,     (* the words in the HyperRAM                                    *)
  burst,    (* the read it is working on: [left, next]                      *)
  wasReset  (* bound: the core is reset once                                *)

Fifo == INSTANCE AvmFifo

pathVars == <<vars, Fifo!vars, hram, burst, wasReset>>

NoBurst == [left |-> 0, next |-> 0]

PathInit ==
  /\ Init /\ Fifo!Init
  /\ hram = mem /\ burst = NoBurst
  /\ wasReset = FALSE

-----------------------------------------------------------------------------
(* The core's clock: the cache, its client and the near side of the FIFOs.  *)

(* Seeded fault: a request goes in while the cache is kept waiting.          *)
AskedWhileWaiting(wait) ==
  IF m_write \/ m_read
  THEN << [write |-> m_write, a |-> m_address, w |-> m_writedata, be |-> m_byteenable,
           beats |-> m_burstcount] >>
  ELSE <<>>

(* The cache's request as it crosses.                                       *)
Asked(wait) ==
  IF (m_write \/ m_read) /\ ~wait
  THEN << [write |-> m_write, a |-> m_address, w |-> m_writedata, be |-> m_byteenable,
           beats |-> m_burstcount] >>
  ELSE <<>>

CoreEdge(turn, shown) ==
  LET wait == (m_write \/ m_read) /\ (~turn \/ Fifo!s_avm_waitrequest)
  IN /\ Fifo!SlaveEdge(Asked(wait), shown)
     /\ Idle(wait) \/ Reading(wait, shown)
     /\ Ledger(wait, shown)
     /\ Promise!Client(~s_waitrequest(wait, shown))
     /\ UNCHANGED <<hram, burst, wasReset>>

-----------------------------------------------------------------------------
(* The HyperRAM's clock: requests are worked on one after the other.        *)

TakesRequest ==
  /\ burst.left = 0
  /\ Fifo!MasterTakes
  /\ LET r == Head(requests)
     IN IF r.write
        THEN /\ hram' = [hram EXCEPT ![r.a] = Merge(@, r.w, r.be)]
             /\ UNCHANGED burst
        ELSE /\ burst' = [left |-> r.beats, next |-> r.a]
             /\ UNCHANGED hram
  /\ UNCHANGED <<vars, wasReset>>

SendsWord ==
  /\ burst.left > 0
  /\ Fifo!MasterAnswers(hram[burst.next])
  /\ burst' = [left |-> burst.left - 1, next |-> burst.next + 1]
  /\ UNCHANGED <<vars, hram, wasReset>>

PathNext ==
  \/ \E turn, shown \in BOOLEAN : CoreEdge(turn, shown)
  \/ TakesRequest
  \/ SendsWord

(* A menu item that resets the core, or a long press of the button          *)
(* (top_mega65-r6.vhd:849): waiting requests are gone, and the words of a   *)
(* burst under way, which takes no time against a reset, go to the other    *)
(* drive, at which the arbiter points when reset.  The cache is reset when  *)
(* the machine is switched on only (mdv_dpram.vhd:325).                     *)
CoreReset ==
  /\ ~wasReset /\ wasReset' = TRUE
  /\ Fifo!ResetSlave
  /\ answers' = <<>> /\ burst' = NoBurst
  /\ UNCHANGED <<vars, hram>>

-----------------------------------------------------------------------------
(* Both clocks run, the arbiter gives its turns (FairTurns of AvmArbit), and *)
(* what is in a FIFO shows in the end.                                      *)
Fairness ==
  /\ WF_pathVars(\E turn, shown \in BOOLEAN : CoreEdge(turn, shown))
  /\ WF_pathVars((m_write \/ m_read) /\ ~Fifo!s_avm_waitrequest
                 /\ \E shown \in BOOLEAN : CoreEdge(TRUE, shown))
  /\ WF_pathVars(\E turn \in BOOLEAN : CoreEdge(turn, TRUE))
  /\ WF_pathVars(TakesRequest)
  /\ WF_pathVars(SendsWord)

PathSpec  == PathInit /\ [][PathNext]_pathVars /\ Fairness
ResetSpec == PathInit /\ [][PathNext \/ CoreReset]_pathVars /\ Fairness

-----------------------------------------------------------------------------
(* Properties.                                                             *)

\* FIFO and HyperRAM are the memory AvmCache has behind it: words come only for
\* a burst that is owed, so all that is shown of AvmCache holds here.
CacheSpec == Spec

(* A read is among the requests that wait; it is the last of them.          *)
ReadWaits == requests # <<>> /\ ~requests[Len(requests)].write

(* The words the HyperRAM still has to send.                                *)
Coming == burst.left + (IF ReadWaits THEN requests[Len(requests)].beats ELSE 0)

\* The words on their way back are those the cache is owed, none lost or
\* doubled, and as the writes before left them; and as many as are still to
\* come fit into the FIFO that cannot refuse them (avm_fifo.vhd:117).
InOrder ==
  /\ left = Len(answers) + Coming
  /\ \A i \in 1 .. Len(answers) : answers[i] = mem[next + i - 1]
  /\ Len(answers) + Coming <= RdDepth

\* A read of the drive is answered, also when the core is reset meanwhile:
\* "Domain resets follow the framework's own rule [...] never cross them, or
\* one side thinks a transaction is still in flight after the other has
\* forgotten it" (mega65.vhd:569).
ServedAfterReset == s_read ~> s_readdatavalid

(* What waits in the FIFOs, and the read the HyperRAM is working on.        *)
Request == [write : BOOLEAN, a : MemAddr, w : Word, be : SUBSET Lane, beats : 0 .. Line]

PathTypeOK ==
  /\ requests \in Seq(Request) /\ answers \in Seq(Word)
  /\ hram \in [MemAddr -> Word]
  /\ burst \in [left : 0 .. Line, next : Nat]

(* A byte is the HyperRAM's, or that of the last waiting write to it.       *)
Touches(r, a, l) == r.write /\ r.a = a /\ l \in r.be

WritesInOrder ==
  \A a \in MemAddr, l \in Lane :
    LET last(i) == \A j \in i + 1 .. Len(requests) : ~Touches(requests[j], a, l)
    IN \/ last(0) /\ mem[a][l] = hram[a][l]
       \/ \E i \in 1 .. Len(requests) :
            Touches(requests[i], a, l) /\ last(i) /\ mem[a][l] = requests[i].w[l]

(* One read at a time: nothing is asked before all its words are there.     *)
ReadShape ==
  /\ \A i \in 1 .. Len(requests) : i < Len(requests) => requests[i].write
  /\ burst.left > 0 => requests = <<>> /\ burst.next = next + Len(answers)
  /\ ReadWaits => /\ burst.left = 0 /\ answers = <<>>
                  /\ requests[Len(requests)].a = next
                  /\ requests[Len(requests)].beats > 0

(* The inductive invariant behind CacheSpec and InOrder.                     *)
PathIInv == IInv /\ PathTypeOK /\ WritesInOrder /\ ReadShape /\ InOrder
=============================================================================
