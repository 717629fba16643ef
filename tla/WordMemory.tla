----------------------------- MODULE WordMemory -----------------------------
(***************************************************************************)
(* What avm_cache promises the image buffer in front of it: a memory of     *)
(* words.  A write is done when it is accepted, a read is answered at the   *)
(* earliest in the cycle after, with the word as it is then, and the one    *)
(* client has one read under way at most, as mdv_dpram.vhd's arbiter does.  *)
(***************************************************************************)
EXTENDS Naturals

CONSTANTS
  Addr,        (* word addresses of the client                              *)
  NoAddr,      (* no read under way                                         *)
  Lane,        (* byte lanes                                                *)
  Byte,        (* what a lane may hold                                      *)
  WriteData,   (* words the client writes                                   *)
  MaxWrites    (* bound: writes of the client                               *)

VARIABLES
  (* the client's request, its unanswered read (an address or NoAddr), and  *)
  (* its writes left                                                        *)
  s_write, s_read, s_address, s_writedata, s_byteenable, asked, writesLeft,
  (* the words, and the answer in this cycle                                *)
  words, s_readdatavalid, s_readdata

request == <<s_write, s_read, s_address, s_writedata, s_byteenable>>
client  == <<request, asked, writesLeft>>
vars    == <<client, words, s_readdatavalid, s_readdata>>

Word == [Lane -> Byte]

\* The bytes of v that are enabled, over those of w.
Merge(w, v, be) == [l \in Lane |-> IF l \in be THEN v[l] ELSE w[l]]

(* The client: a request stays until it is accepted; a new one may follow   *)
(* in the next cycle, unless a read was left unanswered.                    *)
ClientInit ==
  /\ s_write = FALSE /\ s_read = FALSE
  /\ s_address \in Addr /\ s_byteenable = Lane /\ s_writedata \in WriteData
  /\ asked = NoAddr
  /\ writesLeft = MaxWrites

NewRequest ==
  \/ /\ s_write' = FALSE /\ s_read' = FALSE
     /\ UNCHANGED <<s_address, s_writedata, s_byteenable, writesLeft>>
  \/ /\ s_read' = TRUE /\ s_write' = FALSE
     /\ s_address' \in Addr
     /\ s_byteenable' = Lane
     /\ UNCHANGED <<s_writedata, writesLeft>>
  \/ /\ writesLeft > 0
     /\ s_write' = TRUE /\ s_read' = FALSE
     /\ s_address' \in Addr
     /\ s_writedata' \in WriteData
     /\ s_byteenable' \in SUBSET Lane \ {{}}
     /\ writesLeft' = writesLeft - 1

Client(accepted) ==
  /\ asked' = IF s_readdatavalid' THEN NoAddr
              ELSE IF s_read /\ accepted THEN s_address ELSE asked
  /\ \/ /\ (s_write \/ s_read) /\ ~accepted
        /\ UNCHANGED <<request, writesLeft>>
     \/ /\ ~(s_write \/ s_read) \/ accepted
        /\ asked' = NoAddr
        /\ NewRequest
     \/ /\ ~(s_write \/ s_read) \/ accepted
        /\ asked' # NoAddr
        /\ s_write' = FALSE /\ s_read' = FALSE
        /\ UNCHANGED <<s_address, s_writedata, s_byteenable, writesLeft>>

Init ==
  /\ ClientInit
  /\ words \in [Addr -> Word]
  /\ s_readdatavalid = FALSE /\ s_readdata \in Word

Answer(a) == s_readdatavalid' = TRUE /\ s_readdata' = words[a]

Serve(accepted) ==
  \/ /\ s_write /\ accepted
     /\ words' = [words EXCEPT ![s_address] = Merge(@, s_writedata, s_byteenable)]
     /\ s_readdatavalid' = FALSE /\ s_readdata' \in Word
  \/ /\ s_read /\ accepted
     /\ Answer(s_address) \/ (s_readdatavalid' = FALSE /\ s_readdata' \in Word)
     /\ UNCHANGED words
  \/ /\ ~((s_write \/ s_read) /\ accepted)
     /\ \/ asked # NoAddr /\ Answer(asked)
        \/ s_readdatavalid' = FALSE /\ s_readdata' \in Word
     /\ UNCHANGED words

Next == \E accepted \in BOOLEAN : Serve(accepted) /\ Client(accepted)

Spec == Init /\ [][Next]_vars
=============================================================================
