---------------------------- MODULE DpRam_proofs ----------------------------
(***************************************************************************)
(* The write path of the image buffer (DpRam) for any number of words, any *)
(* latency and any traffic: IInv is inductive, so no accepted write is lost *)
(* but by the overflow of the latch, an open request never moves, and only   *)
(* an answer that was overtaken spoils the word port A holds.               *)
(***************************************************************************)
EXTENDS DpRam, TLAPS

(* The registers start in the invariant.                                    *)
LEMMA InitIInv ==
  Init => IInv
<1> SUFFICES ASSUME Init PROVE IInv
  OBVIOUS
<1>1. TypeOK
  <2>1. 0 \in Values /\ 0 \in 0 .. Settle - 1 /\ 0 \in 0 .. Refresh /\ 0 \in 0 .. MaxLatency
    BY ConstantsAssumption DEF Values
  <2>2. MaxWrites \in 0 .. MaxWrites /\ MaxForgets \in 0 .. MaxForgets /\ [p \in {"A", "B"} |-> MaxMoves] \in Counts
    BY ConstantsAssumption DEF Values, Counts
  <2>3. Content \in [Addr -> Values]
    BY ConstantsAssumption DEF Values
  <2> QED
    BY <2>1, <2>2, <2>3 DEF Init, TypeOK, Owners
<1>2. RequestShape
  BY DEF Init, RequestShape
<1>3. NoWriteLost
  BY DEF Init, NoWriteLost, Settled
<1>4. HoldShape
  BY DEF Init, HoldShape
<1> QED
  BY <1>1, <1>2, <1>3, <1>4 DEF IInv

(* One clock edge keeps every register in its type.                         *)
LEMMA StepTypeOK ==
  ASSUME TypeOK, NEW wait \in BOOLEAN, Clock(wait)
  PROVE  TypeOK'
<1> USE ConstantsAssumption DEF Values, Counts, Owners
<1>1. /\ wraddress' \in Addr /\ rdaddress' \in Addr
      /\ wren' \in BOOLEAN /\ data' \in Values
      /\ writesLeft' \in 0 .. MaxWrites /\ movesLeft' \in Counts
  BY DEF TypeOK, Clock, Masters
<1>2. /\ a_pend_write' \in BOOLEAN /\ a_pend_addr' \in Addr /\ a_pend_data' \in Values
  BY DEF TypeOK, Clock, PortA, WriteLatch
<1>3. /\ a_addr_prev' \in Addr /\ a_settle_cnt' \in 0 .. Settle - 1
      /\ a_settled' \in BOOLEAN
      /\ a_pend_read' \in BOOLEAN /\ a_pend_read_addr' \in Addr
  <2>1. /\ a_addr_prev' \in Addr /\ a_settled' \in BOOLEAN
        /\ a_pend_read' \in BOOLEAN /\ a_pend_read_addr' \in Addr
    BY DEF TypeOK, Clock, PortA, ReadTracker
  <2>2. a_settle_cnt \in 0 .. Settle - 1 /\ ReadTracker(wait)
    BY DEF TypeOK, Clock, PortA
  <2>3. a_settle_cnt' \in 0 .. Settle - 1
    <3>1. 0 \in 0 .. Settle - 1
      OBVIOUS
    <3>2. CASE a_settle_cnt' = 0
      BY <3>1, <3>2
    <3>3. CASE a_settle_cnt' = a_settle_cnt
      BY <2>2, <3>3
    <3>4. CASE a_settle_cnt # Settle - 1 /\ a_settle_cnt' = a_settle_cnt + 1
      BY <2>2, <3>4
    <3> QED
      BY <2>2, <3>2, <3>3, <3>4 DEF ReadTracker, SettleExpires
  <2> QED
    BY <2>1, <2>3
<1>4. a_hold_q' \in Values /\ a_hold_addr' \in Addr \union {NoAddr}
  BY DEF TypeOK, Clock, PortA, HoldA
<1>5. /\ b_addr_prev' \in Addr /\ b_refresh_cnt' \in 0 .. Refresh
      /\ b_pend_read' \in BOOLEAN /\ b_pend_read_addr' \in Addr
  BY DEF TypeOK, Clock, PortB
<1>6. /\ owner' \in Owners /\ req_is_write' \in BOOLEAN
      /\ s_write' \in BOOLEAN /\ s_read' \in BOOLEAN
      /\ s_address' \in Addr /\ s_writedata' \in Values /\ b_hold_q' \in Values
  BY DEF TypeOK, Clock, Arbiter, Dispatch, Release, Request, arbVars
<1>7. /\ mem' \in [Addr -> Values] /\ taken' \in Addr \union {NoAddr}
      /\ s_readdatavalid' \in BOOLEAN /\ s_readdata' \in Values
      /\ age' \in 0 .. MaxLatency /\ forgetsLeft' \in 0 .. MaxForgets
  <2>1. Memory(wait) /\ mem \in [Addr -> Values] /\ taken \in Addr \union {NoAddr}
    BY DEF TypeOK, Clock
  <2>2. s_address \in Addr /\ s_writedata \in Values /\ s_readdata \in Values
    BY DEF TypeOK
  <2>3. mem' \in [Addr -> Values]
    BY <2>1, <2>2 DEF Memory, Traffic, Forget
  <2>4. taken' \in Addr \union {NoAddr} /\ s_readdatavalid' \in BOOLEAN
    BY <2>1, <2>2 DEF Memory, Traffic, Forget, Respond
  <2>5. s_readdata' \in Values
    BY <2>1, <2>2 DEF Memory, Traffic, Forget, Respond
  <2>6. age' \in 0 .. MaxLatency
    <3>1. age \in 0 .. MaxLatency /\ 0 \in 0 .. MaxLatency
      BY DEF TypeOK
    <3>2. age' \in {0, age} \/ (age < MaxLatency /\ age' = age + 1)
      BY <2>1 DEF Memory, Traffic, Forget, Respond
    <3> QED
      BY <3>1, <3>2
  <2>7. forgetsLeft' \in 0 .. MaxForgets
    <3>1. forgetsLeft \in 0 .. MaxForgets
      BY DEF TypeOK
    <3>2. forgetsLeft' = forgetsLeft \/ (forgetsLeft > 0 /\ forgetsLeft' = forgetsLeft - 1)
      BY <2>1 DEF Memory, Forget
    <3> QED
      BY <3>1, <3>2
  <2> QED
    BY <2>3, <2>4, <2>5, <2>6, <2>7
<1>8. stranded' \in BOOLEAN
  BY DEF TypeOK, Clock, History
<1>9. want' \in [Addr -> Values] /\ lost' \subseteq Addr
  BY DEF TypeOK, Clock, History
<1> QED
  BY <1>1, <1>2, <1>3, <1>4, <1>5, <1>6, <1>7, <1>8, <1>9 DEF TypeOK

(* One clock edge keeps owner, request, cache and latch in step.            *)
LEMMA StepRequestShape ==
  ASSUME TypeOK, RequestShape, NEW wait \in BOOLEAN, Clock(wait)
  PROVE  RequestShape'
<1> USE ConstantsAssumption DEF Owners
<1>1. /\ Memory(wait) /\ WriteLatch(wait) /\ Arbiter(wait) /\ History(wait)
      /\ owner \in Owners /\ s_address \in Addr
      /\ wren \in BOOLEAN /\ a_pend_write \in BOOLEAN
      /\ s_write \in BOOLEAN /\ s_read \in BOOLEAN
  BY DEF Clock, PortA, TypeOK
<1>2. CASE owner = "NONE"
  <2>1. taken' = NoAddr /\ ~s_readdatavalid'
    BY <1>1, <1>2 DEF Memory, Traffic, Forget, Respond, RequestShape
  <2>2. Dispatch
    BY <1>1, <1>2 DEF Arbiter, Release
  <2>3. CASE a_pend_write
    <3>1. Request("PORT_A", TRUE, a_pend_addr, a_pend_data)
      BY <2>2, <2>3 DEF Dispatch
    <3>2. a_pend_write'
      BY <1>1, <1>2, <2>3 DEF WriteLatch
    <3>3. a_pend_addr' \in lost' \/ (a_pend_addr' = s_address' /\ a_pend_data' = s_writedata')
      BY <1>1, <1>2, <2>3, <3>1 DEF WriteLatch, History, Request
    <3> QED
      BY <2>1, <3>1, <3>2, <3>3 DEF RequestShape, Request
  <2>4. CASE ~a_pend_write
    BY <1>2, <2>1, <2>2, <2>4 DEF RequestShape, Dispatch, Request, arbVars
  <2> QED
    BY <2>3, <2>4
<1>3. CASE owner # "NONE"
  <2>1. Release(wait)
    BY <1>1, <1>3 DEF Arbiter, Dispatch
  <2>2. req_is_write => ~s_read' /\ taken' = NoAddr /\ ~s_readdatavalid'
    BY <1>1, <2>1 DEF Release, Memory, Traffic, Forget, Respond, RequestShape
  <2>3. ~req_is_write => ~s_write'
    BY <1>1, <2>1 DEF Release, RequestShape
  <2>4. s_read' => taken' = NoAddr /\ ~s_readdatavalid'
    BY <1>1, <2>1 DEF Release, Memory, Traffic, Forget, Respond, RequestShape
  <2>5. taken' # NoAddr => ~s_readdatavalid'
    BY <1>1 DEF Memory, Traffic, Forget, Respond, RequestShape
  <2>6. owner' = "NONE" => ~s_write' /\ ~s_read' /\ taken' = NoAddr /\ ~s_readdatavalid'
    BY <1>1, <1>3, <2>1 DEF Release, Memory, Traffic, Forget, Respond, RequestShape
  <2>7. owner' = "PORT_B" => ~req_is_write'
    BY <2>1 DEF Release, RequestShape
  <2>8. ASSUME s_write'
        PROVE  /\ a_pend_write'
               /\ \/ a_pend_addr' \in lost'
                  \/ a_pend_addr' = s_address' /\ a_pend_data' = s_writedata'
    <3>1. s_write /\ wait /\ UNCHANGED <<s_address, s_writedata>>
      BY <2>1, <2>8 DEF Release
    <3>2. a_pend_write
      BY <3>1 DEF RequestShape
    <3>3. CASE wren
      BY <1>1, <3>1, <3>2, <3>3 DEF WriteLatch, History
    <3>4. CASE ~wren
      BY <1>1, <3>1, <3>2, <3>4 DEF WriteLatch, History, RequestShape
    <3> QED
      BY <3>3, <3>4
  <2>9. req_is_write' = req_is_write
    BY <2>1 DEF Release
  <2> QED
    BY <2>2, <2>3, <2>4, <2>5, <2>6, <2>7, <2>8, <2>9 DEF RequestShape
<1> QED
  BY <1>2, <1>3

(* One clock edge keeps every written word accounted for: it is in the      *)
(* latch, in the request, in the memory, or among those the latch dropped.  *)
LEMMA StepNoWriteLost ==
  ASSUME TypeOK, RequestShape, NoWriteLost, NEW wait \in BOOLEAN, Clock(wait)
  PROVE  NoWriteLost'
<1> USE ConstantsAssumption DEF Owners
<1>1. /\ Memory(wait) /\ WriteLatch(wait) /\ Arbiter(wait) /\ History(wait)
      /\ owner \in Owners /\ s_address \in Addr /\ wraddress \in Addr
      /\ a_pend_addr \in Addr
      /\ wren \in BOOLEAN /\ a_pend_write \in BOOLEAN
      /\ s_write \in BOOLEAN /\ s_read \in BOOLEAN
      /\ mem \in [Addr -> Values] /\ want \in [Addr -> Values]
  BY DEF Clock, PortA, TypeOK
<1> SUFFICES ASSUME NEW a \in Addr, a \notin lost'
             PROVE  want'[a] = Settled(a)'
  BY DEF NoWriteLost
<1>2. mem'[a] = IF s_write /\ ~wait /\ s_address = a THEN s_writedata ELSE mem[a]
  BY <1>1 DEF Memory, Traffic, Forget, Respond, RequestShape
<1>3. want'[a] = IF wren /\ wraddress = a THEN data ELSE want[a]
  BY <1>1 DEF History
<1>4. a \in lost \/ want[a] = Settled(a)
  BY DEF NoWriteLost
<1>5. CASE owner = "NONE"
  <2>1. Dispatch /\ ~s_write
    BY <1>1, <1>5 DEF Arbiter, Release, RequestShape
  <2>2. CASE a_pend_write
    <3>1. s_write' /\ s_address' = a_pend_addr /\ s_writedata' = a_pend_data
      BY <2>1, <2>2 DEF Dispatch, Request
    <3>2. a_pend_write'
      BY <1>1, <1>5, <2>2 DEF WriteLatch
    <3>3. CASE wren
      BY <1>1, <1>2, <1>3, <1>4, <1>5, <2>1, <2>2, <3>1, <3>2, <3>3
         DEF WriteLatch, History, Settled
    <3>4. CASE ~wren
      BY <1>1, <1>2, <1>3, <1>4, <1>5, <2>1, <2>2, <3>1, <3>2, <3>4
         DEF WriteLatch, History, Settled
    <3> QED
      BY <3>3, <3>4
  <2>3. CASE ~a_pend_write
    <3>1. ~s_write'
      BY <2>1, <2>3 DEF Dispatch, Request, arbVars
    <3> QED
      BY <1>1, <1>2, <1>3, <1>4, <1>5, <2>1, <2>3, <3>1 DEF WriteLatch, History, Settled
  <2> QED
    BY <2>2, <2>3
<1>6. CASE owner # "NONE"
  <2>1. /\ s_write' = (s_write /\ wait)
        /\ UNCHANGED <<s_address, s_writedata>>
    BY <1>1, <1>6 DEF Arbiter, Dispatch, Release
  <2>2. CASE s_write
    <3>1. /\ owner = "PORT_A" /\ a_pend_write
          /\ a_pend_addr \in lost \/ (a_pend_addr = s_address /\ a_pend_data = s_writedata)
      BY <1>1, <1>6, <2>2 DEF RequestShape
    <3>2. CASE wren
      BY <1>1, <1>2, <1>3, <1>4, <1>6, <2>1, <2>2, <3>1, <3>2
         DEF WriteLatch, History, Settled
    <3>3. CASE ~wren
      BY <1>1, <1>2, <1>3, <1>4, <1>6, <2>1, <2>2, <3>1, <3>3
         DEF WriteLatch, History, Settled
    <3> QED
      BY <3>2, <3>3
  <2>3. CASE ~s_write
    <3>1. CASE wren
      BY <1>1, <1>2, <1>3, <1>4, <1>6, <2>1, <2>3, <3>1 DEF WriteLatch, History, Settled
    <3>2. CASE ~wren
      BY <1>1, <1>2, <1>3, <1>4, <1>6, <2>1, <2>3, <3>2 DEF WriteLatch, History, Settled
    <3> QED
      BY <3>1, <3>2
  <2> QED
    BY <2>2, <2>3
<1> QED
  BY <1>5, <1>6

(* A clock edge keeps the read of port A what it was dispatched for.         *)
LEMMA StepHoldShape ==
  ASSUME IInv, NEW wait \in BOOLEAN, Clock(wait)
  PROVE  HoldShape'
<1> USE ConstantsAssumption DEF Owners
<1> SUFFICES ASSUME owner' = "PORT_A", ~req_is_write'
             PROVE  /\ taken' \in {NoAddr, s_address'}
                    /\ s_readdatavalid' => s_readdata' = mem'[s_address']
  BY DEF HoldShape
<1>1. /\ Memory(wait) /\ Arbiter(wait)
      /\ owner \in Owners /\ s_write \in BOOLEAN /\ s_read \in BOOLEAN
  BY DEF Clock, IInv, TypeOK
<1>2. CASE owner = "NONE"
  <2>1. ~s_write /\ ~s_read /\ taken = NoAddr
    BY <1>2 DEF IInv, RequestShape
  <2> QED
    BY <1>1, <2>1 DEF Memory, Traffic, Forget
<1>3. CASE owner # "NONE"
  <2>1. owner = "PORT_A" /\ ~req_is_write /\ UNCHANGED s_address
    <3>1. Release(wait)
      BY <1>1, <1>3 DEF Arbiter, Dispatch
    <3> QED
      BY <3>1 DEF Release
  <2>2. ~s_write /\ taken \in {NoAddr, s_address}
    BY <2>1 DEF IInv, RequestShape, HoldShape
  <2> QED
    BY <1>1, <2>1, <2>2 DEF Memory, Traffic, Forget, Respond
<1> QED
  BY <1>2, <1>3

(* The bounded, reordered, delayed traffic of the buffer never leaves the   *)
(* invariant: Init establishes it and every clock edge keeps it.            *)
THEOREM Inductive ==
  Spec => []IInv
<1>1. Init => IInv
  BY InitIInv
<1>2. ASSUME IInv, [Next]_vars
      PROVE  IInv'
  <2>1. CASE Next
    <3>1. PICK wait \in BOOLEAN : Clock(wait)
      BY <2>1 DEF Next
    <3>2. TypeOK'
      BY <1>2, <3>1, StepTypeOK DEF IInv
    <3>3. RequestShape'
      BY <1>2, <3>1, StepRequestShape DEF IInv
    <3>4. NoWriteLost'
      BY <1>2, <3>1, StepNoWriteLost DEF IInv
    <3>5. HoldShape'
      BY <1>2, <3>1, StepHoldShape
    <3> QED
      BY <3>2, <3>3, <3>4, <3>5 DEF IInv
  <2>2. CASE UNCHANGED vars
    BY <1>2, <2>2
       DEF IInv, TypeOK, RequestShape, NoWriteLost, HoldShape, Settled, vars,
           inVars, aVars, latch, bVars, arbVars, memVars
  <2> QED
    BY <1>2, <2>1, <2>2
<1> QED
  BY <1>1, <1>2, PTL DEF Spec

(* Every register and input keeps its type.                                 *)
THEOREM TypeCorrect ==
  Spec => []TypeOK
<1>1. IInv => TypeOK
  BY DEF IInv
<1> QED
  BY <1>1, Inductive, PTL

(* A write the port took reaches the memory, whatever was in flight and     *)
(* whenever the next one came, unless the one-deep latch overflowed.        *)
THEOREM WritesReachMemory ==
  Spec => []NoWriteLost
<1>1. IInv => NoWriteLost
  BY DEF IInv
<1> QED
  BY <1>1, Inductive, PTL

(* Whatever its masters do, a write and every answer that nothing overtook    *)
(* set the word port A holds right, and no other clock makes it wrong: of    *)
(* all that happens only an overtaken answer spoils it.                     *)
THEOREM OnlyOvertakenAnswersSpoil ==
  Spec => RightUntilOvertaken
<1>1. ASSUME IInv, [Next]_vars
      PROVE  [(IF Answered THEN ~Overtaken ELSE wren \/ HeldIsRight) => HeldIsRight']_vars
  <2> SUFFICES ASSUME IF Answered THEN ~Overtaken ELSE wren \/ HeldIsRight,
                      Next, a_hold_addr' \in Addr \ lost'
               PROVE  a_hold_q' = want'[a_hold_addr']
    BY <1>1 DEF HeldIsRight
  <2>1. PICK wait \in BOOLEAN : Clock(wait)
    BY DEF Next
  <2>2. /\ HoldA /\ History(wait)
        /\ wren \in BOOLEAN /\ wraddress \in Addr /\ s_address \in Addr
        /\ want \in [Addr -> Values] /\ mem \in [Addr -> Values]
    BY <1>1, <2>1 DEF Clock, PortA, IInv, TypeOK
  <2>3. CASE Answered
    <3>1. ~req_is_write /\ ~s_write
      BY <1>1, <2>3 DEF IInv, RequestShape, Answered
    <3>2. a_hold_addr' = s_address /\ a_hold_q' = mem[s_address]
      BY <1>1, <2>2, <2>3, <3>1 DEF HoldA, Answered, Overtaken, IInv, HoldShape
    <3>3. s_address \notin lost
      BY <2>2, <2>3, <3>2 DEF History, Answered, Overtaken
    <3>4. want[s_address] = mem[s_address]
      BY <1>1, <2>2, <2>3, <3>1, <3>3
         DEF IInv, NoWriteLost, Settled, Answered, Overtaken
    <3> QED
      BY <2>2, <2>3, <3>2, <3>4 DEF History, Answered, Overtaken
  <2>4. CASE ~Answered /\ wren
    BY <2>2, <2>4 DEF HoldA, History, Answered
  <2>5. CASE ~Answered /\ ~wren
    BY <2>2, <2>5 DEF HoldA, History, Answered, HeldIsRight
  <2> QED
    BY <2>3, <2>4, <2>5
<1> QED
  BY <1>1, Inductive, PTL DEF RightUntilOvertaken, Spec

(* While the cache has not taken a request, its kind, address and data do   *)
(* not change.                                                             *)
THEOREM RequestsStandStill ==
  Spec => RequestStable
<1>1. ASSUME IInv, [Next]_vars
      PROVE  [(s_write \/ s_read) /\ (s_write' \/ s_read') =>
                UNCHANGED <<s_write, s_read, s_address, s_writedata>>]_vars
  <2> SUFFICES ASSUME s_write \/ s_read, s_write' \/ s_read'
               PROVE  UNCHANGED <<s_write, s_read, s_address, s_writedata>>
    OBVIOUS
  <2>1. CASE Next
    <3>1. PICK wait \in BOOLEAN : Clock(wait)
      BY <2>1 DEF Next
    <3>2. owner # "NONE" /\ s_write \in BOOLEAN /\ s_read \in BOOLEAN
      BY <1>1 DEF IInv, RequestShape, TypeOK
    <3>3. Release(wait)
      BY <3>1, <3>2 DEF Clock, Arbiter, Dispatch
    <3>4. wait
      BY <3>3 DEF Release
    <3> QED
      BY <3>2, <3>3, <3>4 DEF Release
  <2>2. CASE UNCHANGED vars
    BY <2>2 DEF vars, arbVars
  <2> QED
    BY <1>1, <2>1, <2>2
<1> QED
  BY <1>1, Inductive, PTL DEF RequestStable, Spec

-----------------------------------------------------------------------------
(* How long the ports wait.                                                  *)

(* What a clock edge does to the request under way.  Nothing is under way,   *)
(* and one may be dispatched:                                               *)
Free ==
  /\ owner = "NONE" /\ Dispatch
  /\ ~s_write /\ ~s_read /\ taken = NoAddr /\ ~s_readdatavalid
  /\ taken' = NoAddr /\ ~s_readdatavalid' /\ age' = age /\ mem' = mem

(* The cache works on it:                                                   *)
InWork ==
  /\ owner # "NONE" /\ (s_write \/ s_read \/ taken # NoAddr) /\ age < MaxLatency
  /\ UNCHANGED <<owner, req_is_write, s_write, s_read, s_address, taken, mem, b_hold_q>>
  /\ ~s_readdatavalid' /\ age' = age + 1

(* It is a write, and taken:                                                *)
WriteTaken ==
  /\ owner # "NONE" /\ req_is_write /\ s_write /\ ~s_read /\ taken = NoAddr
  /\ UNCHANGED <<owner, req_is_write, s_address, taken>>
  /\ ~s_write' /\ ~s_read' /\ ~s_readdatavalid' /\ age' = 0

(* It is a read, and taken or answered:                                     *)
Answer(a) == taken' = NoAddr /\ s_readdatavalid' /\ s_readdata' = mem[a] /\ age' = 0
ReadTaken(wait) ==
  /\ owner # "NONE" /\ ~req_is_write /\ s_read /\ ~wait /\ ~s_write /\ ~s_readdatavalid
  /\ UNCHANGED <<owner, req_is_write, s_address, mem, b_hold_q>> /\ ~s_write' /\ ~s_read'
  /\ \/ Answer(s_address)
     \/ taken' = s_address /\ ~s_readdatavalid' /\ age < MaxLatency /\ age' = age + 1
ReadDone ==
  /\ owner # "NONE" /\ ~req_is_write /\ ~s_write /\ ~s_read /\ taken # NoAddr
  /\ UNCHANGED <<owner, req_is_write, s_address, mem, b_hold_q>> /\ ~s_write' /\ ~s_read'
  /\ Answer(taken)

(* It is over:                                                              *)
Over ==
  /\ owner # "NONE" /\ ~s_write /\ ~s_read /\ taken = NoAddr
  /\ req_is_write \/ s_readdatavalid
  /\ owner' = "NONE" /\ ~s_write' /\ ~s_read' /\ taken' = NoAddr /\ ~s_readdatavalid'
  /\ age' = age /\ mem' = mem /\ UNCHANGED req_is_write
  /\ b_hold_q' = IF owner = "PORT_B" /\ s_readdatavalid THEN s_readdata ELSE b_hold_q

LEMMA RequestSteps ==
  ASSUME IInv, AnswersDue, NEW wait \in BOOLEAN, Clock(wait), ~Forgotten'
  PROVE  /\ ~Forgotten
         /\ Free \/ InWork \/ WriteTaken \/ ReadTaken(wait) \/ ReadDone \/ Over
<1> USE ConstantsAssumption DEF Owners
<1>1. /\ Memory(wait) /\ Arbiter(wait) /\ RequestShape /\ NoAddr \notin Addr
      /\ owner \in Owners /\ s_address \in Addr /\ taken \in Addr \union {NoAddr}
      /\ s_write \in BOOLEAN /\ s_read \in BOOLEAN /\ req_is_write \in BOOLEAN
      /\ s_readdatavalid \in BOOLEAN
      /\ forgetsLeft \in 0 .. MaxForgets /\ MaxForgets \in Nat
  BY DEF Clock, IInv, TypeOK
<1>2. ~Forgotten /\ Traffic(wait)
  BY <1>1 DEF Memory, Forget, Forgotten
<1>3. CASE owner = "NONE"
  BY <1>1, <1>2, <1>3 DEF RequestShape, Arbiter, Release, Traffic, Free
<1>4. CASE owner # "NONE"
  <2>1. Release(wait)
    BY <1>1, <1>4 DEF Arbiter, Dispatch
  <2>2. CASE s_write
    BY <1>1, <1>2, <1>4, <2>1, <2>2
       DEF RequestShape, Release, Traffic, Respond, InWork, WriteTaken
  <2>3. CASE s_read
    BY <1>1, <1>2, <1>4, <2>1, <2>3
       DEF RequestShape, Release, Traffic, Respond, InWork, ReadTaken, Answer
  <2>4. CASE ~s_write /\ ~s_read /\ taken # NoAddr
    BY <1>1, <1>2, <1>4, <2>1, <2>4
       DEF RequestShape, Release, Traffic, Respond, InWork, ReadDone, Answer
  <2>5. CASE ~s_write /\ ~s_read /\ taken = NoAddr
    <3>1. req_is_write \/ s_readdatavalid
      BY <1>2, <1>4, <2>5 DEF AnswersDue
    <3> QED
      BY <1>1, <1>2, <1>4, <2>1, <2>5, <3>1 DEF RequestShape, Release, Traffic, Over
  <2> QED
    BY <2>2, <2>3, <2>4, <2>5
<1> QED
  BY <1>2, <1>3, <1>4

(* While none was forgotten a request under way gets done.                   *)
LEMMA RequestCounts ==
  ASSUME IInv, AnswersDue, NEW wait \in BOOLEAN, Clock(wait), ~Forgotten'
  PROVE  /\ RequestLeft \in 0 .. Turn - 1 /\ RequestLeft' \in 0 .. Turn - 1
         /\ owner # "NONE" => RequestLeft' + 1 <= RequestLeft
         /\ owner = "NONE" => RequestLeft = 0
         /\ owner' = "NONE" => RequestLeft' = 0
<1>1. /\ age \in 0 .. MaxLatency /\ MaxLatency \in Nat /\ Turn = MaxLatency + 3
      /\ ~s_write /\ ~s_read /\ taken = NoAddr => age = 0
  BY ConstantsAssumption DEF IInv, TypeOK, AnswersDue, Turn
<1>2. Free \/ InWork \/ WriteTaken \/ ReadTaken(wait) \/ ReadDone \/ Over
  BY RequestSteps
<1> QED
  BY <1>1, <1>2
     DEF Free, InWork, WriteTaken, ReadTaken, ReadDone, Over, Answer, RequestLeft

(* A clock edge keeps an answer due for every read.                          *)
LEMMA StepAnswersDue ==
  ASSUME IInv, AnswersDue, NEW wait \in BOOLEAN, Clock(wait)
  PROVE  AnswersDue'
<1> USE ConstantsAssumption DEF Owners
<1>1. /\ Memory(wait) /\ WriteLatch(wait) /\ ReadTracker(wait) /\ HoldA /\ Arbiter(wait)
      /\ PortB(wait) /\ History(wait)
      /\ owner \in Owners /\ s_address \in Addr /\ taken \in Addr \union {NoAddr}
      /\ s_write \in BOOLEAN /\ s_read \in BOOLEAN /\ req_is_write \in BOOLEAN
      /\ wren \in BOOLEAN /\ a_pend_read \in BOOLEAN /\ a_settled \in BOOLEAN
      /\ a_pend_write \in BOOLEAN /\ s_readdatavalid \in BOOLEAN /\ stranded \in BOOLEAN
      /\ NoAddr \notin Addr
  BY DEF Clock, PortA, IInv, TypeOK
<1>2. RequestShape
  BY DEF IInv
<1>3. ~s_write' /\ ~s_read' /\ taken' = NoAddr => age' = 0
  <2>1. CASE owner = "NONE"
    BY <1>1, <1>2, <2>1 DEF RequestShape, AnswersDue, Memory, Traffic, Forget, Respond
  <2>2. CASE owner # "NONE"
    <3>1. s_write' = (s_write /\ wait) /\ s_read' = (s_read /\ wait)
      BY <1>1, <2>2 DEF Arbiter, Dispatch, Release
    <3> QED
      BY <1>1, <1>2, <3>1 DEF RequestShape, AnswersDue, Memory, Traffic, Forget, Respond
  <2> QED
    BY <2>1, <2>2
<1>4. b_pend_read' => b_pend_read_addr' = b_addr_prev'
  BY <1>1 DEF PortB, AnswersDue
<1>5. ASSUME ~Forgotten', owner' # "NONE", ~req_is_write'
      PROVE  s_read' \/ taken' # NoAddr \/ s_readdatavalid'
  <2>1. Free \/ InWork \/ WriteTaken \/ ReadTaken(wait) \/ ReadDone \/ Over
    BY <1>5, RequestSteps
  <2> QED
    BY <1>1, <1>2, <1>5, <2>1
       DEF Free, InWork, WriteTaken, ReadTaken, ReadDone, Over, Answer, Dispatch, Request,
           arbVars, RequestShape
<1>6. ASSUME ~stranded', a_settled', ~wren', a_addr_prev' = wraddress'
      PROVE  /\ ReadUnderWay' => a_pend_read_addr' = wraddress'
             /\ q_a_valid_o' \/ ReadUnderWay'
  <2>1. wraddress' = wraddress /\ ~stranded
    BY <1>1, <1>6 DEF History, ReadTracker
  <2>2. ReadUnderWay' => ReadUnderWay \/ SettleExpires
    <3>1. a_pend_read' => a_pend_read \/ SettleExpires
      BY <1>1 DEF ReadTracker
    <3>2. owner' = "PORT_A" /\ ~req_is_write' =>
            (owner = "PORT_A" /\ ~req_is_write) \/ a_pend_read
      BY <1>1 DEF Arbiter, Dispatch, Request, Release, arbVars
    <3> QED
      BY <3>1, <3>2 DEF ReadUnderWay
  <2>3. ~(owner = "PORT_A" /\ s_readdatavalid) /\ ReadUnderWay => ReadUnderWay'
    <3>1. owner = "PORT_A" /\ ~req_is_write /\ ~s_readdatavalid =>
            owner' = "PORT_A" /\ ~req_is_write'
      BY <1>1 DEF Arbiter, Dispatch, Release
    <3>2. a_pend_read => a_pend_read' \/ (owner = "PORT_A" /\ s_read)
      BY <1>1 DEF ReadTracker
    <3> QED
      BY <1>2, <3>1, <3>2 DEF RequestShape, ReadUnderWay
  <2>4. owner = "PORT_A" /\ s_readdatavalid => ReadUnderWay
    BY <1>2 DEF RequestShape, ReadUnderWay
  <2>5. CASE wren
    <3>1. ReadUnderWay => a_pend_read_addr = wraddress
      BY <1>1, <1>6, <2>1, <2>5 DEF History
    <3>2. a_pend_read_addr' = a_pend_read_addr /\ ~SettleExpires
      BY <1>1, <2>5 DEF ReadTracker, SettleExpires
    <3>3. a_hold_addr' = wraddress
      BY <1>1, <2>4, <2>5, <3>1 DEF HoldA
    <3> QED
      BY <2>1, <2>2, <3>1, <3>2, <3>3 DEF q_a_valid_o
  <2>6. CASE SettleExpires
    <3>1. a_pend_read_addr' = wraddress
      BY <1>1, <2>6 DEF ReadTracker
    <3>2. CASE owner = "PORT_A" /\ s_read
      <4>1. owner' = "PORT_A" /\ ~req_is_write'
        BY <1>1, <1>2, <3>2 DEF RequestShape, Arbiter, Dispatch, Release
      <4> QED
        BY <2>1, <3>1, <4>1 DEF ReadUnderWay
    <3>3. CASE ~(owner = "PORT_A" /\ s_read)
      <4>1. a_pend_read'
        BY <1>1, <2>6, <3>3 DEF ReadTracker
      <4> QED
        BY <2>1, <3>1, <4>1 DEF ReadUnderWay
    <3> QED
      BY <3>2, <3>3
  <2>7. CASE ~wren /\ ~SettleExpires
    <3>1. a_settled /\ a_addr_prev = wraddress /\ a_pend_read_addr' = a_pend_read_addr
      BY <1>1, <1>6, <2>7 DEF ReadTracker
    <3>2. /\ ReadUnderWay => a_pend_read_addr = wraddress
          /\ q_a_valid_o \/ ReadUnderWay
      BY <2>1, <2>7, <3>1 DEF AnswersDue
    <3>3. CASE owner = "PORT_A" /\ s_readdatavalid
      <4>1. a_hold_addr' = wraddress
        BY <1>1, <2>4, <3>2, <3>3 DEF HoldA
      <4> QED
        BY <2>1, <2>2, <2>7, <3>1, <3>2, <4>1 DEF q_a_valid_o
    <3>4. CASE ~(owner = "PORT_A" /\ s_readdatavalid)
      <4>1. a_hold_addr' = a_hold_addr
        BY <1>1, <2>7, <3>4 DEF HoldA
      <4> QED
        BY <2>1, <2>2, <2>3, <2>7, <3>1, <3>2, <3>4, <4>1 DEF q_a_valid_o
    <3> QED
      BY <3>3, <3>4
  <2> QED
    BY <1>1, <2>5, <2>6, <2>7
<1> QED
  BY <1>3, <1>4, <1>5, <1>6 DEF AnswersDue

(* Every read has its answer coming, an address at rest its read.            *)
THEOREM AnswersAreDue ==
  Spec => []AnswersDue
<1>1. Init => AnswersDue
  BY DEF Init, AnswersDue, ReadUnderWay
<1>2. ASSUME IInv, AnswersDue, [Next]_vars
      PROVE  AnswersDue'
  <2>1. CASE Next
    BY <1>2, <2>1, StepAnswersDue DEF Next
  <2>2. CASE UNCHANGED vars
    BY <1>2, <2>2
       DEF AnswersDue, ReadUnderWay, q_a_valid_o, Forgotten, vars, inVars, aVars, latch, bVars,
           arbVars, memVars
  <2> QED
    BY <1>2, <2>1, <2>2
<1> QED
  BY <1>1, <1>2, Inductive, PTL DEF Spec

(* A rank of x clocks, n at most, that falls to y.                           *)
Falls(x, y, n) == x \in 1 .. n /\ y \in 0 .. x - 1

LEMMA Falling ==
  ASSUME NEW x \in Nat, NEW y \in Nat, NEW n \in Nat, y < x, x <= n
  PROVE  Falls(x, y, n)
BY DEF Falls

(* While port A is not valid at the address it rests at, each clock is one    *)
(* less to wait.                                                            *)
LEMMA PortACounts ==
  ASSUME IInv, AnswersDue, NEW wait \in BOOLEAN, Clock(wait), AnswersDue',
         ~stranded, ~stranded', ~Forgotten', ~q_a_valid_o, ~q_a_valid_o',
         wraddress' = wraddress
  PROVE  Falls(ToPortA, ToPortA', Settle + 3 * Turn + 1)
<1> USE DEF Owners
<1>1. /\ WriteLatch(wait) /\ ReadTracker(wait) /\ HoldA /\ Arbiter(wait)
      /\ owner \in Owners /\ req_is_write \in BOOLEAN
      /\ s_write \in BOOLEAN /\ s_read \in BOOLEAN
      /\ wren \in BOOLEAN /\ a_pend_read \in BOOLEAN /\ a_settled \in BOOLEAN
      /\ a_pend_write \in BOOLEAN /\ s_readdatavalid \in BOOLEAN
      /\ a_settle_cnt \in 0 .. Settle - 1
  BY DEF Clock, PortA, IInv, TypeOK
<1>2. PICK t \in Nat, l \in Nat, l1 \in Nat :
        /\ t = Turn /\ t > 1 /\ l = RequestLeft /\ l1 = RequestLeft'
        /\ l < t /\ l1 < t
        /\ owner # "NONE" => l1 < l
        /\ owner = "NONE" => l = 0
  <2>1. Turn \in Nat /\ Turn > 1
    BY ConstantsAssumption DEF Turn
  <2> QED
    BY <2>1, RequestCounts
<1>3. Settle \in Nat /\ Settle > 0
  BY ConstantsAssumption
<1>4. t > 1 /\ l < t /\ l1 < t /\ (owner # "NONE" => l1 < l)
  BY <1>2
<1> DEFINE N == Settle + 3 * t + 1
<1>5. N \in Nat
  BY <1>3
<1> SUFFICES Falls(ToPortA, ToPortA', N)
  BY <1>2
<1>6. RequestShape
  BY DEF IInv
<1>7. Free \/ InWork \/ WriteTaken \/ ReadTaken(wait) \/ ReadDone \/ Over
  BY RequestSteps
<1>8. ~(Answered /\ a_pend_read_addr = wraddress)
  BY <1>1 DEF HoldA, q_a_valid_o, Answered
<1>9. ~wren
  <2>1. ASSUME wren PROVE FALSE
    <3>1. ReadUnderWay => a_pend_read_addr = wraddress
      BY <1>1, <2>1 DEF Clock, History
    <3>2. Answered => ReadUnderWay
      BY <1>6 DEF RequestShape, ReadUnderWay, Answered
    <3>3. ~Answered
      BY <1>8, <3>1, <3>2
    <3> QED
      BY <1>1, <2>1, <3>3 DEF HoldA, q_a_valid_o, Answered
  <2> QED
    BY <1>1, <2>1
<1>10. CASE owner = "PORT_A" /\ ~req_is_write /\ a_pend_read_addr = wraddress
  <2>1. ~s_readdatavalid
    BY <1>8, <1>10 DEF Answered
  <2>2. owner' = "PORT_A" /\ ~req_is_write' /\ a_pend_read_addr' = wraddress'
    BY <1>1, <1>10, <2>1 DEF ReadTracker, Arbiter, Dispatch, Release
  <2>3. ToPortA = l /\ ToPortA' = l1
    BY <1>2, <1>10, <2>2 DEF ToPortA
  <2>4. Falls(l, l1, N)
    BY <1>2, <1>3, <1>5, <1>10, Falling
  <2> QED
    BY <2>3, <2>4
<1>11. CASE ~(owner = "PORT_A" /\ ~req_is_write) /\ a_pend_read /\ a_pend_read_addr = wraddress
  <2> DEFINE W == IF a_pend_write /\ ~s_write THEN t ELSE 0
  <2>1. ToPortA = l + t + W
    BY <1>2, <1>11 DEF ToPortA
  <2>2. a_pend_read' /\ a_pend_read_addr' = wraddress'
    BY <1>1, <1>6, <1>11 DEF ReadTracker, RequestShape
  <2>3. CASE owner = "NONE" /\ a_pend_write
    <3>1. owner' = "PORT_A" /\ req_is_write' /\ s_write' /\ ~s_write
      BY <1>1, <1>6, <2>3 DEF Arbiter, Dispatch, Release, Request, RequestShape
    <3>2. ToPortA' = l1 + t /\ ToPortA = 0 + t + t
      BY <1>2, <2>1, <2>2, <2>3, <3>1 DEF ToPortA
    <3>3. Falls(0 + t + t, l1 + t, N)
      <4>1. 0 + t + t \in Nat /\ l1 + t \in Nat /\ l1 + t < 0 + t + t /\ 0 + t + t <= N
        BY <1>3, <1>4
      <4> QED
        BY <1>5, <4>1, Falling
    <3> QED
      BY <3>2, <3>3
  <2>4. CASE owner = "NONE" /\ ~a_pend_write
    <3>1. owner' = "PORT_A" /\ ~req_is_write'
      BY <1>1, <1>11, <2>4 DEF Arbiter, Dispatch, Release, Request
    <3>2. ToPortA' = l1 /\ ToPortA = 0 + t + 0
      BY <1>2, <2>1, <2>2, <2>4, <3>1 DEF ToPortA
    <3>3. Falls(0 + t + 0, l1, N)
      <4>1. 0 + t + 0 \in Nat /\ l1 < 0 + t + 0 /\ 0 + t + 0 <= N
        BY <1>3, <1>4
      <4> QED
        BY <1>2, <1>5, <4>1, Falling
    <3> QED
      BY <3>2, <3>3
  <2>5. CASE owner # "NONE"
    <3>1. /\ ~(owner' = "PORT_A" /\ ~req_is_write')
          /\ s_write' = (s_write /\ wait)
      BY <1>1, <1>11, <2>5 DEF Arbiter, Dispatch, Release
    <3>2. a_pend_write' /\ ~s_write' => a_pend_write /\ ~s_write
      BY <1>1, <1>6, <1>9, <3>1 DEF WriteLatch, RequestShape
    <3> DEFINE W1 == IF a_pend_write' /\ ~s_write' THEN t ELSE 0
    <3>3. ToPortA' = l1 + t + W1
      BY <1>2, <2>2, <3>1 DEF ToPortA
    <3>4. W \in Nat /\ W1 \in Nat /\ W1 <= W /\ W <= t
      BY <1>2, <3>2
    <3> HIDE DEF W, W1
    <3>5. Falls(l + t + W, l1 + t + W1, N)
      <4>1. /\ l + t + W \in Nat /\ l1 + t + W1 \in Nat
            /\ l1 + t + W1 < l + t + W /\ l + t + W <= N
        BY <1>3, <1>4, <2>5, <3>4
      <4> HIDE DEF N
      <4> QED
        BY <1>5, <4>1, Falling
    <3> QED
      BY <2>1, <3>3, <3>5
  <2> QED
    BY <2>3, <2>4, <2>5
<1>12. CASE ~(ReadUnderWay /\ a_pend_read_addr = wraddress)
  <2>1. ~(a_settled /\ a_addr_prev = wraddress)
    BY <1>9, <1>12 DEF AnswersDue
  <2>2. ~SettleExpires => ~(ReadUnderWay' /\ a_pend_read_addr' = wraddress')
    <3>1. ~SettleExpires => a_pend_read_addr' = a_pend_read_addr /\ (a_pend_read' => a_pend_read)
      BY <1>1 DEF ReadTracker
    <3>2. owner' = "PORT_A" /\ ~req_is_write' => ReadUnderWay
      BY <1>1 DEF Arbiter, Dispatch, Release, Request, arbVars, ReadUnderWay
    <3> QED
      BY <1>12, <3>1, <3>2 DEF ReadUnderWay
  <2>3. CASE a_addr_prev # wraddress
    <3>1. a_settle_cnt' = 0 /\ a_addr_prev' = wraddress' /\ ~SettleExpires
      BY <1>1, <2>3 DEF ReadTracker, SettleExpires
    <3>2. ToPortA = 3 * t + (Settle + 1) /\ ToPortA' = 3 * t + (Settle - 0)
      BY <1>2, <1>12, <2>2, <2>3, <3>1 DEF ToPortA, ReadUnderWay
    <3>3. Falls(3 * t + (Settle + 1), 3 * t + (Settle - 0), N)
      <4>1. /\ 3 * t + (Settle + 1) \in Nat /\ 3 * t + (Settle - 0) \in Nat
            /\ 3 * t + (Settle - 0) < 3 * t + (Settle + 1)
            /\ 3 * t + (Settle + 1) <= N
        BY <1>3, <1>4
      <4> HIDE DEF N
      <4> QED
        BY <1>5, <4>1, Falling
    <3> QED
      BY <3>2, <3>3
  <2>4. CASE a_addr_prev = wraddress /\ SettleExpires
    <3>1. a_pend_read_addr' = wraddress'
      BY <1>1, <2>4 DEF ReadTracker
    <3>2. a_pend_read' \/ (owner' = "PORT_A" /\ ~req_is_write')
      <4>1. a_pend_read' \/ (owner = "PORT_A" /\ s_read)
        BY <1>1, <2>4 DEF ReadTracker
      <4> QED
        BY <1>1, <1>6, <4>1 DEF RequestShape, Arbiter, Dispatch, Release
    <3> DEFINE W1 == IF a_pend_write' /\ ~s_write' THEN t ELSE 0
               V1 == IF owner' = "PORT_A" /\ ~req_is_write' THEN 0 ELSE t + W1
    <3>3. ToPortA = 3 * t + (Settle - a_settle_cnt) /\ ToPortA' = l1 + V1
      <4>1. CASE owner' = "PORT_A" /\ ~req_is_write'
        <5>1. V1 = 0 /\ l1 + 0 = l1
          BY <4>1
        <5>2. ToPortA = 3 * t + (Settle - a_settle_cnt)
          BY <1>2, <1>12, <2>4 DEF ToPortA, ReadUnderWay
        <5>3. ToPortA' = l1
          BY <1>2, <3>1, <4>1 DEF ToPortA
        <5> HIDE DEF V1
        <5> QED
          BY <5>1, <5>2, <5>3
      <4>2. CASE ~(owner' = "PORT_A" /\ ~req_is_write')
        BY <1>2, <1>12, <2>4, <3>1, <3>2, <4>2 DEF ToPortA, ReadUnderWay
      <4> QED
        BY <4>1, <4>2
    <3>4. V1 \in Nat /\ V1 <= 2 * t
      BY <1>2
    <3> HIDE DEF V1
    <3>5. Falls(3 * t + (Settle - a_settle_cnt), l1 + V1, N)
      <4>1. /\ 3 * t + (Settle - a_settle_cnt) \in Nat /\ l1 + V1 \in Nat
            /\ l1 + V1 < 3 * t + (Settle - a_settle_cnt)
            /\ 3 * t + (Settle - a_settle_cnt) <= N
        BY <1>1, <1>3, <1>4, <3>4
      <4> HIDE DEF N
      <4> QED
        BY <1>5, <4>1, Falling
    <3> QED
      BY <3>3, <3>5
  <2>5. CASE a_addr_prev = wraddress /\ ~SettleExpires
    <3>1. /\ a_settle_cnt # Settle - 1 /\ a_settle_cnt' = a_settle_cnt + 1
          /\ a_addr_prev' = wraddress'
      BY <1>1, <1>9, <2>1, <2>5 DEF ReadTracker, SettleExpires
    <3>2. /\ ToPortA = 3 * t + (Settle - a_settle_cnt)
          /\ ToPortA' = 3 * t + (Settle - (a_settle_cnt + 1))
      BY <1>2, <1>12, <2>2, <2>5, <3>1 DEF ToPortA, ReadUnderWay
    <3>3. Falls(3 * t + (Settle - a_settle_cnt), 3 * t + (Settle - (a_settle_cnt + 1)), N)
      <4>1. /\ 3 * t + (Settle - a_settle_cnt) \in Nat
            /\ 3 * t + (Settle - (a_settle_cnt + 1)) \in Nat
            /\ 3 * t + (Settle - (a_settle_cnt + 1)) < 3 * t + (Settle - a_settle_cnt)
            /\ 3 * t + (Settle - a_settle_cnt) <= N
        BY <1>1, <1>3, <1>4, <3>1
      <4> HIDE DEF N
      <4> QED
        BY <1>5, <4>1, Falling
    <3> QED
      BY <3>2, <3>3
  <2> QED
    BY <2>3, <2>4, <2>5
<1> QED
  BY <1>10, <1>11, <1>12 DEF ReadUnderWay

(* While its address rests port A is valid after the time it takes to settle, *)
(* a request under way, a write and its own read at most, whatever read of    *)
(* an earlier address its masters left behind.                              *)
THEOREM PortAWaitsNoLonger ==
  Spec => PortAInTime
<1>1. ASSUME IInv, AnswersDue, AnswersDue', [Next]_vars
      PROVE  [LET waits == ~stranded /\ ~Forgotten /\ ~q_a_valid_o
              IN waits /\ waits' /\ UNCHANGED wraddress =>
                   ToPortA \in 1 .. Settle + 3 * Turn + 1 /\ ToPortA' \in 0 .. ToPortA - 1]_vars
  BY <1>1, PortACounts DEF Next, Falls
<1> QED
  BY <1>1, Inductive, AnswersAreDue, PTL DEF PortAInTime, Spec

-----------------------------------------------------------------------------
(* How long port B waits for what memory holds.                            *)

(* Port B's rank falls when the request under way or the fetch comes nearer, *)
(* or when one of port A's reads is done with.                              *)
LEMMA FallingWithReads ==
  ASSUME NEW l \in Nat, NEW l1 \in Nat, NEW t \in Nat, NEW m \in Nat,
         NEW d \in Nat, NEW d1 \in Nat, NEW r \in 0 .. 2, NEW r1 \in 0 .. 2,
         l < t, l1 < t, d <= t + m + 1, r1 <= r,
         l1 + d1 < l + d \/ (r1 < r /\ d1 <= d)
  PROVE  Falls(l + (r + 1) * t + d, l1 + (r1 + 1) * t + d1, m + 5 * t)
<1>1. CASE r = 0
  BY <1>1 DEF Falls
<1>2. CASE r = 1 /\ r1 = 0
  BY <1>2 DEF Falls
<1>3. CASE r = 1 /\ r1 = 1
  BY <1>3 DEF Falls
<1>4. CASE r = 2 /\ r1 = 0
  BY <1>4 DEF Falls
<1>5. CASE r = 2 /\ r1 = 1
  BY <1>5 DEF Falls
<1>6. CASE r = 2 /\ r1 = 2
  BY <1>6 DEF Falls
<1> QED
  BY <1>1, <1>2, <1>3, <1>4, <1>5, <1>6

(* With no write under way the answer to port B's read, once due, is neither  *)
(* lost nor outdated.                                                       *)
LEMMA ComingComes ==
  ASSUME IInv, NEW wait \in BOOLEAN, Clock(wait), ~Forgotten', ~s_write,
         rdaddress' = rdaddress, BIsComing, Stale'
  PROVE  BIsComing' /\ ToPortB = RequestLeft /\ ToPortB' = RequestLeft'
<1>1. /\ Memory(wait) /\ Arbiter(wait)
      /\ forgetsLeft \in 0 .. MaxForgets /\ MaxForgets \in Nat
      /\ rdaddress \in Addr /\ NoAddr \notin Addr
      /\ s_write \in BOOLEAN /\ s_read \in BOOLEAN /\ s_readdatavalid \in BOOLEAN
      /\ owner = "PORT_B" /\ RequestShape
  BY ConstantsAssumption DEF Clock, IInv, TypeOK, BIsComing
<1>2. Traffic(wait)
  BY <1>1 DEF Memory, Forget, Forgotten
<1>3. mem' = mem
  BY <1>1, <1>2 DEF Traffic
<1>4. Release(wait)
  BY <1>1 DEF Arbiter, Dispatch
<1>5. ~(s_readdatavalid /\ s_readdata = mem[rdaddress])
  BY <1>1, <1>3, <1>4 DEF Release, Stale
<1>6. CASE s_read /\ s_address = rdaddress
  BY <1>1, <1>2, <1>3, <1>4, <1>6
     DEF RequestShape, Traffic, Respond, Release, BIsComing, ToPortB
<1>7. CASE taken = rdaddress
  BY <1>1, <1>2, <1>3, <1>4, <1>7
     DEF RequestShape, Traffic, Respond, Release, BIsComing, ToPortB
<1> QED
  BY <1>5, <1>6, <1>7 DEF BIsComing

(* Once its address rests, no more reads of port A come before port B's, and  *)
(* the dispatch of one leaves one less.                                     *)
LEMMA ReadsOfAPass ==
  ASSUME IInv, NEW wait \in BOOLEAN, Clock(wait),
         ~wren, ~a_pend_write, wraddress' = wraddress
  PROVE  /\ ReadsOfA \in 0 .. 2 /\ ReadsOfA' \in 0 .. 2
         /\ ReadsOfA' <= ReadsOfA
         /\ owner = "NONE" /\ a_pend_read => ReadsOfA' < ReadsOfA
<1> DEFINE P == IF a_pend_read /\ ~(owner = "PORT_A" /\ s_read) THEN 1 ELSE 0
           Q == IF a_settled /\ a_addr_prev = wraddress THEN 0 ELSE 1
           P1 == IF a_pend_read' /\ ~(owner' = "PORT_A" /\ s_read') THEN 1 ELSE 0
           Q1 == IF a_settled' /\ a_addr_prev' = wraddress' THEN 0 ELSE 1
<1>1. /\ ReadTracker(wait) /\ Arbiter(wait)
      /\ a_settled \in BOOLEAN /\ a_pend_read \in BOOLEAN
      /\ s_read \in BOOLEAN /\ RequestShape
  BY DEF Clock, PortA, IInv, TypeOK
<1>2. ReadsOfA = P + Q /\ ReadsOfA' = P1 + Q1
  BY DEF ReadsOfA
<1>3. CASE SettleExpires
  <2>1. Q = 1 /\ Q1 = 0
    BY <1>1, <1>3 DEF ReadTracker, SettleExpires
  <2>2. owner = "NONE" /\ a_pend_read => P = 1 /\ P1 = 0
    BY <1>1 DEF Arbiter, Dispatch, Release, Request
  <2> QED
    BY <1>2, <2>1, <2>2
<1>4. CASE ~SettleExpires
  <2>1. Q1 = Q
    BY <1>1, <1>4 DEF ReadTracker
  <2>2. a_pend_read' => a_pend_read
    BY <1>1, <1>4 DEF ReadTracker
  <2>3. owner = "PORT_A" /\ s_read => ~a_pend_read' \/ (owner' = "PORT_A" /\ s_read')
    BY <1>1 DEF ReadTracker, Arbiter, Dispatch, Release, RequestShape
  <2>4. P1 <= P
    BY <2>2, <2>3
  <2>5. owner = "NONE" /\ a_pend_read => P = 1 /\ P1 = 0
    BY <1>1 DEF Arbiter, Dispatch, Release, Request
  <2> QED
    BY <1>2, <2>1, <2>4, <2>5
<1> QED
  BY <1>3, <1>4

(* While its address rests the fetch of port B comes nearer, and a read of    *)
(* the address before at most costs it another period.                      *)
LEMMA FetchComes ==
  ASSUME IInv, AnswersDue, NEW wait \in BOOLEAN, Clock(wait), ~a_pend_write,
         rdaddress' = rdaddress, ~BIsComing, ~BIsComing'
  PROVE  /\ ToAsk \in 0 .. Turn + Refresh + 1 /\ ToAsk' \in 0 .. Refresh + 1
         /\ owner # "NONE" \/ a_pend_read => ToAsk' <= ToAsk
         /\ owner = "NONE" /\ ~a_pend_read =>
              ToAsk' < ToAsk /\ (owner' = "NONE" \/ ToAsk' + Turn <= ToAsk)
<1> USE ConstantsAssumption
<1>1. /\ PortB(wait) /\ Arbiter(wait)
      /\ b_pend_read \in BOOLEAN /\ s_read \in BOOLEAN /\ a_pend_read \in BOOLEAN
      /\ b_refresh_cnt \in 0 .. Refresh
      /\ Refresh \in Nat /\ Turn \in Nat /\ Turn > 1
      /\ b_addr_prev' = rdaddress'
  BY DEF Clock, PortB, IInv, TypeOK, Turn
<1>2. b_pend_read => b_pend_read_addr = b_addr_prev
  BY DEF AnswersDue
<1>3. b_refresh_cnt' \in 0 .. Refresh
  BY <1>1 DEF PortB
<1>4. PICK t \in Nat, c \in 0 .. Refresh, c1 \in 0 .. Refresh :
        t = Turn /\ t > 1 /\ c = b_refresh_cnt /\ c1 = b_refresh_cnt'
  BY <1>1, <1>3
<1>5. PICK a \in 0 .. t + Refresh + 1, a1 \in 0 .. Refresh + 1 : a = ToAsk /\ a1 = ToAsk'
  <2>1. ToAsk \in {t + Refresh + 1, 0, Refresh + 1, Refresh - c + 1}
    BY <1>4 DEF ToAsk
  <2>2. ToAsk' \in {0, Refresh + 1, Refresh - c1 + 1}
    BY <1>1, <1>4 DEF ToAsk
  <2>3. /\ {t + Refresh + 1, 0, Refresh + 1, Refresh - c + 1} \subseteq 0 .. t + Refresh + 1
        /\ {0, Refresh + 1, Refresh - c1 + 1} \subseteq 0 .. Refresh + 1
    BY <1>1
  <2> QED
    BY <2>1, <2>2, <2>3
<1> SUFFICES /\ owner # "NONE" \/ a_pend_read => a1 <= a
             /\ owner = "NONE" /\ ~a_pend_read => a1 < a /\ (owner' = "NONE" \/ a1 + t <= a)
  BY <1>4, <1>5
<1>6. owner # "NONE" => Release(wait)
  BY <1>1 DEF Arbiter, Dispatch
<1>7. CASE b_addr_prev # rdaddress
  <2>1. a = t + Refresh + 1
    BY <1>4, <1>5, <1>7 DEF ToAsk
  <2>2. a1 < a /\ a1 + t <= a
    BY <1>1, <1>4, <2>1
  <2> QED
    BY <2>2
<1>8. CASE b_addr_prev = rdaddress /\ BIsAsked
  <2>1. b_pend_read /\ ~(owner = "PORT_B" /\ s_read)
    BY <1>8 DEF BIsAsked
  <2>2. b_pend_read'
    BY <1>1, <2>1 DEF PortB
  <2>3. ~(owner' = "PORT_B" /\ s_read')
    <3>1. CASE owner = "NONE"
      <4>1. CASE a_pend_read
        BY <1>1, <3>1, <4>1 DEF Arbiter, Dispatch, Release, Request
      <4>2. CASE ~a_pend_read
        BY <1>1, <1>2, <1>8, <2>1, <3>1, <4>2
           DEF Arbiter, Dispatch, Release, Request, BIsComing
      <4> QED
        BY <1>1, <4>1, <4>2
    <3>2. CASE owner # "NONE"
      BY <1>6, <2>1, <3>2 DEF Release
    <3> QED
      BY <3>1, <3>2
  <2>4. a1 = 0
    BY <1>1, <1>5, <2>2, <2>3 DEF ToAsk, BIsAsked
  <2>5. owner = "NONE" => a_pend_read
    BY <1>1, <1>2, <1>8, <2>1, <2>3 DEF Arbiter, Dispatch, Release, Request
  <2> QED
    BY <2>4, <2>5
<1>9. CASE b_addr_prev = rdaddress /\ ~BIsAsked /\ owner = "PORT_B" /\ s_read
  <2>1. a = Refresh + 1
    BY <1>5, <1>9 DEF ToAsk
  <2>2. a1 <= a
    BY <1>1, <2>1
  <2> QED
    BY <1>9, <2>2
<1>10. CASE b_addr_prev = rdaddress /\ ~BIsAsked /\ ~(owner = "PORT_B" /\ s_read)
  <2>1. a = Refresh - c + 1
    BY <1>4, <1>5, <1>10 DEF ToAsk
  <2>2. ~b_pend_read
    BY <1>10 DEF BIsAsked
  <2>3. ~(owner' = "PORT_B" /\ s_read')
    BY <1>1, <1>10, <2>2 DEF Arbiter, Dispatch, Release, Request, arbVars
  <2>4. owner = "NONE" /\ ~a_pend_read => owner' = "NONE"
    BY <1>1, <2>2 DEF Arbiter, Dispatch, Release, arbVars
  <2>5. CASE b_refresh_cnt = Refresh
    <3>1. b_pend_read'
      BY <1>1, <1>10, <2>5 DEF PortB
    <3>2. a1 = 0
      BY <1>1, <1>5, <2>3, <3>1 DEF ToAsk, BIsAsked
    <3>3. a1 < a
      BY <1>1, <2>1, <3>2
    <3> QED
      BY <2>4, <3>3
  <2>6. CASE b_refresh_cnt # Refresh
    <3>1. b_refresh_cnt' = b_refresh_cnt + 1
      BY <1>1, <1>10, <2>6 DEF PortB
    <3>2. a1 \in {0, Refresh - c1 + 1} /\ c1 = c + 1
      BY <1>1, <1>4, <1>5, <2>3, <3>1 DEF ToAsk
    <3>3. a1 < a
      BY <1>1, <2>1, <3>2
    <3> QED
      BY <2>4, <3>3
  <2> QED
    BY <2>5, <2>6
<1> QED
  BY <1>7, <1>8, <1>9, <1>10

(* While port B's word is not the memory's, each clock is one less to wait.   *)
LEMMA PortBCounts ==
  ASSUME IInv, AnswersDue, NEW wait \in BOOLEAN, Clock(wait), ~Forgotten',
         ~wren, ~a_pend_write, ~s_write, wraddress' = wraddress,
         rdaddress' = rdaddress, Stale'
  PROVE  Falls(ToPortB, ToPortB', Refresh + 5 * Turn)
<1>1. PICK t \in Nat, l \in Nat, l1 \in Nat :
        /\ t = Turn /\ t > 1 /\ l = RequestLeft /\ l1 = RequestLeft'
        /\ l < t /\ l1 < t
        /\ owner # "NONE" => l1 < l
        /\ owner = "NONE" => l = 0
        /\ owner' = "NONE" => l1 = 0
  <2>1. Turn \in Nat /\ Turn > 1
    BY ConstantsAssumption DEF Turn
  <2> QED
    BY <2>1, RequestCounts
<1>2. t > 1 /\ l < t /\ l1 < t /\ (owner # "NONE" => l1 < l) /\ (owner = "NONE" => l = 0)
      /\ (owner' = "NONE" => l1 = 0)
  BY <1>1
<1>3. Refresh \in Nat
  BY ConstantsAssumption
<1>4. CASE BIsComing
  <2>1. ToPortB = l /\ ToPortB' = l1 /\ owner # "NONE"
    BY <1>1, <1>4, ComingComes DEF BIsComing
  <2>2. Falls(l, l1, Refresh + 5 * t)
    BY <1>2, <1>3, <2>1 DEF Falls
  <2> QED
    BY <1>1, <2>1, <2>2
<1>5. CASE ~BIsComing
  <2>1. PICK r \in 0 .. 2, r1 \in 0 .. 2 :
          /\ r = ReadsOfA /\ r1 = ReadsOfA' /\ r1 <= r
          /\ owner = "NONE" /\ a_pend_read => r1 < r
    BY ReadsOfAPass
  <2>2. r1 <= r /\ (owner = "NONE" /\ a_pend_read => r1 < r)
    BY <2>1
  <2>3. CASE BIsComing'
    <3>1. ToPortB = l + (r + 1) * t + ToAsk /\ ToPortB' = l1
      BY <1>1, <1>5, <2>1, <2>3 DEF ToPortB
    <3>2. PICK d \in Nat : d = ToAsk /\ d <= t + Refresh + 1
      <4>1. PICK c \in 0 .. Refresh : c = b_refresh_cnt
        BY DEF IInv, TypeOK
      <4>2. ToAsk \in {t + Refresh + 1, 0, Refresh + 1, Refresh - c + 1}
        BY <1>1, <4>1 DEF ToAsk
      <4>3. \A a \in {t + Refresh + 1, 0, Refresh + 1, Refresh - c + 1} :
              a \in Nat /\ a <= t + Refresh + 1
        BY <1>3
      <4> QED
        BY <4>2, <4>3
    <3>3. d <= t + Refresh + 1
      BY <3>2
    <3>4. Falls(l + (r + 1) * t + d, l1, Refresh + 5 * t)
      <4>1. CASE r = 0
        BY <1>2, <1>3, <3>3, <4>1 DEF Falls
      <4>2. CASE r = 1
        BY <1>2, <1>3, <3>3, <4>2 DEF Falls
      <4>3. CASE r = 2
        BY <1>2, <1>3, <3>3, <4>3 DEF Falls
      <4> QED
        BY <4>1, <4>2, <4>3
    <3> QED
      BY <1>1, <3>1, <3>2, <3>4
  <2>4. CASE ~BIsComing'
    <3>1. PICK d \in Nat, d1 \in Nat :
            /\ d = ToAsk /\ d1 = ToAsk'
            /\ d <= t + Refresh + 1
            /\ owner # "NONE" \/ a_pend_read => d1 <= d
            /\ owner = "NONE" /\ ~a_pend_read => d1 < d /\ (owner' = "NONE" \/ d1 + t <= d)
      BY <1>1, <1>3, <1>5, <2>4, FetchComes
    <3>2. d <= t + Refresh + 1
      BY <3>1
    <3>3. l1 + d1 < l + d \/ (r1 < r /\ d1 <= d)
      <4>1. CASE owner # "NONE"
        <5>1. d1 <= d /\ l1 < l
          BY <1>2, <3>1, <4>1
        <5> QED
          BY <5>1
      <4>2. CASE owner = "NONE" /\ a_pend_read
        BY <2>2, <3>1, <4>2
      <4>3. CASE owner = "NONE" /\ ~a_pend_read
        <5>1. l = 0 /\ l1 < t /\ d1 < d /\ (l1 = 0 \/ d1 + t <= d)
          BY <1>2, <3>1, <4>3
        <5> QED
          BY <5>1
      <4> QED
        BY <4>1, <4>2, <4>3
    <3>4. Falls(l + (r + 1) * t + d, l1 + (r1 + 1) * t + d1, Refresh + 5 * t)
      BY <1>2, <1>3, <2>2, <3>2, <3>3, FallingWithReads
    <3>5. ToPortB = l + (r + 1) * t + d /\ ToPortB' = l1 + (r1 + 1) * t + d1
      BY <1>1, <1>5, <2>1, <2>4, <3>1 DEF ToPortB
    <3> QED
      BY <1>1, <3>4, <3>5
  <2> QED
    BY <2>3, <2>4
<1> QED
  BY <1>4, <1>5

(* Once nothing is written and both addresses rest, port B holds what memory  *)
(* has within a refresh period and five turns, lost fetches included.        *)
THEOREM PortBWaitsNoLonger ==
  Spec => PortBInTime
<1>1. ASSUME IInv, AnswersDue, [Next]_vars
      PROVE  [LET rests == ~wren /\ ~a_pend_write /\ ~s_write /\ UNCHANGED <<wraddress, rdaddress>>
              IN rests /\ Stale /\ Stale' /\ ~Forgotten' =>
                   ToPortB \in 1 .. Refresh + 5 * Turn /\ ToPortB' \in 0 .. ToPortB - 1]_vars
  BY <1>1, PortBCounts DEF Next, Falls
<1> QED
  BY <1>1, Inductive, AnswersAreDue, PTL DEF PortBInTime, Spec
=============================================================================
