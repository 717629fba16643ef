--------------------------- MODULE AvmArbit_proofs ---------------------------
(***************************************************************************)
(* The arbiter's safety for bursts of any length and both settings of       *)
(* G_PREFER_SWAP.  At any edge one of four things happens to the one open   *)
(* transaction (Outcomes); the hand-over follows its end exactly (HandOver); *)
(* from these each conjunct of IInv is carried over the edge.               *)
(***************************************************************************)
EXTENDS AvmArbit, TLAPS

(* There are two masters.                                                   *)
LEMMA TwoMasters ==
  /\ \A m \in Master : Other(m) \in Master /\ Other(m) # m /\ Other(Other(m)) = m
  /\ \A m, x \in Master : x = m \/ x = Other(m)
  BY DEF Master, Other

(* What a transaction may be doing at one edge, g being last_grant: nothing; *)
(* a read of g is accepted; a beat of g's write burst is accepted; g gets a  *)
(* word of its read.                                                        *)
Nothing(wait, word) ==
  /\ word = Nobody /\ \A m \in Master : ~Taken(m, wait)
  /\ owed' = owed /\ due' = due /\ unwritten' = unwritten /\ burstcount' = burstcount

ReadBegins(wait, word, g) ==
  /\ word = Nobody /\ Taken(g, wait) /\ req[g].cmd = "rd" /\ ~Taken(Other(g), wait)
  /\ grant[g] /\ ~grant[Other(g)]
  /\ burstcount = 0 /\ \A m \in Master : ~Open(m)
  /\ owed' = [owed EXCEPT ![g] = req[g].len] /\ due' = owed'
  /\ unwritten' = unwritten
  /\ burstcount' = req[g].len

BeatWritten(wait, word, g) ==
  /\ word = Nobody /\ Taken(g, wait) /\ req[g].cmd = "wr" /\ ~Taken(Other(g), wait)
  /\ grant[g] /\ ~grant[Other(g)]
  /\ owed[g] = 0 /\ ~Open(Other(g)) /\ burstcount = unwritten[g]
  /\ owed' = owed /\ due' = due
  /\ unwritten' = [unwritten EXCEPT ![g] = req[g].left - 1]
  /\ burstcount' = req[g].left - 1

WordArrives(wait, word, g) ==
  /\ word = g /\ \A m \in Master : ~Taken(m, wait)
  /\ grant[g] /\ ~grant[Other(g)]
  /\ owed[g] > 0 /\ unwritten[g] = 0 /\ ~Open(Other(g)) /\ burstcount = owed[g]
  /\ owed' = [owed EXCEPT ![g] = @ - 1] /\ due' = owed'
  /\ unwritten' = unwritten
  /\ burstcount' = owed[g] - 1

(* An accepted request comes from the granted master, and only while no     *)
(* word is outstanding.                                                     *)
LEMMA TakenFacts ==
  ASSUME IInv, NEW wait \in BOOLEAN, NEW word \in Master \union {Nobody},
         Slave(wait, word), NEW m \in Master, Taken(m, wait)
  PROVE  /\ m = last_grant /\ grant[m] /\ ~grant[Other(m)] /\ ~wait
         /\ ~Taken(Other(m), wait)
         /\ m_avm_cmd = req[m].cmd
         /\ ~Open(Other(m))
         /\ owed[m] = 0 /\ word = Nobody
<1>1. grant[m] /\ ~wait /\ active_req(m)
  BY DEF Taken, Waits
<1>2. m = last_grant /\ ~grant[Other(m)]
  BY <1>1 DEF IInv, Exclusive
<1>3. ~Taken(Other(m), wait) /\ m_avm_cmd = req[m].cmd
  BY <1>1, <1>2 DEF Taken, Waits, m_avm_cmd
<1>4. ~Open(Other(m))
  BY <1>2, TwoMasters DEF IInv, Holding
<1>5. owed[m] \in Nat /\ owed[Other(m)] \in Nat /\ unwritten[Other(m)] \in Nat
  BY TwoMasters DEF IInv, TypeOK
<1>6. owed[m] = 0
  <2>1. CASE m \in Withdrawing
    <3>1. Serial
      BY <2>1, ConstantsAssumption
    <3> QED
      BY <3>1, <1>1, <1>5 DEF Slave
  <2>2. CASE m \notin Withdrawing
    BY <2>2, <1>1, <1>5 DEF IInv, Presented, active_req, NoRequest
  <2> QED
    BY <2>1, <2>2
<1>7. owed[Other(m)] = 0
  BY <1>4, <1>5 DEF Open
<1>8. word = Nobody
  BY <1>6, <1>7, TwoMasters DEF Slave
<1> QED
  BY <1>1, <1>2, <1>3, <1>4, <1>6, <1>8

(* A word is for the granted master.                                        *)
LEMMA WordFacts ==
  ASSUME IInv, NEW wait \in BOOLEAN, NEW word \in Master,
         Slave(wait, word)
  PROVE  /\ word = last_grant /\ grant[word] /\ ~grant[Other(word)]
         /\ owed[word] > 0 /\ unwritten[word] = 0 /\ ~Open(Other(word))
         /\ burstcount = owed[word]
<1>1. word # Nobody
  BY ConstantsAssumption
<1>2. owed[word] > 0 /\ owed[word] \in Nat
  BY <1>1 DEF Slave, IInv, TypeOK
<1>3. Open(word)
  BY <1>2 DEF Open
<1>4. grant[word] /\ burstcount = owed[word] + unwritten[word] /\ unwritten[word] = 0
  BY <1>2, <1>3 DEF IInv, Holding
<1>5. word = last_grant /\ ~grant[Other(word)]
  BY <1>4 DEF IInv, Exclusive
<1>6. ~Open(Other(word))
  BY <1>5, TwoMasters DEF IInv, Holding
<1> QED
  BY <1>2, <1>4, <1>5, <1>6

(* Nothing but one of the four happens at an edge.                          *)
LEMMA Outcomes ==
  ASSUME IInv, NEW wait \in BOOLEAN, NEW word \in Master \union {Nobody},
         Clock(wait, word)
  PROVE  \/ Nothing(wait, word)
         \/ ReadBegins(wait, word, last_grant)
         \/ BeatWritten(wait, word, last_grant)
         \/ WordArrives(wait, word, last_grant)
<1> DEFINE g == last_grant
<1>a. Slave(wait, word) /\ Burstcount(wait, word) /\ Masters(wait, word)
  BY DEF Clock
<1>b. g \in Master /\ due = owed /\ owed \in [Master -> Nat] /\ unwritten \in [Master -> Nat]
      /\ burstcount \in 0 .. BurstMax
  BY DEF IInv, TypeOK, RoutedHome
<1>c. Nobody \notin Master
  BY ConstantsAssumption
<1>1. CASE \E m \in Master : Taken(m, wait)
  <2>1. PICK m \in Master : Taken(m, wait)
    BY <1>1
  <2>2. /\ m = g /\ grant[g] /\ ~grant[Other(g)] /\ ~wait
        /\ ~Taken(Other(g), wait) /\ m_avm_cmd = req[g].cmd
        /\ ~Open(Other(g)) /\ owed[g] = 0 /\ word = Nobody
    BY <2>1, <1>a, TakenFacts
  <2>3. Taken(g, wait) /\ active_req(g)
    BY <2>1, <2>2 DEF Taken
  <2>4. \A x \in Master : ~Valid(x, word)
    BY <2>2 DEF Valid
  <2>5. \A x \in Master : Taken(x, wait) => x = g
    BY <2>2, TwoMasters
  <2>6. req[g] \in [cmd : {"none", "rd", "wr"}, len : Length, left : 0 .. MaxLen]
    BY <1>b DEF IInv, TypeOK
  <2>7. req[g].len \in 1 .. BurstMax /\ req[g].left \in Nat
    BY <2>6, ConstantsAssumption DEF Length, BurstMax
  <2>8. CASE req[g].cmd = "rd"
    <3>1. req[g].left = 0
      BY <2>8, <1>b DEF IInv, Presented
    <3>2. unwritten[g] = 0
      BY <3>1, <1>b DEF IInv, Presented
    <3>3. \A x \in Master : ~Open(x)
      BY <3>2, <2>2, TwoMasters DEF Open
    <3>4. burstcount = 0
      BY <3>3 DEF IInv, Holding
    <3>5. Opens(g, wait) /\ ~Opens(Other(g), wait) /\ Remaining(g) = req[g].len
      BY <2>8, <2>3, <2>2 DEF Opens, Remaining
    <3>6. burstcount' = req[g].len
      BY <3>5, <1>a, <1>b DEF Burstcount, Master, Other
    <3>7. owed' = [owed EXCEPT ![g] = req[g].len]
      <4>1. owed' = [x \in Master |-> owed[x] + (IF x = g THEN req[g].len ELSE 0) - 0]
        BY <1>a, <2>2, <2>8, <1>c DEF Slave
      <4>2. \A x \in Master : owed[x] + (IF x = g THEN req[g].len ELSE 0) - 0
                              = IF x = g THEN req[g].len ELSE owed[x]
        BY <1>b, <2>2, <2>7
      <4>3. owed' = [x \in Master |-> IF x = g THEN req[g].len ELSE owed[x]]
        BY <4>1, <4>2
      <4> QED
        BY <4>3, <1>b
    <3>8. due' = owed'
      <4>1. due' = [x \in Master |-> due[x] + (IF x = g THEN req[x].len ELSE 0) - 0]
        BY <1>a, <2>8, <2>3, <2>4, <2>5 DEF Masters
      <4>2. \A x \in Master : due[x] + (IF x = g THEN req[x].len ELSE 0) - 0
                              = IF x = g THEN req[g].len ELSE owed[x]
        BY <1>b, <2>2, <2>7
      <4>3. due' = [x \in Master |-> IF x = g THEN req[g].len ELSE owed[x]]
        BY <4>1, <4>2
      <4> QED
        BY <4>3, <3>7, <1>b
    <3>9. unwritten' = unwritten
      BY <1>a, <2>2, <2>8, <1>b DEF Slave
    <3> QED
      BY <2>2, <2>3, <2>8, <3>3, <3>4, <3>6, <3>7, <3>8, <3>9 DEF ReadBegins
  <2>9. CASE req[g].cmd = "wr"
    <3>1. req[g].left \in 1 .. req[g].len /\ unwritten[g] = IF req[g].left = req[g].len THEN 0 ELSE req[g].left
      BY <2>9, <1>b DEF IInv, Presented
    <3>2. burstcount = unwritten[g]
      <4>1. CASE Open(g)
        BY <4>1, <1>b, <2>2 DEF IInv, Holding
      <4>2. CASE ~Open(g)
        <5>1. \A x \in Master : ~Open(x)
          BY <4>2, <2>2, TwoMasters
        <5> QED
          BY <5>1, <4>2, <1>b DEF IInv, Holding, Open
      <4> QED
        BY <4>1, <4>2
    <3>3. unwritten' = [unwritten EXCEPT ![g] = req[g].left - 1]
      <4>1. unwritten' = [x \in Master |-> IF x = g THEN IF unwritten[g] = 0 THEN req[g].len - 1 ELSE unwritten[g] - 1 ELSE unwritten[x]]
        BY <1>a, <2>2, <2>9 DEF Slave
      <4>2. (IF unwritten[g] = 0 THEN req[g].len - 1 ELSE unwritten[g] - 1) = req[g].left - 1
        BY <3>1, <2>7
      <4> QED
        BY <4>1, <4>2, <1>b
    <3>4. owed' = owed
      BY <1>a, <2>2, <2>9, <1>b, <1>c DEF Slave
    <3>5. due' = due
      <4>1. due' = [x \in Master |-> due[x] + 0 - 0]
        BY <1>a, <2>9, <2>4, <2>5 DEF Masters
      <4> QED
        BY <4>1, <1>b
    <3>6. burstcount' = req[g].left - 1
      <4>1. CASE burstcount = 0
        <5>1. Opens(g, wait) /\ ~Opens(Other(g), wait) /\ Remaining(g) = req[g].len - 1
          BY <2>9, <4>1, <2>3, <2>2 DEF Opens, Remaining
        <5>2. burstcount' = req[g].len - 1
          BY <5>1, <1>a, <1>b DEF Burstcount, Master, Other
        <5> QED
          BY <5>2, <4>1, <3>1, <3>2, <2>7
      <4>2. CASE burstcount # 0
        <5>1. \A x \in Master : ~Opens(x, wait)
          BY <2>9, <4>2, <2>5 DEF Opens
        <5>2. burstcount' = (burstcount + BurstMax) % (BurstMax + 1)
          BY <5>1, <1>a, <1>b, <2>9, <2>3 DEF Burstcount, Master
        <5>3. burstcount \in 1 .. 255 /\ burstcount' = (burstcount + 255) % 256
          BY <5>2, <4>2, <1>b DEF BurstMax
        <5>4. burstcount' = burstcount - 1
          BY <5>3
        <5> QED
          BY <5>4, <3>1, <3>2, <4>2
      <4> QED
        BY <4>1, <4>2
    <3> QED
      BY <2>2, <2>3, <2>9, <3>2, <3>3, <3>4, <3>5, <3>6 DEF BeatWritten
  <2> QED
    BY <2>6, <2>3, <2>8, <2>9 DEF active_req
<1>2. CASE \A m \in Master : ~Taken(m, wait)
  <2>1. \A m \in Master : ~Opens(m, wait)
    BY <1>2 DEF Opens
  <2>2. m_avm_cmd = "none" \/ wait
    BY <1>2, <1>b DEF m_avm_cmd, Taken, active_req, Waits
  <2>3. unwritten' = unwritten
    BY <1>a, <2>2, <1>b DEF Slave
  <2>4. owed' = [x \in Master |-> owed[x] + 0 - (IF x = word THEN 1 ELSE 0)]
    BY <1>a, <2>2 DEF Slave
  <2>5. due' = [x \in Master |-> due[x] + 0 - (IF Valid(x, word) THEN 1 ELSE 0)]
    BY <1>a, <1>2 DEF Masters
  <2>6. CASE word = Nobody
    <3>1. \A x \in Master : ~Valid(x, word)
      BY <2>6 DEF Valid
    <3>2. owed' = owed /\ due' = due
      BY <2>4, <2>5, <2>6, <3>1, <1>b, <1>c
    <3>3. burstcount' = burstcount
      BY <1>a, <2>1, <1>2, <3>1 DEF Burstcount, Master
    <3> QED
      BY <2>6, <1>2, <2>3, <3>2, <3>3 DEF Nothing
  <2>7. CASE word \in Master
    <3>1. /\ word = g /\ grant[g] /\ ~grant[Other(g)]
          /\ owed[g] > 0 /\ unwritten[g] = 0 /\ ~Open(Other(g)) /\ burstcount = owed[g]
      BY <2>7, <1>a, WordFacts
    <3>2. \A x \in Master : Valid(x, word) <=> x = g
      BY <3>1, <1>c, <2>7 DEF Valid
    <3>3. owed' = [owed EXCEPT ![g] = @ - 1]
      <4>1. \A x \in Master : owed[x] + 0 - (IF x = word THEN 1 ELSE 0)
                              = IF x = g THEN owed[g] - 1 ELSE owed[x]
        BY <3>1, <1>b
      <4>2. owed' = [x \in Master |-> IF x = g THEN owed[g] - 1 ELSE owed[x]]
        BY <2>4, <4>1
      <4> QED
        BY <4>2, <1>b
    <3>4. due' = owed'
      BY <2>4, <2>5, <3>1, <3>2, <1>b
    <3>5. burstcount' = (burstcount + BurstMax) % (BurstMax + 1)
      BY <1>a, <2>1, <3>2, <1>b DEF Burstcount, Master
    <3>6. burstcount \in 1 .. 255 /\ burstcount' = (burstcount + 255) % 256
      BY <3>5, <3>1, <1>b DEF BurstMax
    <3>7. burstcount' = burstcount - 1
      BY <3>6
    <3> QED
      BY <3>1, <1>2, <2>3, <3>3, <3>4, <3>7 DEF WordArrives
  <2> QED
    BY <2>6, <2>7
<1> QED
  BY <1>1, <1>2

-----------------------------------------------------------------------------
(* The end of a transaction and the hand-over.                             *)

(* last_proc never declares a transaction over that is not.                 *)
LEMMA LastMeansOver ==
  ASSUME IInv, NEW wait \in BOOLEAN, NEW word \in Master \union {Nobody},
         Clock(wait, word), NEW m \in Master, Last(m, wait, word)
  PROVE  m = last_grant /\ grant[m] /\ \A x \in Master : ~Open(x)'
<1> DEFINE g == last_grant
<1>1. grant[m] /\ m = g /\ g \in Master
  BY DEF Last, IInv, Exclusive, TypeOK
<1>2. owed \in [Master -> Nat] /\ unwritten \in [Master -> Nat] /\ burstcount \in Nat
  BY DEF IInv, TypeOK, BurstMax
<1>3. Nobody \notin Master
  BY ConstantsAssumption
<1>4. CASE Nothing(wait, word)
  <2>1. ~Valid(m, word) /\ ~Taken(m, wait) /\ owed' = owed /\ unwritten' = unwritten
    BY <1>4 DEF Nothing, Valid
  <2>2. ~active_req(m) /\ burstcount = 0
    BY <2>1, <1>1 DEF Last, Taken, active_req
  <2>3. \A x \in Master : ~Open(x)
    BY <2>2, <1>2 DEF IInv, Holding, Open
  <2> QED
    BY <1>1, <2>1, <2>3 DEF Open
<1>5. CASE ReadBegins(wait, word, g)
  BY <1>5, <1>1 DEF ReadBegins, Last, Valid, Taken
<1>6. CASE BeatWritten(wait, word, g)
  <2>1. /\ ~Valid(m, word) /\ active_req(m) /\ ~Waits(m, wait) /\ req[m].cmd = "wr"
        /\ burstcount = unwritten[m]
        /\ owed[m] = 0 /\ ~Open(Other(m))
        /\ owed' = owed /\ unwritten' = [unwritten EXCEPT ![m] = req[m].left - 1]
    BY <1>6, <1>1 DEF BeatWritten, Valid, Taken
  <2>2. (burstcount = 0 /\ req[m].len = 1) \/ burstcount = 1
    BY <2>1 DEF Last
  <2>3. req[m].left \in 1 .. req[m].len /\ unwritten[m] = IF req[m].left = req[m].len THEN 0 ELSE req[m].left
    BY <2>1 DEF IInv, Presented
  <2>4. req[m].left = 1
    BY <2>1, <2>2, <2>3
  <2>5. unwritten'[m] = 0 /\ owed'[m] = 0
    BY <2>1, <2>4, <1>2
  <2>6. ~Open(Other(m))'
    BY <2>1, <1>2, TwoMasters DEF Open
  <2> QED
    BY <1>1, <2>5, <2>6, TwoMasters DEF Open
<1>7. CASE WordArrives(wait, word, g)
  <2>1. /\ owed[m] > 0 /\ unwritten[m] = 0 /\ ~Open(Other(m)) /\ burstcount = owed[m]
        /\ owed' = [owed EXCEPT ![m] = @ - 1] /\ unwritten' = unwritten
    BY <1>7, <1>1 DEF WordArrives
  <2>2. burstcount = 1
    BY <2>1 DEF Last
  <2>3. owed'[m] = 0 /\ unwritten'[m] = 0
    BY <2>1, <2>2, <1>2
  <2>4. ~Open(Other(m))'
    BY <2>1, <1>2, TwoMasters DEF Open
  <2> QED
    BY <1>1, <2>3, <2>4, TwoMasters DEF Open
<1> QED
  BY <1>4, <1>5, <1>6, <1>7, Outcomes

(* And it never misses the end of one.                                      *)
LEMMA OverMeansLast ==
  ASSUME IInv, NEW wait \in BOOLEAN, NEW word \in Master \union {Nobody},
         Clock(wait, word), NEW m \in Master, grant[m],
         Open(m) \/ Taken(m, wait), ~Open(m)'
  PROVE  Last(m, wait, word)
<1> DEFINE g == last_grant
<1>1. m = g /\ g \in Master
  BY DEF IInv, Exclusive, TypeOK
<1>2. owed \in [Master -> Nat] /\ unwritten \in [Master -> Nat] /\ burstcount \in Nat
  BY DEF IInv, TypeOK, BurstMax
<1>3. req[m].len \in Nat \ {0}
  BY DEF IInv, TypeOK, Length
<1>4. CASE Nothing(wait, word)
  BY <1>4 DEF Nothing, Open
<1>5. CASE ReadBegins(wait, word, g)
  <2>1. owed'[m] = req[m].len
    BY <1>5, <1>1, <1>2 DEF ReadBegins
  <2> QED
    BY <2>1, <1>3 DEF Open
<1>6. CASE BeatWritten(wait, word, g)
  <2>1. /\ active_req(m) /\ ~Waits(m, wait) /\ req[m].cmd = "wr"
        /\ burstcount = unwritten[m]
        /\ unwritten'[m] = req[m].left - 1
    BY <1>6, <1>1, <1>2 DEF BeatWritten, Taken
  <2>2. req[m].left \in 1 .. req[m].len /\ unwritten[m] = IF req[m].left = req[m].len THEN 0 ELSE req[m].left
    BY <2>1 DEF IInv, Presented
  <2>3. req[m].left = 1
    BY <2>1, <2>2, <1>3 DEF Open
  <2>4. (burstcount = 0 /\ req[m].len = 1) \/ burstcount = 1
    BY <2>1, <2>2, <2>3
  <2> QED
    BY <2>1, <2>4 DEF Last
<1>7. CASE WordArrives(wait, word, g)
  <2>1. /\ Valid(m, word) /\ ~Taken(m, wait) /\ burstcount = owed[m] /\ owed[m] > 0
        /\ owed'[m] = owed[m] - 1
    BY <1>7, <1>1, <1>2, ConstantsAssumption DEF WordArrives, Valid
  <2>2. burstcount = 1
    BY <2>1, <1>2 DEF Open
  <2> QED
    BY <2>1, <2>2 DEF Last, Taken
<1> QED
  BY <1>4, <1>5, <1>6, <1>7, Outcomes

(* The grants stay exclusive, an open transaction keeps its grant, a        *)
(* request that is granted keeps it, and one that waits for the other's     *)
(* transaction gets it at the end.                                          *)
LEMMA HandOver ==
  ASSUME IInv, NEW wait \in BOOLEAN, NEW word \in Master \union {Nobody},
         Clock(wait, word)
  PROVE  /\ grant' \in [Master -> BOOLEAN] /\ last_grant' \in Master /\ swapped' \in BOOLEAN
         /\ Exclusive'
         /\ \A m \in Master : Open(m)' => grant'[m]
         /\ \A m \in Master : active_req(m) /\ ~Taken(m, wait) =>
              /\ grant[m] /\ ~Open(m) => grant'[m]
              /\ grant[Other(m)] /\ (Open(Other(m)) \/ Taken(Other(m), wait)) =>
                   grant'[m] \/ (grant'[Other(m)] /\ Open(Other(m))')
<1>a. Grant(wait, word)
  BY DEF Clock
<1>b. /\ grant \in [Master -> BOOLEAN] /\ last_grant \in Master /\ swapped \in BOOLEAN
      /\ Exclusive
  BY DEF IInv, TypeOK
<1>c. owed \in [Master -> Nat] /\ unwritten \in [Master -> Nat] /\ burstcount \in Nat
  BY DEF IInv, TypeOK, BurstMax
<1>d. \A x \in Master : Turn(x) \in Master
  BY TwoMasters DEF Turn
<1>1. grant' \in [Master -> BOOLEAN] /\ last_grant' \in Master /\ swapped' \in BOOLEAN
  BY <1>a, <1>b, <1>d, ConstantsAssumption DEF Grant
<1>2. Exclusive'
  <2>1. CASE grant' = grant /\ last_grant' = last_grant
    BY <2>1, <1>b DEF Exclusive
  <2>2. CASE \E m \in Master : last_grant' = m /\ grant' = [x \in Master |-> x = m]
    BY <2>2, TwoMasters DEF Exclusive
  <2> QED
    BY <2>1, <2>2, <1>a, <1>d DEF Grant
<1>3. ASSUME \A m \in Master : ~Last(m, wait, word), NEW x \in Master, grant[x]
      PROVE  grant' = grant
  BY <1>3, <1>a DEF Grant
<1>4. ASSUME NEW m \in Master, Open(m)' PROVE grant'[m]
  <2>1. \A x \in Master : ~Last(x, wait, word)
    BY <1>4, LastMeansOver
  <2>2. grant[m]
    <3>1. CASE Nothing(wait, word)
      BY <3>1, <1>4 DEF Nothing, Open, IInv, Holding
    <3>2. CASE ReadBegins(wait, word, last_grant)
      BY <3>2, <1>4, <1>b, <1>c DEF ReadBegins, Open
    <3>3. CASE BeatWritten(wait, word, last_grant)
      <4>1. CASE m = last_grant
        BY <3>3, <4>1 DEF BeatWritten
      <4>2. CASE m = Other(last_grant)
        <5>1. owed'[m] = owed[m] /\ unwritten'[m] = unwritten[m] /\ ~Open(m)
          BY <3>3, <4>2, <1>b, <1>c, TwoMasters DEF BeatWritten
        <5> QED
          BY <5>1, <1>4 DEF Open
      <4> QED
        BY <4>1, <4>2, <1>b, TwoMasters
    <3>4. CASE WordArrives(wait, word, last_grant)
      <4>1. CASE m = last_grant
        BY <3>4, <4>1 DEF WordArrives
      <4>2. CASE m = Other(last_grant)
        <5>1. owed'[m] = owed[m] /\ unwritten'[m] = unwritten[m] /\ ~Open(m)
          BY <3>4, <4>2, <1>b, <1>c, TwoMasters DEF WordArrives
        <5> QED
          BY <5>1, <1>4 DEF Open
      <4> QED
        BY <4>1, <4>2, <1>b, TwoMasters
    <3> QED
      BY <3>1, <3>2, <3>3, <3>4, Outcomes
  <2> QED
    BY <2>1, <2>2, <1>3
<1>5. ASSUME NEW m \in Master, active_req(m), ~Taken(m, wait), grant[m], ~Open(m)
      PROVE  grant'[m]
  <2>1. ~grant[Other(m)] /\ ~Open(Other(m))
    BY <1>5, <1>b, TwoMasters DEF Exclusive, IInv, Holding
  <2>2. burstcount = 0
    BY <2>1, <1>5, TwoMasters DEF IInv, Holding
  <2>3. \A x \in Master : ~Last(x, wait, word)
    BY <2>1, <2>2, <1>5, TwoMasters DEF Last, Taken
  <2> QED
    BY <2>3, <1>5, <1>3
<1>6. ASSUME NEW m \in Master, active_req(m), ~Taken(m, wait), grant[Other(m)],
             Open(Other(m)) \/ Taken(Other(m), wait)
      PROVE  grant'[m] \/ (grant'[Other(m)] /\ Open(Other(m))')
  <2> DEFINE o == Other(m)
  <2>1. o \in Master /\ Other(o) = m /\ last_grant = o /\ ~grant[m]
    BY <1>6, <1>b, TwoMasters DEF Exclusive
  <2>2. CASE Open(o)'
    BY <2>2, <2>1, <1>4
  <2>3. CASE ~Open(o)'
    <3>1. Last(o, wait, word)
      BY <2>3, <2>1, <1>6, OverMeansLast
    <3>2. \A x \in Master : Last(x, wait, word) => x = o
      BY <2>1, TwoMasters DEF Last
    <3>3. Turn(o) = m
      BY <2>1, <1>6 DEF Turn
    <3>4. grant' = [x \in Master |-> x = m]
      BY <3>1, <3>2, <3>3, <2>1, <1>6, <1>a DEF Grant
    <3> QED
      BY <3>4
  <2> QED
    BY <2>2, <2>3
<1> QED
  BY <1>1, <1>2, <1>4, <1>5, <1>6

-----------------------------------------------------------------------------
(* The masters.                                                            *)

(* The four outcomes as one master sees them.                               *)
LEMMA Seen ==
  ASSUME IInv, NEW wait \in BOOLEAN, NEW word \in Master \union {Nobody},
         Clock(wait, word), NEW m \in Master
  PROVE  /\ due' = owed'
         /\ owed'[m] \in 0 .. MaxLen /\ unwritten'[m] \in 0 .. MaxLen
         /\ \/ /\ Taken(m, wait) /\ req[m].cmd = "rd" /\ req[m].left = 0
               /\ owed'[m] = req[m].len /\ unwritten'[m] = 0
            \/ /\ Taken(m, wait) /\ req[m].cmd = "wr"
               /\ owed'[m] = 0 /\ unwritten'[m] = req[m].left - 1
            \/ /\ ~Taken(m, wait) /\ unwritten'[m] = unwritten[m]
               /\ owed'[m] = owed[m] \/ (owed[m] > 0 /\ owed'[m] = owed[m] - 1)
<1> DEFINE g == last_grant
<1>1. g \in Master /\ due = owed /\ (m = g \/ m = Other(g)) /\ Other(g) # g
  BY TwoMasters DEF IInv, TypeOK, RoutedHome
<1>2. owed \in [Master -> 0 .. MaxLen] /\ unwritten \in [Master -> 0 .. MaxLen] /\ MaxLen \in Nat
  BY ConstantsAssumption DEF IInv, TypeOK
<1>3. req[m].len \in 1 .. MaxLen /\ req[m].left \in 0 .. MaxLen
  BY DEF IInv, TypeOK, Length
<1>4. CASE Nothing(wait, word)
  BY <1>4, <1>1, <1>2 DEF Nothing
<1>5. CASE ReadBegins(wait, word, g)
  <2>1. CASE m = g
    <3>1. unwritten[m] = 0
      BY <1>5, <2>1, <1>2 DEF ReadBegins, Open
    <3>2. req[m].left = 0
      BY <1>5, <2>1 DEF ReadBegins, IInv, Presented
    <3> QED
      BY <1>5, <2>1, <3>1, <3>2, <1>2, <1>3 DEF ReadBegins
  <2>2. CASE m = Other(g)
    BY <1>5, <2>2, <1>1, <1>2 DEF ReadBegins
  <2> QED
    BY <2>1, <2>2, <1>1
<1>6. CASE BeatWritten(wait, word, g)
  <2>1. CASE m = g
    <3>1. req[m].left \in 1 .. req[m].len
      BY <1>6, <2>1 DEF BeatWritten, IInv, Presented
    <3> QED
      BY <1>6, <2>1, <3>1, <1>1, <1>2, <1>3 DEF BeatWritten
  <2>2. CASE m = Other(g)
    BY <1>6, <2>2, <1>1, <1>2 DEF BeatWritten
  <2> QED
    BY <2>1, <2>2, <1>1
<1>7. CASE WordArrives(wait, word, g)
  <2>1. CASE m = g
    BY <1>7, <2>1, <1>2 DEF WordArrives
  <2>2. CASE m = Other(g)
    BY <1>7, <2>2, <1>1, <1>2 DEF WordArrives
  <2> QED
    BY <2>1, <2>2, <1>1
<1> QED
  BY <1>4, <1>5, <1>6, <1>7, Outcomes

RequestType == [cmd : {"none", "rd", "wr"}, len : Length, left : 0 .. MaxLen]

(* What Presented says of one master.                                       *)
PresentedFor(m) ==
  LET r == req[m]
  IN /\ r.cmd = "rd" => r.left = 0
     /\ r.cmd = "wr" => r.left \in 1 .. r.len
     /\ r.left <= r.len
     /\ unwritten[m] = IF r.left = r.len THEN 0 ELSE r.left
     /\ owed[m] > 0 => r.left = r.len \/ r.left = 0
     /\ owed[m] > 0 /\ m \notin Withdrawing => r = NoRequest
     /\ m \in Withdrawing => r.len = 1 /\ owed[m] <= 1

(* A fresh request fits the slave's account of a master with nothing open   *)
(* but, for one that may be reset, an abandoned word.                       *)
LEMMA FreshRequest ==
  ASSUME NEW m \in Master, owed'[m] \in Nat, unwritten'[m] = 0, due'[m] = owed'[m],
         m \in Withdrawing => owed'[m] <= 1,
         req'[m] \in NewRequests(m)
  PROVE  req'[m] \in RequestType /\ PresentedFor(m)'
<1> DEFINE r == req'[m]
<1>1. MaxLen \in Nat \ {0} /\ Length = 1 .. MaxLen
  BY ConstantsAssumption DEF Length, BurstMax
<1>2. CASE r = NoRequest
  BY <1>1, <1>2 DEF NoRequest, RequestType, PresentedFor
<1>3. CASE r # NoRequest
  <2>1. /\ r \in Reads \union Writes
        /\ m \in Withdrawing => r.len = 1
        /\ m \notin Withdrawing => owed'[m] = 0
    BY <1>3 DEF NewRequests
  <2>2. \/ r.cmd = "rd" /\ r.len \in Length /\ r.left = 0
        \/ r.cmd = "wr" /\ r.len \in Length /\ r.left = r.len
    BY <2>1 DEF Reads, Writes
  <2>3. r \in RequestType
    BY <2>1, <1>1 DEF Reads, Writes, RequestType
  <2>4. unwritten'[m] = IF r.left = r.len THEN 0 ELSE r.left
    BY <2>2, <1>1
  <2>5. r.left <= r.len
    BY <2>2, <1>1
  <2>6. r.cmd = "wr" => r.left \in 1 .. r.len
    BY <2>2, <1>1
  <2>7. owed'[m] > 0 => m \in Withdrawing
    BY <2>1
  <2> QED
    BY <2>1, <2>2, <2>3, <2>4, <2>5, <2>6, <2>7 DEF PresentedFor
<1> QED
  BY <1>2, <1>3

LEMMA RequestStep ==
  ASSUME IInv, NEW wait \in BOOLEAN, NEW word \in Master \union {Nobody},
         Clock(wait, word), NEW m \in Master
  PROVE  req'[m] \in RequestType /\ PresentedFor(m)'
<1> DEFINE r == req[m]
<1>1. req'[m] \in NextRequests(m, wait)
  BY DEF Clock, Masters, Master
<1>2. /\ due'[m] = owed'[m]
      /\ owed'[m] \in Nat /\ unwritten'[m] \in Nat
      /\ owed[m] \in Nat /\ unwritten[m] \in Nat
  BY Seen, ConstantsAssumption DEF IInv, TypeOK
<1>3. r \in RequestType /\ PresentedFor(m)
  BY DEF IInv, TypeOK, Presented, RequestType, PresentedFor
<1>4. r.len \in 1 .. MaxLen /\ r.left \in 0 .. MaxLen /\ MaxLen \in Nat /\ Length = 1 .. MaxLen
  BY <1>3, ConstantsAssumption DEF RequestType, Length
<1>5. CASE Taken(m, wait) /\ r.left <= 1
  <2>1. req'[m] \in NewRequests(m)
    BY <1>1, <1>5 DEF NextRequests
  <2>2. unwritten'[m] = 0 /\ (m \in Withdrawing => owed'[m] <= 1)
    <3>1. CASE r.cmd = "rd"
      BY <3>1, <1>5, Seen, <1>3 DEF PresentedFor
    <3>2. CASE r.cmd = "wr"
      <4>1. r.left = 1
        BY <3>2, <1>3, <1>5, <1>4 DEF PresentedFor
      <4>2. unwritten'[m] = r.left - 1 /\ owed'[m] = 0
        BY <3>2, <1>5, Seen
      <4> QED
        BY <4>1, <4>2
    <3> QED
      BY <3>1, <3>2, <1>5, Seen
  <2> QED
    BY <2>1, <2>2, <1>2, FreshRequest
<1>6. CASE Taken(m, wait) /\ r.left > 1
  <2>1. r.cmd = "wr" /\ owed'[m] = 0 /\ unwritten'[m] = r.left - 1
    BY <1>6, <1>4, Seen
  <2>2. m \notin Withdrawing
    BY <1>6, <1>3, <1>4 DEF PresentedFor
  <2>3. req'[m] \in Beats([r EXCEPT !.left = @ - 1])
    BY <1>1, <1>6, <1>4 DEF NextRequests
  <2>4. req'[m] \in {[cmd |-> "wr", len |-> r.len, left |-> r.left - 1],
                     [cmd |-> "none", len |-> r.len, left |-> r.left - 1]}
    BY <2>3, <2>1, <1>3, <1>6 DEF Beats, RequestType
  <2>5. /\ req'[m].cmd \in {"none", "wr"} /\ req'[m].len = r.len /\ req'[m].left = r.left - 1
        /\ req'[m] \in RequestType
    <3>1. r.left - 1 \in 0 .. MaxLen /\ r.len \in Length
      BY <1>4, <1>6
    <3> QED
      BY <3>1, <2>4 DEF RequestType
  <2>6. r.left <= r.len
    BY <1>3 DEF PresentedFor
  <2>7. req'[m].left \in 1 .. req'[m].len /\ req'[m].left # req'[m].len
    BY <2>5, <2>6, <1>4, <1>6
  <2> QED
    BY <2>1, <2>2, <2>5, <2>7 DEF PresentedFor
<1>7. ASSUME ~Taken(m, wait)
      PROVE  /\ unwritten'[m] = unwritten[m] /\ owed'[m] <= owed[m]
             /\ owed'[m] > 0 => owed[m] > 0
  BY <1>7, <1>2, Seen
<1>8. CASE ~Taken(m, wait) /\ req'[m] \in {r, [r EXCEPT !.cmd = "wr"]}
               /\ (req'[m] # r => ~active_req(m) /\ r.left # 0)
  <2>1. CASE req'[m] = r
    BY <2>1, <1>8, <1>7, <1>3, <1>2 DEF PresentedFor
  <2>2. CASE req'[m] # r
    <3>1. ~active_req(m) /\ r.left # 0 /\ req'[m] = [r EXCEPT !.cmd = "wr"]
      BY <2>2, <1>8
    <3>2. req'[m].cmd = "wr" /\ req'[m].len = r.len /\ req'[m].left = r.left /\ req'[m] \in RequestType
      BY <3>1, <1>3 DEF RequestType
    <3>3. owed[m] > 0 => m \in Withdrawing
      BY <3>1, <1>3 DEF PresentedFor, NoRequest
    <3>4. r.left \in 1 .. r.len
      BY <3>1, <1>3, <1>4 DEF PresentedFor
    <3> QED
      BY <3>2, <3>3, <3>4, <1>8, <1>7, <1>3, <1>2 DEF PresentedFor
  <2> QED
    BY <2>1, <2>2
<1>9. CASE ~Taken(m, wait) /\ ~active_req(m) /\ r.left = 0
  <2>1. req'[m] \in NewRequests(m)
    BY <1>1, <1>9 DEF NextRequests
  <2>2. unwritten'[m] = 0
    BY <1>9, <1>7, <1>3, <1>4 DEF PresentedFor
  <2>3. m \in Withdrawing => owed'[m] <= 1
    BY <1>9, <1>7, <1>3, <1>2 DEF PresentedFor
  <2> QED
    BY <2>1, <2>2, <2>3, <1>2, FreshRequest
<1>10. CASE ~Taken(m, wait) /\ req'[m] = NoRequest /\ m \in Withdrawing
  <2>1. unwritten'[m] = 0
    BY <1>10, <1>7, <1>3, <1>4 DEF PresentedFor
  <2>2. owed'[m] <= 1
    BY <1>10, <1>7, <1>3, <1>2 DEF PresentedFor
  <2>3. req'[m] \in NewRequests(m)
    BY <1>10 DEF NewRequests
  <2> QED
    BY <2>1, <2>2, <2>3, <1>2, FreshRequest
<1> QED
  <2>1. CASE Taken(m, wait)
    BY <2>1, <1>5, <1>6, <1>4
  <2>2. CASE ~Taken(m, wait) /\ active_req(m)
    BY <2>2, <1>1, <1>8, <1>10 DEF NextRequests
  <2>3. CASE ~Taken(m, wait) /\ ~active_req(m) /\ r.left # 0
    BY <2>3, <1>1, <1>8 DEF NextRequests
  <2> QED
    BY <2>1, <2>2, <2>3, <1>9

-----------------------------------------------------------------------------
(* The invariant is inductive.                                             *)

LEMMA InitHolds == Init => IInv
<1> SUFFICES ASSUME Init PROVE IInv
  OBVIOUS
<1>1. MaxLen \in Nat \ {0} /\ Length = 1 .. MaxLen
  BY ConstantsAssumption DEF Length, BurstMax
<1>2. NoRequest \in RequestType
  BY <1>1 DEF NoRequest, RequestType
<1>3. req = [m \in Master |-> NoRequest] /\ owed = [m \in Master |-> 0]
      /\ due = owed /\ unwritten = owed /\ overtaken = owed /\ begun = {}
      /\ grant = [m \in Master |-> FALSE] /\ last_grant = 1
      /\ swapped = FALSE /\ burstcount = 0
  BY DEF Init
<1>4. TypeOK
  <2>1. req \in [Master -> RequestType] /\ grant \in [Master -> BOOLEAN]
    BY <1>2, <1>3
  <2>2. owed \in [Master -> 0 .. MaxLen] /\ overtaken \in [Master -> 0 .. 2]
    BY <1>1, <1>3
  <2>3. last_grant \in Master /\ burstcount \in 0 .. BurstMax
    BY <1>3 DEF Master, BurstMax
  <2>4. swapped \in BOOLEAN /\ begun \subseteq Master
    BY <1>3
  <2> QED
    BY <2>1, <2>2, <2>3, <2>4, <1>3 DEF TypeOK, RequestType
<1>5. Exclusive /\ RoutedHome /\ Holding
  BY <1>3, TwoMasters DEF Exclusive, RoutedHome, Holding, Open
<1>6. Presented
  BY <1>1, <1>3 DEF Presented, NoRequest
<1>7. FairTurns /\ NextInTurn
  BY <1>3 DEF FairTurns, NextInTurn
<1> QED
  BY <1>4, <1>5, <1>6, <1>7 DEF IInv

LEMMA HoldingKept ==
  ASSUME IInv, NEW wait \in BOOLEAN, NEW word \in Master \union {Nobody},
         Clock(wait, word)
  PROVE  Holding' /\ burstcount' \in 0 .. BurstMax
<1> DEFINE g == last_grant
<1>1. g \in Master /\ g # Other(g) /\ Other(g) \in Master
      /\ \A m \in Master : m = g \/ m = Other(g)
  BY TwoMasters DEF IInv, TypeOK
<1>2. owed \in [Master -> Nat] /\ unwritten \in [Master -> Nat]
      /\ burstcount \in 0 .. 255
  <2>1. MaxLen \in Nat
    BY ConstantsAssumption
  <2> QED
    BY <2>1 DEF IInv, TypeOK, BurstMax
<1>3. req[g].len \in 1 .. 255 /\ req[g].left \in Nat
  <2>1. MaxLen \in 1 .. 255
    BY ConstantsAssumption DEF BurstMax
  <2>2. req[g].len \in 1 .. MaxLen /\ req[g].left \in 0 .. MaxLen
    BY <1>1 DEF IInv, TypeOK, Length
  <2> QED
    BY <2>1, <2>2
<1>4. \A m \in Master : Open(m)' => grant'[m]
  BY HandOver
<1>5. SUFFICES /\ \A m \in Master : Open(m)' => burstcount' = owed'[m] + unwritten'[m]
               /\ \A m \in Master : owed'[m] = 0 \/ unwritten'[m] = 0
               /\ (\A m \in Master : ~Open(m)') => burstcount' = 0
               /\ burstcount' \in 0 .. 255
  BY <1>4 DEF Holding, BurstMax
<1>6. CASE Nothing(wait, word)
  BY <1>6, <1>2 DEF Nothing, Open, IInv, Holding
<1>7. CASE ReadBegins(wait, word, g)
  <2>1. /\ owed'[g] = req[g].len /\ unwritten'[g] = 0
        /\ owed'[Other(g)] = 0 /\ unwritten'[Other(g)] = 0 /\ burstcount' = req[g].len
    BY <1>7, <1>1, <1>2 DEF ReadBegins, Open
  <2> QED
    BY <2>1, <1>1, <1>3 DEF Open
<1>8. CASE BeatWritten(wait, word, g)
  <2>1. /\ owed'[g] = 0 /\ unwritten'[g] = req[g].left - 1
        /\ owed'[Other(g)] = 0 /\ unwritten'[Other(g)] = 0 /\ burstcount' = req[g].left - 1
    BY <1>8, <1>1, <1>2 DEF BeatWritten, Open
  <2>2. req[g].left \in 1 .. req[g].len
    BY <1>8, <1>1 DEF BeatWritten, IInv, Presented
  <2>3. req[g].left - 1 \in 0 .. 255
    BY <2>2, <1>3
  <2> QED
    BY <2>1, <2>3, <1>1 DEF Open
<1>9. CASE WordArrives(wait, word, g)
  <2>1. /\ owed'[g] = owed[g] - 1 /\ unwritten'[g] = 0 /\ owed[g] > 0
        /\ owed'[Other(g)] = 0 /\ unwritten'[Other(g)] = 0 /\ burstcount' = owed[g] - 1
        /\ burstcount = owed[g]
    BY <1>9, <1>1, <1>2 DEF WordArrives, Open
  <2>2. owed[g] - 1 \in 0 .. 255
    BY <2>1, <1>1, <1>2
  <2> QED
    BY <2>1, <2>2, <1>1 DEF Open
<1> QED
  BY <1>6, <1>7, <1>8, <1>9, Outcomes

(* Round robin.  A request once overtaken holds the grant or waits for the   *)
(* open transaction of the other, after which it holds the grant.           *)
LEMMA TurnsKept ==
  ASSUME IInv, NEW wait \in BOOLEAN, NEW word \in Master \union {Nobody},
         Clock(wait, word)
  PROVE  FairTurns' /\ NextInTurn' /\ overtaken' \in [Master -> 0 .. 2]
<1>1. /\ begun' = {m \in Master : Waiting(m) /\ Taken(m, wait)}
      /\ overtaken' = [m \in Master |->
           IF ~Waiting(m) \/ m \in begun' THEN 0
           ELSE IF Other(m) \in begun' /\ overtaken[m] < 2 THEN overtaken[m] + 1
           ELSE overtaken[m]]
  BY DEF Clock, History
<1>2. overtaken \in [Master -> 0 .. 2] /\ \A m \in Master : overtaken[m] \in 0 .. 1
  BY DEF IInv, TypeOK, FairTurns
<1>3. overtaken' \in [Master -> 0 .. 2]
  <2>1. \A m \in Master : overtaken'[m] \in 0 .. 2
    BY <1>1, <1>2
  <2> QED
    BY <2>1, <1>1
<1>4. ASSUME NEW m \in Master, overtaken'[m] > 0
      PROVE  /\ overtaken'[m] <= 1
             /\ \/ grant'[m] /\ ~Open(m)'
                \/ grant'[Other(m)] /\ Open(Other(m))'
  <2> DEFINE o == Other(m)
  <2>1. o \in Master /\ o # m /\ Other(o) = m
    BY TwoMasters
  <2>2. Waiting(m) /\ ~Taken(m, wait) /\ active_req(m)
    BY <1>1, <1>4 DEF Waiting, active_req
  <2>3. unwritten[m] = 0
    <3>1. MaxLen \in Nat /\ req[m].len \in 1 .. MaxLen
      BY ConstantsAssumption DEF IInv, TypeOK, Length
    <3> QED
      BY <2>2, <3>1 DEF Waiting, IInv, Presented
  <2>4. Exclusive' /\ \A x \in Master : Open(x)' => grant'[x]
    BY HandOver
  <2>5. CASE o \in begun'
    <3>1. Waiting(o) /\ Taken(o, wait) /\ grant[o]
      BY <2>5, <1>1 DEF Taken, Waits
    <3>2. Slave(wait, word)
      BY DEF Clock
    <3>3. owed[o] = 0 /\ ~grant[m] /\ ~Open(m)
      BY <3>1, <3>2, <2>1, TakenFacts
    <3>4. unwritten[o] = 0
      <4>1. MaxLen \in Nat /\ req[o].len \in 1 .. MaxLen
        BY <2>1, ConstantsAssumption DEF IInv, TypeOK, Length
      <4> QED
        BY <2>1, <3>1, <4>1 DEF Waiting, IInv, Presented
    <3>5. overtaken[m] = 0
      BY <3>3, <3>4, <2>2, <1>2 DEF Open, IInv, NextInTurn
    <3>6. overtaken'[m] <= 1
      BY <3>5, <1>1
    <3>7. grant'[m] \/ (grant'[o] /\ Open(o)')
      BY <3>1, <2>1, <2>2, HandOver
    <3>8. ~Open(m)'
      <4>1. CASE grant'[m] /\ Open(m)'
        <5>1. owed'[m] = 0 \/ owed'[m] = owed[m] \/ owed'[m] < owed[m]
          BY Seen, <2>2 DEF IInv, TypeOK
        <5>2. owed[m] = 0
          BY <3>3 DEF Open, IInv, TypeOK
        <5>3. owed'[m] = owed[m] /\ unwritten'[m] = unwritten[m]
          BY <5>2, <2>2, Seen
        <5> QED
          BY <5>2, <5>3, <2>3, <4>1 DEF Open
      <4> QED
        BY <4>1, <2>4
    <3> QED
      BY <3>6, <3>7, <3>8
  <2>6. CASE o \notin begun'
    <3>1. overtaken'[m] = overtaken[m]
      BY <2>6, <1>1, <2>2, <1>4
    <3>2. (grant[m] /\ ~Open(m)) \/ (grant[o] /\ Open(o))
      BY <3>1, <1>4, <2>2 DEF IInv, NextInTurn
    <3>3. grant'[m] \/ (grant'[o] /\ Open(o)')
      BY <3>2, <2>1, <2>2, HandOver
    <3>4. owed[m] = 0
      <4>1. ~Open(m)
        BY <3>2, <2>1 DEF IInv, Exclusive, Holding
      <4> QED
        BY <4>1 DEF Open, IInv, TypeOK
    <3>5. owed'[m] = owed[m] /\ unwritten'[m] = unwritten[m]
      BY <3>4, <2>2, Seen
    <3>6. ~Open(m)'
      BY <3>4, <3>5, <2>3 DEF Open
    <3> QED
      BY <3>1, <3>3, <3>6, <1>2
  <2> QED
    BY <2>5, <2>6
<1>5. FairTurns'
  <2>1. \A m \in Master : overtaken'[m] \in Nat
    BY <1>3
  <2> QED
    BY <2>1, <1>4 DEF FairTurns
<1>6. NextInTurn'
  BY <1>4 DEF NextInTurn
<1> QED
  BY <1>3, <1>5, <1>6

LEMMA StepHolds == IInv /\ [Next]_vars => IInv'
<1>1. ASSUME IInv, NEW wait \in BOOLEAN, NEW word \in Master \union {Nobody},
             Clock(wait, word)
      PROVE  IInv'
  <2>1. \A m \in Master : req'[m] \in RequestType /\ PresentedFor(m)'
    BY <1>1, RequestStep
  <2>2. Presented'
    BY <2>1 DEF Presented, PresentedFor
  <2>3. Exclusive' /\ grant' \in [Master -> BOOLEAN] /\ last_grant' \in Master /\ swapped' \in BOOLEAN
    BY <1>1, HandOver
  <2>4. RoutedHome' /\ \A m \in Master : owed'[m] \in 0 .. MaxLen /\ unwritten'[m] \in 0 .. MaxLen
    <3>1. \A m \in Master : /\ due' = owed'
                            /\ owed'[m] \in 0 .. MaxLen /\ unwritten'[m] \in 0 .. MaxLen
      BY <1>1, Seen
    <3>2. 0 \in Master
      BY DEF Master
    <3> QED
      BY <3>1, <3>2 DEF RoutedHome
  <2>5. Holding' /\ burstcount' \in 0 .. BurstMax
    BY <1>1, HoldingKept
  <2>6. FairTurns' /\ NextInTurn' /\ overtaken' \in [Master -> 0 .. 2]
    BY <1>1, TurnsKept
  <2>7. /\ req' = [m \in Master |-> req'[m]] /\ owed' = [m \in Master |-> owed'[m]]
        /\ unwritten' = [m \in Master |-> unwritten'[m]]
    <3>1. req' = [m \in Master |-> req'[m]]
      BY <1>1 DEF Clock, Masters
    <3>2. owed' = [m \in Master |-> owed'[m]]
      BY <1>1 DEF Clock, Slave
    <3>3. unwritten' = [m \in Master |-> unwritten'[m]]
      BY <1>1 DEF Clock, Slave
    <3> QED
      BY <3>1, <3>2, <3>3
  <2>8. req' \in [Master -> RequestType] /\ owed' \in [Master -> 0 .. MaxLen]
        /\ unwritten' \in [Master -> 0 .. MaxLen] /\ due' = owed'
    BY <2>1, <2>4, <2>7 DEF RoutedHome
  <2>9. begun' \subseteq Master
    BY <1>1 DEF Clock, History
  <2>10. TypeOK'
    BY <2>3, <2>5, <2>6, <2>8, <2>9 DEF TypeOK, RequestType
  <2> QED
    BY <2>2, <2>3, <2>4, <2>5, <2>6, <2>10 DEF IInv
<1>2. IInv /\ UNCHANGED vars => IInv'
  BY DEF vars, arbVars, slaveVars, IInv, TypeOK, Exclusive, RoutedHome, Holding, Open,
         Presented, FairTurns, NextInTurn, Waiting
<1> QED
  BY <1>1, <1>2 DEF Next

(* The invariant of the arbiter, its masters and the slave's account.        *)
THEOREM Inductive == Spec => []IInv
  BY InitHolds, StepHolds, PTL DEF Spec

(* Type correctness of the arbiter's registers.                              *)
THEOREM TypeCorrect == Spec => []TypeOK
<1>1. IInv => TypeOK
  BY DEF IInv
<1> QED
  BY <1>1, Inductive, PTL

(* Two masters never hold a grant at once (the assertion of                  *)
(* avm_arbit.vhd:137).                                                       *)
THEOREM GrantsExclude == Spec => []Exclusive
<1>1. IInv => Exclusive
  BY DEF IInv
<1> QED
  BY <1>1, Inductive, PTL

(* Every read word reaches the master that asked for it.                     *)
THEOREM WordsComeHome == Spec => []RoutedHome
<1>1. IInv => RoutedHome
  BY DEF IInv
<1> QED
  BY <1>1, Inductive, PTL

(* Nothing comes between the beats of a transaction.                         *)
THEOREM TransactionsWhole == Spec => []OneAtATime
<1>1. IInv => OneAtATime
  <2> SUFFICES ASSUME IInv, NEW m \in Master, Open(m)
               PROVE  ~Open(Other(m)) /\ \A x \in Master : Taken(x, FALSE) => x = m
    BY DEF OneAtATime
  <2>1. grant[m] /\ ~grant[Other(m)]
    BY DEF IInv, Holding, Exclusive
  <2>2. ~Open(Other(m))
    BY <2>1, TwoMasters DEF IInv, Holding
  <2>3. \A x \in Master : Taken(x, FALSE) => grant[x]
    BY DEF Taken, Waits
  <2> QED
    BY <2>1, <2>2, <2>3, TwoMasters
<1> QED
  BY <1>1, Inductive, PTL

(* A request is overtaken at most once.                                      *)
THEOREM OvertakenOnce == Spec => []FairTurns
<1>1. IInv => FairTurns
  BY DEF IInv
<1> QED
  BY <1>1, Inductive, PTL
=============================================================================
