--------------------------- MODULE VDrives_proofs ---------------------------
(* Proofs of the safety properties of VDrives, for every image and sector   *)
(* size, iteration size, waiting period, set of files and event budget.     *)
EXTENDS VDrives, TLAPS

-----------------------------------------------------------------------------
(* Facts about positions: the only ones that look into the product of        *)
(* sector number and sector size.                                           *)

\* An image has at least one byte.
LEMMA SizePositive == Size \in Nat \ {0}
BY ParametersAssumption DEF Size

\* A place within a sector is a byte of the image.
LEMMA PlaceInImage ==
  ASSUME NEW l \in Lbas, NEW i \in 0 .. BlockBytes - 1
  PROVE  Place(l, i) \in Bytes
<1> DEFINE n == NLbas - 1 - l
<1>1. n \in Nat /\ l \in Nat /\ i \in Nat /\ BlockBytes \in Nat /\ NLbas \in Nat
  BY ParametersAssumption DEF Lbas
<1>2. n * BlockBytes \in Nat /\ l * BlockBytes \in Nat
  BY <1>1
<1>3. Size = l * BlockBytes + n * BlockBytes + BlockBytes
  BY <1>1 DEF Size
<1> HIDE DEF n
<1>4. Place(l, i) >= 0 /\ Place(l, i) < Size /\ Place(l, i) \in Int
  BY <1>1, <1>2, <1>3 DEF Place
<1> QED
  BY <1>4, SizePositive DEF Bytes

\* A byte and its offset in the sector asked for determine each other.
LEMMA OffsetPlace ==
  ASSUME lba \in Lbas, NEW b \in Bytes
  PROVE  /\ Offset(b) \in Int
         /\ \A i \in Int : Offset(b) = i <=> b = Place(lba, i)
<1>1. lba * BlockBytes \in Int /\ b \in Int
  BY ParametersAssumption DEF Lbas, Bytes
<1> QED
  BY <1>1 DEF Offset, Place

-----------------------------------------------------------------------------
(* What a clock edge and the register writes make of the cache flags.       *)

\* The flags stay flags.
LEMMA FlagsType ==
  ASSUME cache \in Flags
  PROVE  {Cleared, Edge, AckWritten, CleanWritten, FlushingWritten} \subseteq Flags
<1>0. Delay \in 0 .. Delay
  BY ParametersAssumption
<1> USE DEF Flags
<1>1. Cleared \in Flags
  BY <1>0 DEF Cleared
<1>2. \A c \in Flags : Rearmed(c) \in Flags
  BY <1>0, Zenon DEF Rearmed
<1>3. \A wr \in BOOLEAN : Watched(cache, wr) \in Flags
  <2> SUFFICES ASSUME NEW wr \in BOOLEAN PROVE Watched(cache, wr) \in Flags
    OBVIOUS
  <2>1. CASE cache.dirty /\ cache.latch
    BY <2>1, <1>2 DEF Watched
  <2>2. CASE ~(cache.dirty /\ cache.latch)
    <3>1. (IF cache.dirty /\ cache.count > 0 THEN cache.count - 1 ELSE cache.count)
             \in 0 .. Delay
      <4>1. cache.count \in 0 .. Delay
        OBVIOUS
      <4>2. cache.count > 0 => cache.count - 1 \in 0 .. Delay
        BY <4>1, ParametersAssumption
      <4> QED
        BY <4>1, <4>2
    <3>2. (cache.latch \/ wr) \in BOOLEAN
          /\ (cache.start \/ (cache.dirty /\ cache.count = 0)) \in BOOLEAN
      OBVIOUS
    <3> QED
      BY <2>2, <3>1, <3>2 DEF Watched
  <2> QED
    BY <2>1, <2>2
<1>4. Edge \in Flags
  BY <1>3 DEF Edge
<1>5. AckWritten \in Flags
  BY <1>2, <1>4 DEF AckWritten
<1>6. CleanWritten \in Flags /\ FlushingWritten \in Flags
  BY <1>0, <1>4, Zenon DEF CleanWritten, FlushingWritten
<1> QED
  BY <1>1, <1>4, <1>5, <1>6

\* An edge keeps the dirty flag, starts no flushing, and stops it for a write.
LEMMA EdgeFlags ==
  ASSUME cache \in Flags
  PROVE  /\ Edge.dirty = cache.dirty
         /\ Edge.flushing => cache.flushing
         /\ cache.latch \/ core = "wr" =>
              Edge.latch \/ (Edge.dirty /\ ~Edge.flushing)
         /\ cache.dirty /\ ~cache.flushing => Edge.dirty /\ ~Edge.flushing
<1>1. CASE cache.dirty /\ cache.latch
  BY <1>1 DEF Flags, Edge, Watched, Rearmed
<1>2. CASE ~(cache.dirty /\ cache.latch)
  BY <1>2 DEF Flags, Edge, Watched
<1> QED
  BY <1>1, <1>2

\* A write acknowledged is dirty and not being flushed; no acknowledge makes
\* a drive clean or starts a flush.
LEMMA AckFlags ==
  ASSUME cache \in Flags
  PROVE  /\ cache.dirty => AckWritten.dirty
         /\ AckWritten.flushing => cache.flushing
         /\ cache.latch \/ (cache.dirty /\ ~cache.flushing) =>
              AckWritten.dirty /\ ~AckWritten.flushing
<1>1. Edge \in Flags
  BY FlagsType
<1> QED
  BY <1>1, EdgeFlags DEF Flags, AckWritten, Rearmed

\* Cleared, or cleaned, the drive is neither dirty nor being flushed.
LEMMA CleanFlags ==
  ASSUME cache \in Flags
  PROVE  /\ ~Cleared.dirty /\ ~Cleared.flushing
         /\ ~CleanWritten.dirty /\ ~CleanWritten.flushing
         /\ FlushingWritten.dirty = cache.dirty
<1>1. Edge \in Flags
  BY FlagsType
<1> QED
  BY <1>1, EdgeFlags DEF Flags, Cleared, CleanWritten, FlushingWritten

-----------------------------------------------------------------------------
(* The actions, named once for the case distinctions below.                 *)

\* A step is one of the actions, or nothing happens.
LEMMA StepCases ==
  ASSUME [Next]_vars
  PROVE  \/ Tick \/ SeesAck \/ SeesAckGone
         \/ PollRead \/ AckRead \/ SendByte \/ AckReadOff
         \/ PollWrite \/ CopyByte \/ AckWrite \/ AckWriteOff
         \/ PollFlush \/ StartFlush \/ FlushByte \/ MarkClean
         \/ PostReset \/ PostDone
         \/ (\E l \in Lbas : QlRead(l)) \/ (\E l \in Lbas : QlWrite(l))
         \/ (\E f \in Files : Pick(f))
         \/ Select \/ SelectOther \/ Cancel
         \/ Press \/ Release \/ FlushFatal
         \/ UNCHANGED vars
BY DEF Next, Core, Firmware, Outside

\* Spending an event leaves the budget a budget.
LEMMA SpendType ==
  ASSUME TypeOK, NEW e \in Events, Spend(e)
  PROVE  budget' \in [Events -> Nat]
BY DEF TypeOK, Spend

\* What a reset assigns has the right type.
LEMMA ResetType ==
  ASSUME TypeOK, file \in Files \/ (~cache.dirty /\ pc \notin {"wr_byte", "wr_ack"}),
         ResetCore
  PROVE  /\ cache' \in Flags /\ core' = "idle" /\ ack' = FALSE /\ mounted' = FALSE
         /\ dropped' \subseteq Files
         /\ UNCHANGED <<lba, cbuf, present>>
<1>1. cache \in Flags
  BY DEF TypeOK
<1>2. Cleared \in Flags
  BY <1>1, FlagsType
<1>3. dropped' \subseteq Files
  BY DEF ResetCore, TypeOK
<1> QED
  BY <1>2, <1>3 DEF ResetCore

-----------------------------------------------------------------------------
(* Type correctness.                                                        *)

\* A step keeps every variable's type.
LEMMA TypeStep ==
  TypeOK /\ ServiceShape /\ FlushShape /\ [Next]_vars => TypeOK'
<1> SUFFICES ASSUME TypeOK, ServiceShape, FlushShape, [Next]_vars PROVE TypeOK'
  OBVIOUS
<1>a. cache \in Flags
  BY DEF TypeOK
<1>b. {Cleared, Edge, AckWritten, CleanWritten, FlushingWritten} \subseteq Flags
  BY <1>a, FlagsType
<1>c. \A c \in Flags : SetCache(c) => cache' \in Flags
  BY <1>b DEF SetCache
<1>d. \A b \in BOOLEAN : SetAck(b) => ack' \in BOOLEAN
  BY DEF SetAck
<1>e. BlockBytes \in Nat \ {0} /\ IterSize \in Nat \ {0} /\ NoFile \notin Files
  BY ParametersAssumption
<1> USE DEF hwVars, coreVars, flushVars, imageVars, coreRest, menuRest
<1>1. CASE Tick
  <2>1. cache' \in Flags
    BY <1>1, <1>b, <1>c DEF Tick
  <2> QED
    BY <1>1, <2>1 DEF Tick, TypeOK
<1>2. CASE SeesAck
  BY <1>2 DEF SeesAck, TypeOK
<1>3. CASE SeesAckGone
  BY <1>3 DEF SeesAckGone, TypeOK
<1>4. CASE PollRead
  BY <1>4 DEF PollRead, TypeOK
<1>5. CASE AckRead
  <2>1. cache' \in Flags
    BY <1>5, <1>b, <1>c DEF AckRead
  <2>2. ack' \in BOOLEAN
    BY <1>5, <1>d DEF AckRead
  <2>3. at' \in 0 .. BlockBytes
    BY <1>5, <1>e DEF AckRead
  <2> QED
    BY <1>5, <2>1, <2>2, <2>3 DEF AckRead, TypeOK
<1>6. CASE SendByte
  <2>1. cache' \in Flags
    BY <1>6, <1>b, <1>c DEF SendByte
  <2>2. at \in 0 .. BlockBytes - 1 /\ at' \in 0 .. BlockBytes
    BY <1>6, <1>e DEF SendByte, ServiceShape, TypeOK
  <2>3. cbuf' \in [0 .. BlockBytes - 1 -> Nat]
    <3>1. Place(lba, at) \in Bytes
      BY <2>2, PlaceInImage DEF TypeOK
    <3>2. buf[Place(lba, at)] \in Nat
      BY <3>1 DEF TypeOK
    <3> QED
      BY <1>6, <3>2 DEF SendByte, TypeOK
  <2> QED
    BY <1>6, <2>1, <2>2, <2>3 DEF SendByte, TypeOK
<1>7. CASE AckReadOff
  <2>1. cache' \in Flags /\ ack' \in BOOLEAN
    BY <1>7, <1>b, <1>c, <1>d DEF AckReadOff
  <2> QED
    BY <1>7, <2>1 DEF AckReadOff, TypeOK
<1>8. CASE PollWrite
  <2>1. at' \in 0 .. BlockBytes
    BY <1>8, <1>e DEF PollWrite
  <2> QED
    BY <1>8, <2>1 DEF PollWrite, TypeOK
<1>9. CASE CopyByte
  <2>1. cache' \in Flags
    BY <1>9, <1>b, <1>c DEF CopyByte
  <2>2. at \in 0 .. BlockBytes - 1 /\ at' \in 0 .. BlockBytes
    BY <1>9, <1>e DEF CopyByte, ServiceShape, TypeOK
  <2>3. buf' \in [Bytes -> Nat]
    <3>1. cbuf[IF Reset THEN 0 ELSE at] \in Nat
      BY <2>2, <1>e DEF TypeOK
    <3> QED
      BY <1>9, <3>1 DEF CopyByte, TypeOK
  <2>4. written' \in [Files -> [Bytes -> Nat]]
    <3>1. [b \in Bytes |-> IF Offset(b) \in 0 .. BlockBytes - 1
                            THEN cbuf[Offset(b)] ELSE written[file][b]]
            \in [Bytes -> Nat]
      <4>1. file \in Files
        BY <1>9 DEF CopyByte, ServiceShape, Serving
      <4> QED
        BY <4>1 DEF TypeOK
    <3> QED
      BY <1>9, <2>3, <3>1 DEF CopyByte, TypeOK
  <2>5. pc' = pc \/ pc' = "wr_ack"
    BY <1>9 DEF CopyByte
  <2> QED
    BY <1>9, <2>1, <2>2, <2>3, <2>4, <2>5 DEF CopyByte, TypeOK
<1>10. CASE AckWrite
  <2>1. cache' \in Flags /\ ack' \in BOOLEAN
    BY <1>10, <1>b, <1>c, <1>d DEF AckWrite
  <2> QED
    BY <1>10, <2>1 DEF AckWrite, TypeOK
<1>11. CASE AckWriteOff
  <2>1. cache' \in Flags /\ ack' \in BOOLEAN
    BY <1>11, <1>b, <1>c, <1>d DEF AckWriteOff
  <2> QED
    BY <1>11, <2>1 DEF AckWriteOff, TypeOK
<1>12. CASE PollFlush
  <2>1. iter' \in 0 .. IterSize
    BY <1>12, <1>e DEF PollFlush
  <2> QED
    BY <1>12, <2>1 DEF PollFlush, TypeOK
<1>13. CASE StartFlush
  <2>1. cache' \in Flags /\ cursor' \in 0 .. Size /\ pos' \in 0 .. Size
    BY <1>13, <1>b, <1>c, SizePositive DEF StartFlush
  <2> QED
    BY <1>13, <2>1 DEF StartFlush, TypeOK
<1>14. CASE FlushByte
  <2>1. cursor \in 0 .. Size - 1 /\ pos = cursor /\ iter \in 0 .. IterSize - 1
    BY <1>14, <1>e, SizePositive DEF FlushByte, FlushShape, Flushed, TypeOK
  <2>2. cursor' \in 0 .. Size /\ pos' \in 0 .. Size /\ iter' \in 0 .. IterSize
    BY <1>14, <2>1, <1>e, SizePositive DEF FlushByte
  <2>3. disk' \in [Files -> [Bytes -> Nat]]
    <3>1. buf[cursor] \in Nat
      BY <2>1 DEF TypeOK, Bytes
    <3> QED
      BY <1>14, <3>1 DEF FlushByte, TypeOK
  <2>4. pc' \in {"fl_clean", "out", pc}
    BY <1>14 DEF FlushByte
  <2> QED
    BY <1>14, <2>2, <2>3, <2>4 DEF FlushByte, TypeOK
<1>15. CASE MarkClean
  <2>1. cache' \in Flags
    BY <1>15, <1>b, <1>c DEF MarkClean
  <2> QED
    BY <1>15, <2>1 DEF MarkClean, TypeOK
<1>16. CASE PostReset
  <2>1. /\ cache' \in Flags /\ core' = "idle" /\ ack' = FALSE /\ mounted' = FALSE
        /\ dropped' \subseteq Files
        /\ UNCHANGED <<lba, cbuf, present>>
    <3>1. file \in Files \/ (~cache.dirty /\ pc \notin {"wr_byte", "wr_ack"})
      BY DEF ServiceShape, Serving
    <3> QED
      BY <1>16, <3>1, ResetType DEF PostReset
  <2> QED
    BY <1>16, <2>1 DEF PostReset, TypeOK
<1>17. CASE PostDone
  BY <1>17 DEF PostDone, TypeOK
<1>18. CASE \E l \in Lbas : QlRead(l)
  BY <1>18 DEF QlRead, TypeOK
<1>19. CASE \E l \in Lbas : QlWrite(l)
  <2>1. PICK l \in Lbas : QlWrite(l)
    BY <1>19
  <2>2. budget' \in [Events -> Nat]
    BY <2>1, SpendType DEF QlWrite, Events
  <2>3. cbuf' \in [0 .. BlockBytes - 1 -> Nat]
    <3>1. budget["write"] \in Nat
      BY DEF TypeOK, Events
    <3> QED
      BY <2>1, <3>1 DEF QlWrite
  <2> QED
    BY <2>1, <2>2, <2>3 DEF QlWrite, TypeOK
<1>20. CASE \E f \in Files : Pick(f)
  <2>1. PICK f \in Files : Pick(f)
    BY <1>20
  <2>2. disk[f] \in [Bytes -> Nat]
    BY DEF TypeOK
  <2>3. buf' \in [Bytes -> Nat] /\ written' \in [Files -> [Bytes -> Nat]]
    BY <2>1, <2>2 DEF Pick, TypeOK
  <2>4. dropped' \subseteq Files
    <3>1. cache.dirty => file \in Files
      BY DEF ServiceShape
    <3> QED
      BY <2>1, <3>1 DEF Pick, TypeOK
  <2>5. pos' \in 0 .. Size
    BY <2>1, SizePositive DEF Pick
  <2>6. mounted' \in BOOLEAN /\ present' \in BOOLEAN
    BY <2>1 DEF Pick
  <2> QED
    BY <2>1, <2>3, <2>4, <2>5, <2>6 DEF Pick, TypeOK
<1>21. CASE Select
  <2>1. budget' \in [Events -> Nat]
    BY <1>21, SpendType DEF Select, Events
  <2> QED
    BY <1>21, <2>1 DEF Select, TypeOK
<1>22. CASE SelectOther
  <2>1. budget' \in [Events -> Nat]
    BY <1>22, SpendType DEF SelectOther, Events
  <2> QED
    BY <1>22, <2>1 DEF SelectOther, TypeOK
<1>23. CASE Cancel
  BY <1>23 DEF Cancel, TypeOK
<1>24. CASE Press
  <2>1. /\ cache' \in Flags /\ core' = "idle" /\ ack' = FALSE /\ mounted' = FALSE
        /\ dropped' \subseteq Files
        /\ UNCHANGED <<lba, cbuf, present>>
    <3>1. file \in Files \/ (~cache.dirty /\ pc \notin {"wr_byte", "wr_ack"})
      BY DEF ServiceShape, Serving
    <3> QED
      BY <1>24, <3>1, ResetType DEF Press
  <2>2. budget' \in [Events -> Nat]
    BY <1>24, SpendType DEF Press, Events
  <2> QED
    BY <1>24, <2>1, <2>2 DEF Press, TypeOK
<1>25. CASE Release
  BY <1>25 DEF Release, TypeOK
<1>26. CASE FlushFatal
  <2>1. budget' \in [Events -> Nat]
    BY <1>26, SpendType DEF FlushFatal, Events
  <2> QED
    BY <1>26, <2>1 DEF FlushFatal, TypeOK
<1>27. CASE UNCHANGED vars
  BY <1>27 DEF vars, TypeOK
<1> QED
  BY StepCases, <1>1, <1>2, <1>3, <1>4, <1>5, <1>6, <1>7, <1>8, <1>9,
     <1>10, <1>11, <1>12, <1>13, <1>14, <1>15, <1>16, <1>17, <1>18, <1>19,
     <1>20, <1>21, <1>22, <1>23, <1>24, <1>25, <1>26, <1>27

\* A step keeps what a service relies on.
LEMMA ServiceStep ==
  TypeOK /\ ServiceShape /\ [Next]_vars => ServiceShape'
<1> SUFFICES ASSUME TypeOK, ServiceShape, [Next]_vars PROVE ServiceShape'
  OBVIOUS
<1>a. cache \in Flags
  BY DEF TypeOK
<1>b. ~Cleared.dirty /\ Edge.dirty = cache.dirty /\ ~CleanWritten.dirty
      /\ FlushingWritten.dirty = cache.dirty
  BY <1>a, EdgeFlags, CleanFlags
<1>c. \A c : SetCache(c) =>
        (Reset => cache' = Cleared) /\ (cache'.dirty => c.dirty)
  BY <1>b DEF SetCache
<1>e. BlockBytes \in Nat \ {0}
  BY ParametersAssumption
<1> USE DEF hwVars, coreVars, flushVars, imageVars, coreRest, menuRest, ServiceShape,
    Serving, Reset
<1>1. CASE Tick
  <2>1. (Reset => cache' = Cleared) /\ (cache'.dirty => cache.dirty)
    BY <1>1, <1>b, <1>c DEF Tick
  <2> QED
    BY <1>1, <2>1 DEF Tick
<1>2. CASE SeesAck
  BY <1>2, <1>e DEF SeesAck, TypeOK
<1>3. CASE SeesAckGone
  BY <1>3, <1>e DEF SeesAckGone, TypeOK
<1>4. CASE PollRead
  BY <1>4, <1>e DEF PollRead, TypeOK
<1>5. CASE AckRead
  <2>1. Reset => cache' = Cleared
    BY <1>5, <1>c DEF AckRead
  <2>2. ack' = (TRUE /\ ~Reset) /\ UNCHANGED <<button, mode, core, present, file>>
        /\ pc = "rd_ack" /\ pc' = "rd_byte"
    BY <1>5 DEF AckRead, SetAck
  <2>3. at' < BlockBytes
    BY <1>5, <1>e DEF AckRead
  <2>4. CASE Reset
    <3>1. ack' = FALSE
      BY <2>2, <2>4
    <3> QED
      BY <2>1, <2>2, <2>3, <2>4, <3>1
  <2>5. CASE ~Reset
    <3>1. ack' = TRUE
      BY <2>2, <2>5
    <3> QED
      BY <2>2, <2>3, <2>5, <3>1
  <2> QED
    BY <2>4, <2>5
<1>6. CASE SendByte
  <2>1. Reset => cache' = Cleared
    BY <1>6, <1>c DEF SendByte
  <2>2. at' = at + 1 /\ at < BlockBytes /\ at \in Nat
        /\ (pc' = pc => at' < BlockBytes)
    BY <1>6, <1>e DEF SendByte, TypeOK
  <2>3. pc' \in {pc, "rd_done"}
    BY <1>6 DEF SendByte
  <2> QED
    BY <1>6, <2>1, <2>2, <2>3 DEF SendByte
<1>7. CASE AckReadOff
  <2>1. Reset => cache' = Cleared
    BY <1>7, <1>c DEF AckReadOff
  <2> QED
    BY <1>7, <2>1, <1>e DEF AckReadOff, SetAck
<1>8. CASE PollWrite
  BY <1>8, <1>e DEF PollWrite, TypeOK
<1>9. CASE CopyByte
  <2>1. Reset => cache' = Cleared
    BY <1>9, <1>c DEF CopyByte
  <2>2. at' = at + 1 /\ at < BlockBytes /\ at \in Nat
        /\ (pc' = pc => at' < BlockBytes)
    BY <1>9, <1>e DEF CopyByte, TypeOK
  <2>3. pc' \in {pc, "wr_ack"}
    BY <1>9 DEF CopyByte
  <2> QED
    BY <1>9, <2>1, <2>2, <2>3 DEF CopyByte
<1>10. CASE AckWrite
  <2>1. Reset => cache' = Cleared
    BY <1>10, <1>c DEF AckWrite
  <2> QED
    BY <1>10, <2>1, <1>e DEF AckWrite, SetAck
<1>11. CASE AckWriteOff
  <2>1. Reset => cache' = Cleared
    BY <1>11, <1>c DEF AckWriteOff
  <2> QED
    BY <1>11, <2>1, <1>e DEF AckWriteOff, SetAck
<1>12. CASE PollFlush
  BY <1>12, <1>e DEF PollFlush, TypeOK
<1>13. CASE StartFlush
  <2>1. (Reset => cache' = Cleared) /\ (cache'.dirty => cache.dirty)
    BY <1>13, <1>b, <1>c DEF StartFlush
  <2> QED
    BY <1>13, <2>1 DEF StartFlush
<1>14. CASE FlushByte
  BY <1>14, <1>e DEF FlushByte, TypeOK
<1>15. CASE MarkClean
  <2>1. (Reset => cache' = Cleared) /\ (cache'.dirty => cache.dirty)
    BY <1>15, <1>b, <1>c DEF MarkClean
  <2> QED
    BY <1>15, <2>1 DEF MarkClean
<1>16. CASE PostReset
  BY <1>16, <1>b DEF PostReset, ResetCore
<1>17. CASE PostDone
  BY <1>17, <1>e DEF PostDone, TypeOK
<1>18. CASE \E l \in Lbas : QlRead(l)
  BY <1>18, <1>e DEF QlRead, TypeOK
<1>19. CASE \E l \in Lbas : QlWrite(l)
  BY <1>19, <1>e DEF QlWrite, TypeOK
<1>20. CASE \E f \in Files : Pick(f)
  BY <1>20, <1>e DEF Pick, TypeOK
<1>21. CASE Select
  BY <1>21, <1>e DEF Select, TypeOK
<1>22. CASE SelectOther
  BY <1>22, <1>e DEF SelectOther, TypeOK
<1>23. CASE Cancel
  BY <1>23, <1>e DEF Cancel, TypeOK
<1>24. CASE Press
  BY <1>24, <1>b DEF Press, ResetCore
<1>25. CASE Release
  BY <1>25, <1>e DEF Release, TypeOK
<1>26. CASE FlushFatal
  BY <1>26, <1>e DEF FlushFatal, TypeOK
<1>27. CASE UNCHANGED vars
  BY <1>27, <1>e DEF vars, TypeOK
<1> QED
  BY StepCases, <1>1, <1>2, <1>3, <1>4, <1>5, <1>6, <1>7, <1>8, <1>9,
     <1>10, <1>11, <1>12, <1>13, <1>14, <1>15, <1>16, <1>17, <1>18, <1>19,
     <1>20, <1>21, <1>22, <1>23, <1>24, <1>25, <1>26, <1>27

-----------------------------------------------------------------------------
(* The image buffer.                                                        *)

\* Outside the two copy loops only the buffer and the history count.
LEMMA BufferOut ==
  ASSUME BufferShape, UNCHANGED <<file, buf, written>>, pc # "wr_byte",
         pc' \notin {"wr_byte", "rd_byte", "rd_done"}
  PROVE  BufferShape'
BY DEF BufferShape

\* Within a copy loop nothing but the loop counts, and a reset that begins.
LEMMA BufferStands ==
  ASSUME BufferShape, UNCHANGED <<lba, cbuf, file, buf, written, pc, at>>,
         Reset => Reset' \/ pc \notin Serving
  PROVE  BufferShape'
<1>1. file' \in Files /\ pc' # "wr_byte" => buf' = written'[file']
  BY DEF BufferShape
<1>2. ASSUME pc' = "wr_byte"
      PROVE  \A b \in Bytes : IF Offset(b)' \in 0 .. at' - 1
                               THEN Reset' \/ buf'[b] = cbuf'[Offset(b)']
                               ELSE buf'[b] = written'[file'][b]
  <2>1. Reset => Reset'
    BY <1>2 DEF Serving
  <2>2. \A b \in Bytes : Offset(b)' = Offset(b)
    BY DEF Offset
  <2> QED
    BY <1>2, <2>1, <2>2 DEF BufferShape
<1>3. ASSUME pc' \in {"rd_byte", "rd_done"}, ~Reset',
             NEW i \in 0 .. BlockBytes - 1, i < at' \/ pc' = "rd_done"
      PROVE  cbuf'[i] = buf'[Place(lba', i)]
  <2>1. ~Reset
    BY <1>3 DEF Serving
  <2> QED
    BY <1>3, <2>1 DEF BufferShape
<1> QED
  BY <1>1, <1>2, <1>3 DEF BufferShape

\* A byte sent is the buffer's, at the sector's place.
LEMMA SendByteBuffer ==
  ASSUME TypeOK, ServiceShape, BufferShape, SendByte
  PROVE  BufferShape'
<1>a. at \in 0 .. BlockBytes - 1
  BY ParametersAssumption DEF SendByte, ServiceShape, TypeOK
<1>0. /\ pc = "rd_byte" /\ at \in 0 .. BlockBytes - 1 /\ at' = at + 1
      /\ UNCHANGED <<lba, file, buf, written, button, mode>>
      /\ pc' = (IF at + 1 = BlockBytes THEN "rd_done" ELSE "rd_byte")
  BY <1>a DEF SendByte, imageVars
<1>1. file' \in Files /\ pc' # "wr_byte" => buf' = written'[file']
  BY <1>0 DEF BufferShape
<1>2. ASSUME ~Reset', NEW i \in 0 .. BlockBytes - 1, i < at' \/ pc' = "rd_done"
      PROVE  cbuf'[i] = buf'[Place(lba', i)]
  <2>1. ~Reset
    BY <1>0, <1>2 DEF Reset
  <2>2. cbuf' = [cbuf EXCEPT ![at] = buf[Place(lba, at)]]
    BY <1>0, <2>1 DEF SendByte, ServiceShape
  <2>3. i < at \/ i = at
    BY <1>0, <1>2
  <2>4. CASE i < at
    <3>1. cbuf[i] = buf[Place(lba, i)]
      BY <1>0, <2>1, <2>4 DEF BufferShape
    <3> QED
      BY <1>0, <2>2, <2>4, <3>1 DEF TypeOK
  <2>5. CASE i = at
    BY <1>0, <2>2, <2>5 DEF TypeOK
  <2> QED
    BY <2>3, <2>4, <2>5
<1>3. pc' \in {"rd_byte", "rd_done"}
  BY <1>0
<1> QED
  BY <1>1, <1>2, <1>3 DEF BufferShape

\* A byte copied is at its place, and with the last one the buffer holds the
\* sector the QL wrote and is otherwise what it was.
LEMMA CopyByteBuffer ==
  ASSUME TypeOK, ServiceShape, BufferShape, CopyByte
  PROVE  BufferShape'
<1>a. at \in 0 .. BlockBytes - 1
  BY ParametersAssumption DEF CopyByte, ServiceShape, TypeOK
<1>b. file \in Files /\ lba \in Lbas
  BY DEF CopyByte, ServiceShape, Serving, TypeOK
<1>0. /\ pc = "wr_byte" /\ at \in 0 .. BlockBytes - 1 /\ at' = at + 1
      /\ UNCHANGED <<lba, cbuf, file, button, mode>>
      /\ file \in Files /\ lba \in Lbas
      /\ buf' = [buf EXCEPT ![Place(lba, at)] = cbuf[IF Reset THEN 0 ELSE at]]
  BY <1>a, <1>b DEF CopyByte, coreVars
<1>1. Reset' = Reset
  BY <1>0 DEF Reset
<1>2. Place(lba, at) \in Bytes
  BY <1>0, PlaceInImage
<1>3. ASSUME NEW b \in Bytes
      PROVE  /\ Offset(b)' = Offset(b) /\ Offset(b) \in Int
             /\ Offset(b) = at => Reset \/ buf'[b] = cbuf[Offset(b)]
             /\ Offset(b) # at => buf'[b] = buf[b]
             /\ Offset(b) \in 0 .. at - 1 => Reset \/ buf[b] = cbuf[Offset(b)]
             /\ Offset(b) \notin 0 .. at - 1 => buf[b] = written[file][b]
  <2>1. Offset(b) \in Int /\ (Offset(b) = at <=> b = Place(lba, at))
    BY <1>0, OffsetPlace
  <2>2. Offset(b)' = Offset(b)
    BY <1>0 DEF Offset
  <2>3. Offset(b) = at => Reset \/ buf'[b] = cbuf[Offset(b)]
    BY <1>0, <1>2, <2>1 DEF TypeOK
  <2>4. Offset(b) # at => buf'[b] = buf[b]
    BY <1>0, <1>2, <2>1 DEF TypeOK
  <2>5. IF Offset(b) \in 0 .. at - 1
          THEN Reset \/ buf[b] = cbuf[Offset(b)]
          ELSE buf[b] = written[file][b]
    BY <1>0 DEF BufferShape
  <2> QED
    BY <2>1, <2>2, <2>3, <2>4, <2>5
<1>4. CASE at + 1 # BlockBytes
  <2>1. pc' = "wr_byte" /\ written' = written
    BY <1>0, <1>4 DEF CopyByte
  <2>2. ASSUME NEW b \in Bytes
        PROVE  IF Offset(b)' \in 0 .. at' - 1
                 THEN Reset' \/ buf'[b] = cbuf'[Offset(b)']
                 ELSE buf'[b] = written'[file'][b]
    <3>1. CASE Offset(b) \in 0 .. at - 1
      BY <1>0, <1>1, <1>3, <2>1, <3>1
    <3>2. CASE Offset(b) = at
      BY <1>0, <1>1, <1>3, <2>1, <3>2
    <3>3. CASE Offset(b) \notin 0 .. at - 1 /\ Offset(b) # at
      BY <1>0, <1>1, <1>3, <2>1, <3>3
    <3> QED
      BY <3>1, <3>2, <3>3
  <2> QED
    BY <2>1, <2>2 DEF BufferShape
<1>5. CASE at + 1 = BlockBytes
  <2>1. /\ pc' = "wr_ack"
        /\ written' = [written EXCEPT ![file] =
             IF Reset THEN buf'
             ELSE [b \in Bytes |-> IF Offset(b) \in 0 .. BlockBytes - 1
                                     THEN cbuf[Offset(b)] ELSE written[file][b]]]
    BY <1>0, <1>5 DEF CopyByte
  <2>2. buf' = written'[file]
    <3>1. CASE Reset
      BY <1>0, <2>1, <3>1 DEF TypeOK
    <3>2. CASE ~Reset
      <4> DEFINE new == [b \in Bytes |-> IF Offset(b) \in 0 .. BlockBytes - 1
                                    THEN cbuf[Offset(b)] ELSE written[file][b]]
      <4>1. written'[file] = new
        BY <1>0, <2>1, <3>2 DEF TypeOK
      <4>2. ASSUME NEW b \in Bytes
            PROVE  buf'[b] = (IF Offset(b) \in 0 .. BlockBytes - 1
                                THEN cbuf[Offset(b)] ELSE written[file][b])
        <5>1. CASE Offset(b) \in 0 .. at - 1
          BY <1>0, <1>3, <1>5, <3>2, <5>1
        <5>2. CASE Offset(b) = at
          BY <1>0, <1>3, <1>5, <3>2, <5>2
        <5>3. CASE Offset(b) \notin 0 .. at - 1 /\ Offset(b) # at
          BY <1>0, <1>3, <1>5, <5>3
        <5> QED
          BY <5>1, <5>2, <5>3
      <4>3. buf' = [b \in Bytes |-> buf'[b]]
        BY <1>0, <1>2 DEF TypeOK
      <4>4. new = [b \in Bytes |-> buf'[b]]
        BY <4>2
      <4> QED
        BY <4>1, <4>3, <4>4
    <3> QED
      BY <3>1, <3>2
  <2> QED
    BY <1>0, <2>1, <2>2 DEF BufferShape
<1> QED
  BY <1>4, <1>5

\* A step keeps what the two buffers hold.
LEMMA BufferStep ==
  TypeOK /\ ServiceShape /\ BufferShape /\ [Next]_vars => BufferShape'
<1> SUFFICES ASSUME TypeOK, ServiceShape, BufferShape, [Next]_vars
             PROVE  BufferShape'
  OBVIOUS
<1> USE DEF hwVars, coreVars, flushVars, imageVars, coreRest, menuRest
<1>1. CASE Tick
  BY <1>1, BufferStands DEF Tick, Reset
<1>2. CASE SeesAck
  BY <1>2, BufferStands DEF SeesAck, Reset
<1>3. CASE SeesAckGone
  BY <1>3, BufferStands DEF SeesAckGone, Reset
<1>4. CASE PollRead
  BY <1>4, BufferOut DEF PollRead
<1>5. CASE AckRead
  <2>1. /\ UNCHANGED <<file, buf, written>> /\ at' = 0
        /\ pc = "rd_ack" /\ pc' = "rd_byte"
    BY <1>5 DEF AckRead
  <2> QED
    BY <2>1 DEF BufferShape
<1>6. CASE SendByte
  BY <1>6, SendByteBuffer
<1>7. CASE AckReadOff
  BY <1>7, BufferOut DEF AckReadOff
<1>8. CASE PollWrite
  <2>1. /\ UNCHANGED <<lba, cbuf, file, buf, written>> /\ at' = 0
        /\ pc = "poll_wr" /\ pc' \in {"wr_byte", "poll_fl"}
        /\ pc' = "wr_byte" => file \in Files
    BY <1>8 DEF PollWrite, ServiceShape
  <2>2. file \in Files => buf = written[file]
    BY <2>1 DEF BufferShape
  <2>3. CASE pc' = "wr_byte"
    <3>1. 0 .. at' - 1 = {}
      BY <2>1
    <3> QED
      BY <2>1, <2>2, <2>3, <3>1 DEF BufferShape
  <2>4. CASE pc' = "poll_fl"
    BY <2>1, <2>4, BufferOut
  <2> QED
    BY <2>1, <2>3, <2>4
<1>9. CASE CopyByte
  BY <1>9, CopyByteBuffer
<1>10. CASE AckWrite
  BY <1>10, BufferOut DEF AckWrite
<1>11. CASE AckWriteOff
  BY <1>11, BufferOut DEF AckWriteOff
<1>12. CASE PollFlush
  BY <1>12, BufferOut DEF PollFlush
<1>13. CASE StartFlush
  BY <1>13, BufferOut DEF StartFlush
<1>14. CASE FlushByte
  BY <1>14, BufferOut DEF FlushByte
<1>15. CASE MarkClean
  BY <1>15, BufferOut DEF MarkClean
<1>16. CASE PostReset
  <2>1. pc = "out" /\ pc' = "out" /\ UNCHANGED <<file, buf, written>>
    BY <1>16 DEF PostReset, ServiceShape
  <2> QED
    BY <2>1, BufferOut
<1>17. CASE PostDone
  <2>1. pc = "out" /\ pc' = "out" /\ UNCHANGED <<file, buf, written>>
    BY <1>17 DEF PostDone, ServiceShape
  <2> QED
    BY <2>1, BufferOut
<1>18. CASE \E l \in Lbas : QlRead(l)
  <2>1. pc \notin {"wr_byte", "rd_byte", "rd_done"} /\ UNCHANGED <<pc, file, buf, written>>
    BY <1>18 DEF QlRead, ServiceShape
  <2> QED
    BY <2>1, BufferOut
<1>19. CASE \E l \in Lbas : QlWrite(l)
  <2>1. pc \notin {"wr_byte", "rd_byte", "rd_done"} /\ UNCHANGED <<pc, file, buf, written>>
    BY <1>19 DEF QlWrite, ServiceShape
  <2> QED
    BY <2>1, BufferOut
<1>20. CASE \E f \in Files : Pick(f)
  <2>1. PICK f \in Files : Pick(f)
    BY <1>20
  <2>2. buf' = written'[file'] /\ pc' = "out"
    BY <2>1 DEF Pick, TypeOK
  <2> QED
    BY <2>2 DEF BufferShape
<1>21. CASE Select
  <2>1. pc = "out" /\ pc' = "out" /\ UNCHANGED <<file, buf, written>>
    BY <1>21 DEF Select, ServiceShape
  <2> QED
    BY <2>1, BufferOut
<1>22. CASE SelectOther
  <2>1. pc = "out" /\ pc' = "out" /\ UNCHANGED <<file, buf, written>>
    BY <1>22 DEF SelectOther, ServiceShape
  <2> QED
    BY <2>1, BufferOut
<1>23. CASE Cancel
  <2>1. pc = "out" /\ pc' = "out" /\ UNCHANGED <<file, buf, written>>
    BY <1>23 DEF Cancel, ServiceShape
  <2> QED
    BY <2>1, BufferOut
<1>24. CASE Press
  BY <1>24, BufferStands DEF Press, ResetCore, Reset
<1>25. CASE Release
  BY <1>25, BufferStands DEF Release, ResetCore, Reset
<1>26. CASE FlushFatal
  BY <1>26, BufferOut DEF FlushFatal
<1>27. CASE UNCHANGED vars
  BY <1>27, BufferStands DEF vars, Reset
<1> QED
  BY StepCases, <1>1, <1>2, <1>3, <1>4, <1>5, <1>6, <1>7, <1>8, <1>9,
     <1>10, <1>11, <1>12, <1>13, <1>14, <1>15, <1>16, <1>17, <1>18, <1>19,
     <1>20, <1>21, <1>22, <1>23, <1>24, <1>25, <1>26, <1>27

-----------------------------------------------------------------------------
(* The flush.                                                               *)

\* A step that leaves positions and bytes alone has to show the rest.
LEMMA FlushFrame ==
  ASSUME FlushShape, UNCHANGED <<pos, cursor, disk, file, buf>>,
         Changing' => Reset' \/ cache'.latch \/ (cache'.dirty /\ ~cache'.flushing),
         pc' \in {"wr_byte", "wr_ack"} /\ Reset' => file \in dropped',
         pc' = "fl_byte" => Flushed /\ iter' < IterSize,
         pc' = "fl_clean" => pc = "fl_clean",
         cache'.flushing /\ mode' \in {"run", "browse"} =>
           Flushed \/ Changing' \/ pc' = "fl_clean"
  PROVE  FlushShape'
<1>1. Flushed' = Flushed
  BY DEF Flushed
<1> QED
  BY <1>1 DEF FlushShape

\* What the steps of a service make of the flags, under reset or not.
LEMMA ServiceFlags ==
  ASSUME TypeOK, ServiceShape
  PROVE  /\ SetCache(Edge) =>
              /\ cache'.flushing => cache.flushing
              /\ cache'.dirty = cache.dirty
              /\ cache.dirty /\ ~cache.flushing => ~cache'.flushing
              /\ ~Reset /\ (cache.latch \/ core = "wr") =>
                   cache'.latch \/ (cache'.dirty /\ ~cache'.flushing)
         /\ SetCache(AckWritten) =>
              /\ cache'.flushing => cache.flushing
              /\ cache.dirty => cache'.dirty
              /\ Reset => ~cache'.flushing
              /\ cache.latch \/ (cache.dirty /\ ~cache.flushing) => ~cache'.flushing
              /\ ~Reset /\ (cache.latch \/ cache.dirty) => cache'.dirty
<1>0. cache \in Flags /\ (Reset => cache = Cleared)
  BY DEF TypeOK, ServiceShape
<1>1. ~Cleared.dirty /\ ~Cleared.flushing
  BY <1>0, CleanFlags
<1>2. ASSUME SetCache(Edge)
      PROVE  /\ cache'.flushing => cache.flushing
             /\ cache'.dirty = cache.dirty
             /\ cache.dirty /\ ~cache.flushing => ~cache'.flushing
             /\ ~Reset /\ (cache.latch \/ core = "wr") =>
                  cache'.latch \/ (cache'.dirty /\ ~cache'.flushing)
  <2>1. CASE Reset
    <3>1. cache' = Cleared /\ cache = Cleared
      BY <1>0, <1>2, <2>1 DEF SetCache
    <3> QED
      BY <3>1, <1>1, <2>1
  <2>2. CASE ~Reset
    <3>1. cache' = Edge
      BY <1>2, <2>2 DEF SetCache
    <3> QED
      BY <3>1, <1>0, EdgeFlags
  <2> QED
    BY <2>1, <2>2
<1>3. ASSUME SetCache(AckWritten)
      PROVE  /\ cache'.flushing => cache.flushing
             /\ cache.dirty => cache'.dirty
             /\ Reset => ~cache'.flushing
             /\ cache.latch \/ (cache.dirty /\ ~cache.flushing) => ~cache'.flushing
             /\ ~Reset /\ (cache.latch \/ cache.dirty) => cache'.dirty
  <2>1. CASE Reset
    <3>1. cache' = Cleared /\ cache = Cleared
      BY <1>0, <1>3, <2>1 DEF SetCache
    <3> QED
      BY <3>1, <1>1, <2>1
  <2>2. CASE ~Reset
    <3>1. cache' = AckWritten
      BY <1>3, <2>2 DEF SetCache
    <3> QED
      BY <3>1, <1>0, <2>2, AckFlags
  <2> QED
    BY <2>1, <2>2
<1> QED
  BY <1>2, <1>3

\* A byte flushed: the flushed part grows by it, up to the whole image.
LEMMA FlushByteShape ==
  ASSUME TypeOK, ServiceShape, FlushShape, FlushByte
  PROVE  FlushShape'
<1>1. /\ pc = "fl_byte" /\ pos = cursor /\ cursor \in 0 .. Size - 1 /\ file \in Files
      /\ iter \in 0 .. IterSize - 1
  BY ParametersAssumption, SizePositive
     DEF FlushByte, FlushShape, Flushed, ServiceShape, TypeOK
<1>2. /\ disk' = [disk EXCEPT ![file][pos] = buf[cursor]]
      /\ pos' = pos + 1 /\ cursor' = cursor + 1 /\ iter' = iter + 1
      /\ UNCHANGED <<cache, mode, file, buf>>
  BY DEF FlushByte, hwVars
<1>3. ASSUME NEW b \in Bytes, b < cursor'
      PROVE  disk'[file'][b] = buf'[b]
  <2>1. b = cursor \/ (b < cursor /\ b # cursor)
    BY <1>1, <1>2, <1>3 DEF Bytes
  <2>2. b < cursor => disk[file][b] = buf[b]
    BY <1>1 DEF FlushShape, Flushed
  <2> QED
    BY <1>1, <1>2, <2>1, <2>2 DEF TypeOK
<1>4. CASE cursor + 1 = Size
  <2>1. pc' = "fl_clean"
    BY <1>4 DEF FlushByte
  <2>2. \A b \in Bytes : b < cursor'
    BY <1>1, <1>2, <1>4, SizePositive DEF Bytes
  <2>3. \A b \in Bytes : disk'[file'][b] = buf'[b]
    BY <2>2, <1>3
  <2> QED
    BY <2>1, <2>3 DEF FlushShape, Changing
<1>5. CASE cursor + 1 # Size
  <2>1. pc' \in {"fl_byte", "out"} /\ (pc' = "fl_byte" => iter + 1 # IterSize)
    BY <1>1, <1>5 DEF FlushByte
  <2>2. pos' = cursor' /\ cursor' < Size
    BY <1>1, <1>2, <1>5, SizePositive
  <2>3. Flushed'
    BY <1>3, <2>2 DEF Flushed
  <2>4. pc' = "fl_byte" => iter' < IterSize
    BY <1>1, <1>2, <2>1, ParametersAssumption
  <2> QED
    BY <2>1, <2>3, <2>4 DEF FlushShape, Changing
<1> QED
  BY <1>4, <1>5

\* A step keeps the flush where it is, and what a write sets in motion.
LEMMA FlushStep ==
  TypeOK /\ ServiceShape /\ FlushShape /\ [Next]_vars => FlushShape'
<1> SUFFICES ASSUME TypeOK, ServiceShape, FlushShape, [Next]_vars
             PROVE  FlushShape'
  OBVIOUS
<1>a. cache \in Flags /\ ~Cleared.flushing /\ ~CleanWritten.flushing
  BY CleanFlags DEF TypeOK
<1> USE DEF hwVars, coreVars, flushVars, imageVars, coreRest, menuRest
<1>1. CASE Tick
  <2>1. UNCHANGED <<pos, cursor, disk, file, buf>> /\ UNCHANGED <<mode, button, pc, at, iter, dropped>>
    BY <1>1 DEF Tick
  <2>2. /\ cache'.flushing => cache.flushing
        /\ cache.dirty /\ ~cache.flushing => cache'.dirty /\ ~cache'.flushing
        /\ ~Reset /\ (cache.latch \/ core = "wr") =>
             cache'.latch \/ (cache'.dirty /\ ~cache'.flushing)
    BY <1>1, ServiceFlags DEF Tick
  <2>3. Changing' => Reset' \/ cache'.latch \/ (cache'.dirty /\ ~cache'.flushing)
    BY <2>1, <2>2 DEF Changing, FlushShape, Reset
  <2> QED
    BY <2>1, <2>2, <2>3, FlushFrame DEF FlushShape, Changing, Reset
<1>2. CASE SeesAck
  <2>1. UNCHANGED <<pos, cursor, disk, file, buf>>
        /\ UNCHANGED <<cache, mode, button, pc, at, iter, dropped>>
    BY <1>2 DEF SeesAck
  <2> QED
    BY <2>1, FlushFrame DEF FlushShape, Changing, Reset
<1>3. CASE SeesAckGone
  <2>1. UNCHANGED <<pos, cursor, disk, file, buf>>
        /\ UNCHANGED <<cache, mode, button, pc, at, iter, dropped>>
    BY <1>3 DEF SeesAckGone
  <2> QED
    BY <2>1, FlushFrame DEF FlushShape, Changing, Reset
<1>4. CASE PollRead
  <2>1. UNCHANGED <<pos, cursor, disk, file, buf>> /\ UNCHANGED <<cache, mode>>
        /\ pc = "out" /\ pc' \in {"rd_ack", "poll_wr"}
    BY <1>4 DEF PollRead
  <2> QED
    BY <2>1, FlushFrame DEF FlushShape, Changing
<1>5. CASE AckRead
  <2>1. UNCHANGED <<pos, cursor, disk, file, buf>> /\ mode' = mode
        /\ pc = "rd_ack" /\ pc' = "rd_byte"
    BY <1>5 DEF AckRead
  <2>2. cache'.flushing => cache.flushing
    BY <1>5, ServiceFlags DEF AckRead
  <2> QED
    BY <2>1, <2>2, FlushFrame DEF FlushShape, Changing
<1>6. CASE SendByte
  <2>1. UNCHANGED <<pos, cursor, disk, file, buf>> /\ mode' = mode
        /\ pc = "rd_byte" /\ pc' \in {"rd_byte", "rd_done"}
    BY <1>6 DEF SendByte
  <2>2. cache'.flushing => cache.flushing
    BY <1>6, ServiceFlags DEF SendByte
  <2> QED
    BY <2>1, <2>2, FlushFrame DEF FlushShape, Changing
<1>7. CASE AckReadOff
  <2>1. UNCHANGED <<pos, cursor, disk, file, buf>> /\ mode' = mode
        /\ pc = "rd_done" /\ pc' = "poll_wr"
    BY <1>7 DEF AckReadOff
  <2>2. cache'.flushing => cache.flushing
    BY <1>7, ServiceFlags DEF AckReadOff
  <2> QED
    BY <2>1, <2>2, FlushFrame DEF FlushShape, Changing
<1>8. CASE PollWrite
  <2>1. UNCHANGED <<pos, cursor, disk, file, buf>> /\ UNCHANGED <<cache, mode, button>>
        /\ pc = "poll_wr" /\ pc' \in {"wr_byte", "poll_fl"} /\ at' = 0
        /\ (pc' = "wr_byte" => ~Reset')
    BY <1>8 DEF PollWrite, ServiceShape, Reset
  <2> QED
    BY <2>1, FlushFrame DEF FlushShape, Changing
<1>9. CASE CopyByte
  <2>1. /\ UNCHANGED <<pos, cursor, disk, file, mode, button, dropped>>
        /\ pc = "wr_byte" /\ pc' \in {"wr_byte", "wr_ack"} /\ at' > 0
    BY <1>9 DEF CopyByte, TypeOK
  <2>2. Changing'
    BY <2>1 DEF Changing
  <2>3. ~Reset => cache'.latch \/ (cache'.dirty /\ ~cache'.flushing)
    BY <1>9, <2>1, ServiceFlags DEF CopyByte, ServiceShape
  <2>4. Reset' = Reset
    BY <2>1 DEF Reset
  <2> QED
    BY <2>1, <2>2, <2>3, <2>4 DEF FlushShape
<1>10. CASE AckWrite
  <2>1. UNCHANGED <<pos, cursor, disk, file, buf>> /\ mode' = mode
        /\ pc = "wr_ack" /\ pc' = "wr_done"
    BY <1>10 DEF AckWrite
  <2>2. ~cache'.flushing
    <3>1. Reset \/ cache.latch \/ (cache.dirty /\ ~cache.flushing)
      BY <2>1 DEF FlushShape, Changing
    <3> QED
      BY <1>10, <3>1, ServiceFlags DEF AckWrite
  <2> QED
    BY <2>1, <2>2, FlushFrame DEF FlushShape, Changing
<1>11. CASE AckWriteOff
  <2>1. UNCHANGED <<pos, cursor, disk, file, buf>> /\ mode' = mode
        /\ pc = "wr_done" /\ pc' = "poll_fl"
    BY <1>11 DEF AckWriteOff
  <2>2. cache'.flushing => cache.flushing
    BY <1>11, ServiceFlags DEF AckWriteOff
  <2> QED
    BY <2>1, <2>2, FlushFrame DEF FlushShape, Changing
<1>12. CASE PollFlush
  <2>1. UNCHANGED <<pos, cursor, disk, file, buf>> /\ UNCHANGED <<cache, mode>> /\ iter' = 0
        /\ pc = "poll_fl" /\ pc' \in {"fl_byte", "fl_start", "out"}
        /\ (pc' = "fl_byte" => cache.flushing) /\ mode \in {"run", "browse"}
    BY <1>12 DEF PollFlush, ServiceShape
  <2>2. cache.flushing => Flushed
    BY <2>1 DEF FlushShape, Changing
  <2>3. iter' < IterSize
    BY <2>1, ParametersAssumption
  <2> QED
    BY <2>1, <2>2, <2>3, FlushFrame DEF Changing
<1>13. CASE StartFlush
  <2>1. pos' = 0 /\ cursor' = 0 /\ pc' = "out"
    BY <1>13 DEF StartFlush
  <2>2. Flushed'
    BY <2>1, SizePositive DEF Flushed, Bytes
  <2> QED
    BY <2>1, <2>2 DEF FlushShape, Changing
<1>14. CASE FlushByte
  BY <1>14, FlushByteShape
<1>15. CASE MarkClean
  <2>1. UNCHANGED <<pos, cursor, disk, file, buf>> /\ pc' = "out" /\ ~cache'.flushing
    BY <1>15, <1>a DEF MarkClean, SetCache
  <2> QED
    BY <2>1, FlushFrame DEF Changing
<1>16. CASE PostReset
  <2>1. UNCHANGED <<pos, cursor, disk, file, buf>> /\ pc' = "out" /\ ~cache'.flushing
    BY <1>16, <1>a DEF PostReset, ResetCore, ServiceShape
  <2> QED
    BY <2>1, FlushFrame DEF Changing
<1>17. CASE PostDone
  <2>1. UNCHANGED <<pos, cursor, disk, file, buf>> /\ pc' = "out" /\ ~cache'.flushing
    BY <1>17, <1>a DEF PostDone, ServiceShape, Reset
  <2> QED
    BY <2>1, FlushFrame DEF Changing
<1>18. CASE \E l \in Lbas : QlRead(l)
  <2>1. UNCHANGED <<pos, cursor, disk, file, buf>>
        /\ UNCHANGED <<cache, mode, button, pc, at, iter, dropped>>
    BY <1>18 DEF QlRead
  <2> QED
    BY <2>1, FlushFrame DEF FlushShape, Changing, Reset
<1>19. CASE \E l \in Lbas : QlWrite(l)
  <2>1. UNCHANGED <<pos, cursor, disk, file, buf>>
        /\ UNCHANGED <<cache, mode, button, pc, at, iter, dropped>>
    BY <1>19 DEF QlWrite
  <2> QED
    BY <2>1, FlushFrame DEF FlushShape, Changing, Reset
<1>20. CASE \E f \in Files : Pick(f)
  <2>1. pc' = "out" /\ mode' = "post"
    BY <1>20 DEF Pick, ServiceShape
  <2> QED
    BY <2>1 DEF FlushShape, Changing
<1>21. CASE Select
  <2>1. UNCHANGED <<pos, cursor, disk, file, buf>> /\ UNCHANGED cache
        /\ pc = "out" /\ pc' = "out" /\ mode \in {"run", "browse"}
    BY <1>21 DEF Select
  <2> QED
    BY <2>1, FlushFrame DEF FlushShape, Changing
<1>22. CASE SelectOther
  <2>1. UNCHANGED <<pos, cursor, disk, file, buf>> /\ UNCHANGED cache
        /\ pc = "out" /\ pc' = "out" /\ mode \in {"run", "browse"}
    BY <1>22 DEF SelectOther
  <2> QED
    BY <2>1, FlushFrame DEF FlushShape, Changing
<1>23. CASE Cancel
  <2>1. UNCHANGED <<pos, cursor, disk, file, buf>> /\ UNCHANGED cache
        /\ pc = "out" /\ pc' = "out" /\ mode \in {"run", "browse"}
    BY <1>23 DEF Cancel
  <2> QED
    BY <2>1, FlushFrame DEF FlushShape, Changing
<1>24. CASE Press
  <2>1. UNCHANGED <<pos, cursor, disk, file, buf>> /\ UNCHANGED <<pc, at, iter>> /\ Reset'
        /\ ~cache'.flushing
    BY <1>24, <1>a DEF Press, ResetCore, Reset
  <2>2. pc' \in {"wr_byte", "wr_ack"} => file \in dropped'
    BY <1>24, <2>1 DEF Press, ResetCore
  <2> QED
    BY <2>1, <2>2, FlushFrame DEF FlushShape
<1>25. CASE Release
  <2>1. UNCHANGED <<pos, cursor, disk, file, buf>> /\ UNCHANGED <<cache, mode, pc, at, iter>>
        /\ pc \notin {"wr_byte", "wr_ack"}
    BY <1>25 DEF Release, Serving
  <2> QED
    BY <2>1, FlushFrame DEF FlushShape, Changing
<1>26. CASE FlushFatal
  <2>1. UNCHANGED <<pos, cursor, disk, file, buf>> /\ pc' = "out" /\ mode' = "fatal"
    BY <1>26 DEF FlushFatal
  <2> QED
    BY <2>1, FlushFrame DEF Changing
<1>27. CASE UNCHANGED vars
  <2>1. UNCHANGED <<pos, cursor, disk, file, buf>>
        /\ UNCHANGED <<cache, mode, button, pc, at, iter, dropped>>
    BY <1>27 DEF vars
  <2> QED
    BY <2>1, FlushFrame DEF FlushShape, Changing, Reset
<1> QED
  BY StepCases, <1>1, <1>2, <1>3, <1>4, <1>5, <1>6, <1>7, <1>8, <1>9,
     <1>10, <1>11, <1>12, <1>13, <1>14, <1>15, <1>16, <1>17, <1>18, <1>19,
     <1>20, <1>21, <1>22, <1>23, <1>24, <1>25, <1>26, <1>27

-----------------------------------------------------------------------------
(* Unsaved writes.                                                          *)

\* A step that leaves the files alone has to keep track of the mounted one.
LEMMA UnsavedFrame ==
  ASSUME UnsavedAccounted, UNCHANGED <<file, disk, written>>,
         dropped \subseteq dropped',
         cache.dirty \/ pc = "wr_ack" =>
           cache'.dirty \/ pc' = "wr_ack" \/ file \in dropped'
  PROVE  UnsavedAccounted'
BY DEF UnsavedAccounted

\* A byte flushed is the buffer's, which is what the QL wrote: a file that is
\* in step stays so.
LEMMA FlushByteUnsaved ==
  ASSUME TypeOK, ServiceShape, BufferShape, FlushShape, UnsavedAccounted, FlushByte
  PROVE  UnsavedAccounted'
<1>1. /\ pc = "fl_byte" /\ pos = cursor /\ cursor \in 0 .. Size - 1 /\ file \in Files
      /\ disk' = [disk EXCEPT ![file][pos] = buf[cursor]]
      /\ UNCHANGED <<cache, file, written, dropped>>
  BY SizePositive DEF FlushByte, FlushShape, Flushed, ServiceShape, TypeOK, hwVars
<1>2. buf = written[file] /\ pos \in Bytes
  BY <1>1 DEF BufferShape, Bytes
<1>3. ASSUME NEW f \in Files, disk[f] = written[f]
      PROVE  disk'[f] = written'[f]
  <2>1. CASE f = file
    <3>1. disk'[f] = [disk[f] EXCEPT ![pos] = disk[f][pos]]
      BY <1>1, <1>2, <1>3, <2>1 DEF TypeOK
    <3>2. disk'[f] = disk[f]
      BY <3>1 DEF TypeOK
    <3> QED
      BY <1>1, <1>3, <3>2
  <2>2. CASE f # file
    BY <1>1, <1>3, <2>2 DEF TypeOK
  <2> QED
    BY <2>1, <2>2
<1> QED
  BY <1>1, <1>3 DEF UnsavedAccounted

\* When the drive is marked clean the file is in step.
LEMMA MarkCleanUnsaved ==
  ASSUME TypeOK, ServiceShape, BufferShape, FlushShape, UnsavedAccounted, MarkClean
  PROVE  UnsavedAccounted'
<1>1. /\ pc = "fl_clean" /\ file \in Files /\ dropped' = dropped \ {file}
      /\ UNCHANGED <<file, disk, written>>
  BY DEF MarkClean, ServiceShape, imageVars
<1>2. buf = written[file] /\ \A b \in Bytes : disk[file][b] = buf[b]
  BY <1>1 DEF BufferShape, FlushShape
<1>3. disk[file] = written[file]
  <2>1. disk[file] \in [Bytes -> Nat] /\ buf \in [Bytes -> Nat]
    BY <1>1 DEF TypeOK
  <2> QED
    BY <1>2, <2>1
<1> QED
  BY <1>1, <1>3 DEF UnsavedAccounted

\* A step leaves no unsaved write unaccounted for.
LEMMA UnsavedStep ==
  TypeOK /\ ServiceShape /\ BufferShape /\ FlushShape /\ UnsavedAccounted
    /\ [Next]_vars => UnsavedAccounted'
<1> SUFFICES ASSUME TypeOK, ServiceShape, BufferShape, FlushShape,
                    UnsavedAccounted, [Next]_vars
             PROVE  UnsavedAccounted'
  OBVIOUS
<1>a. cache \in Flags
  BY DEF TypeOK
<1> USE DEF hwVars, coreVars, flushVars, imageVars, coreRest, menuRest
<1>1. CASE Tick
  <2>1. UNCHANGED <<file, disk, written, dropped>> /\ pc' = pc
    BY <1>1 DEF Tick
  <2>2. cache.dirty => cache'.dirty
    BY <1>1, ServiceFlags DEF Tick
  <2> QED
    BY <2>1, <2>2, UnsavedFrame
<1>2. CASE SeesAck
  <2>1. UNCHANGED <<file, disk, written, dropped>> /\ UNCHANGED <<cache, pc>>
    BY <1>2 DEF SeesAck
  <2> QED
    BY <2>1, UnsavedFrame
<1>3. CASE SeesAckGone
  <2>1. UNCHANGED <<file, disk, written, dropped>> /\ UNCHANGED <<cache, pc>>
    BY <1>3 DEF SeesAckGone
  <2> QED
    BY <2>1, UnsavedFrame
<1>4. CASE PollRead
  <2>1. UNCHANGED <<file, disk, written, dropped>> /\ UNCHANGED cache
        /\ pc # "wr_ack"
    BY <1>4 DEF PollRead
  <2> QED
    BY <2>1, UnsavedFrame
<1>5. CASE AckRead
  <2>1. UNCHANGED <<file, disk, written, dropped>> /\ pc = "rd_ack"
    BY <1>5 DEF AckRead
  <2>2. cache.dirty => cache'.dirty
    BY <1>5, ServiceFlags DEF AckRead
  <2> QED
    BY <2>1, <2>2, UnsavedFrame
<1>6. CASE SendByte
  <2>1. UNCHANGED <<file, disk, written, dropped>> /\ pc = "rd_byte"
    BY <1>6 DEF SendByte
  <2>2. cache.dirty => cache'.dirty
    BY <1>6, ServiceFlags DEF SendByte
  <2> QED
    BY <2>1, <2>2, UnsavedFrame
<1>7. CASE AckReadOff
  <2>1. UNCHANGED <<file, disk, written, dropped>> /\ pc = "rd_done"
    BY <1>7 DEF AckReadOff
  <2>2. cache.dirty => cache'.dirty
    BY <1>7, ServiceFlags DEF AckReadOff
  <2> QED
    BY <2>1, <2>2, UnsavedFrame
<1>8. CASE PollWrite
  <2>1. UNCHANGED <<file, disk, written, dropped>> /\ UNCHANGED cache
        /\ pc # "wr_ack"
    BY <1>8 DEF PollWrite
  <2> QED
    BY <2>1, UnsavedFrame
<1>9. CASE CopyByte
  <2>1. UNCHANGED <<file, disk, dropped>> /\ pc = "wr_byte"
    BY <1>9 DEF CopyByte
  <2>2. cache'.dirty = cache.dirty
    BY <1>9, ServiceFlags DEF CopyByte
  <2>3. CASE pc' = "wr_ack"
    <3>1. \A f \in Files : f # file => written'[f] = written[f]
      BY <1>9 DEF CopyByte, TypeOK
    <3> QED
      BY <2>1, <2>3, <3>1 DEF UnsavedAccounted
  <2>4. CASE pc' # "wr_ack"
    <3>1. written' = written
      BY <1>9, <2>4 DEF CopyByte
    <3> QED
      BY <2>1, <2>2, <3>1, UnsavedFrame
  <2> QED
    BY <2>3, <2>4
<1>10. CASE AckWrite
  <2>1. UNCHANGED <<file, disk, written, dropped>> /\ pc = "wr_ack"
    BY <1>10 DEF AckWrite
  <2>2. Reset => file \in dropped
    BY <2>1 DEF FlushShape
  <2>3. ~Reset => cache'.dirty
    BY <1>10, <2>1, ServiceFlags DEF AckWrite, FlushShape, Changing
  <2> QED
    BY <2>1, <2>2, <2>3, UnsavedFrame
<1>11. CASE AckWriteOff
  <2>1. UNCHANGED <<file, disk, written, dropped>> /\ pc = "wr_done"
    BY <1>11 DEF AckWriteOff
  <2>2. cache.dirty => cache'.dirty
    BY <1>11, ServiceFlags DEF AckWriteOff
  <2> QED
    BY <2>1, <2>2, UnsavedFrame
<1>12. CASE PollFlush
  <2>1. UNCHANGED <<file, disk, written, dropped>> /\ UNCHANGED cache
        /\ pc # "wr_ack"
    BY <1>12 DEF PollFlush
  <2> QED
    BY <2>1, UnsavedFrame
<1>13. CASE StartFlush
  <2>1. UNCHANGED <<file, disk, written, dropped>> /\ pc = "fl_start"
        /\ SetCache(FlushingWritten)
    BY <1>13 DEF StartFlush
  <2>2. cache.dirty => cache'.dirty
    <3>1. CASE Reset
      BY <1>a, <3>1, CleanFlags DEF ServiceShape
    <3>2. CASE ~Reset
      BY <1>a, <2>1, <3>2, CleanFlags DEF SetCache
    <3> QED
      BY <3>1, <3>2
  <2> QED
    BY <2>1, <2>2, UnsavedFrame
<1>14. CASE FlushByte
  BY <1>14, FlushByteUnsaved
<1>15. CASE MarkClean
  BY <1>15, MarkCleanUnsaved
<1>16. CASE PostReset
  <2>1. UNCHANGED <<file, disk, written>> /\ dropped \subseteq dropped'
        /\ (cache.dirty \/ pc = "wr_ack" => file \in dropped')
    BY <1>16 DEF PostReset, ResetCore
  <2> QED
    BY <2>1, UnsavedFrame
<1>17. CASE PostDone
  <2>1. UNCHANGED <<file, disk, written, dropped>> /\ UNCHANGED <<cache, pc>>
    BY <1>17 DEF PostDone
  <2> QED
    BY <2>1, UnsavedFrame
<1>18. CASE \E l \in Lbas : QlRead(l)
  <2>1. UNCHANGED <<file, disk, written, dropped>> /\ UNCHANGED <<cache, pc>>
    BY <1>18 DEF QlRead
  <2> QED
    BY <2>1, UnsavedFrame
<1>19. CASE \E l \in Lbas : QlWrite(l)
  <2>1. UNCHANGED <<file, disk, written, dropped>> /\ UNCHANGED <<cache, pc>>
    BY <1>19 DEF QlWrite
  <2> QED
    BY <2>1, UnsavedFrame
<1>20. CASE \E f \in Files : Pick(f)
  <2>1. PICK f \in Files : Pick(f)
    BY <1>20
  <2>2. /\ pc = "out" /\ file' = f /\ disk' = disk /\ cache' = cache
        /\ written' = [written EXCEPT ![f] = disk[f]]
        /\ dropped' = (IF cache.dirty THEN dropped \union {file} ELSE dropped) \ {f}
    BY <2>1 DEF Pick
  <2>3. disk'[f] = written'[f]
    BY <2>2 DEF TypeOK
  <2>4. ASSUME NEW g \in Files, g # f
        PROVE  g \in dropped' \/ disk'[g] = written'[g]
    <3>1. \/ g = file /\ cache.dirty
          \/ g \in dropped
          \/ disk[g] = written[g]
      BY <2>2 DEF UnsavedAccounted
    <3>2. written'[g] = written[g]
      BY <2>2, <2>4 DEF TypeOK
    <3> QED
      BY <2>2, <2>4, <3>1, <3>2
  <2> QED
    BY <2>3, <2>4 DEF UnsavedAccounted
<1>21. CASE Select
  <2>1. UNCHANGED <<file, disk, written, dropped>> /\ UNCHANGED cache
        /\ pc # "wr_ack"
    BY <1>21 DEF Select
  <2> QED
    BY <2>1, UnsavedFrame
<1>22. CASE SelectOther
  <2>1. UNCHANGED <<file, disk, written, dropped>> /\ UNCHANGED cache
        /\ pc # "wr_ack"
    BY <1>22 DEF SelectOther
  <2> QED
    BY <2>1, UnsavedFrame
<1>23. CASE Cancel
  <2>1. UNCHANGED <<file, disk, written, dropped>> /\ UNCHANGED cache
        /\ pc # "wr_ack"
    BY <1>23 DEF Cancel
  <2> QED
    BY <2>1, UnsavedFrame
<1>24. CASE Press
  <2>1. UNCHANGED <<file, disk, written>> /\ dropped \subseteq dropped'
        /\ (cache.dirty \/ pc = "wr_ack" => file \in dropped')
    BY <1>24 DEF Press, ResetCore
  <2> QED
    BY <2>1, UnsavedFrame
<1>25. CASE Release
  <2>1. UNCHANGED <<file, disk, written, dropped>> /\ UNCHANGED <<cache, pc>>
    BY <1>25 DEF Release
  <2> QED
    BY <2>1, UnsavedFrame
<1>26. CASE FlushFatal
  <2>1. UNCHANGED <<file, disk, written, dropped>> /\ UNCHANGED cache
        /\ pc # "wr_ack"
    BY <1>26 DEF FlushFatal
  <2> QED
    BY <2>1, UnsavedFrame
<1>27. CASE UNCHANGED vars
  <2>1. UNCHANGED <<file, disk, written, dropped>> /\ UNCHANGED <<cache, pc>>
    BY <1>27 DEF vars
  <2> QED
    BY <2>1, UnsavedFrame
<1> QED
  BY StepCases, <1>1, <1>2, <1>3, <1>4, <1>5, <1>6, <1>7, <1>8, <1>9,
     <1>10, <1>11, <1>12, <1>13, <1>14, <1>15, <1>16, <1>17, <1>18, <1>19,
     <1>20, <1>21, <1>22, <1>23, <1>24, <1>25, <1>26, <1>27

-----------------------------------------------------------------------------
(* The theorems.                                                            *)

\* Before the first mount nothing is dirty, asked for or under way, and every
\* file is what it was.
LEMMA InitInvariant == Init => IInv
<1> SUFFICES ASSUME Init PROVE IInv
  OBVIOUS
<1> USE ParametersAssumption
<1>1. TypeOK
  <2>1. cache \in Flags
    <3>1. Delay \in 0 .. Delay
      OBVIOUS
    <3> QED
      BY <3>1 DEF Init, Cleared, Flags
  <2>2. lba \in Lbas /\ at \in 0 .. BlockBytes /\ iter \in 0 .. IterSize
    BY DEF Init, Lbas
  <2>3. cursor \in 0 .. Size /\ pos \in 0 .. Size
    BY SizePositive DEF Init
  <2>4. disk \in [Files -> [Bytes -> Nat]]
    <3>1. \A f \in Files : [b \in Bytes |-> Original[f]] \in [Bytes -> Nat]
      OBVIOUS
    <3> QED
      BY <3>1 DEF Init
  <2>5. cbuf \in [0 .. BlockBytes - 1 -> Nat] /\ buf \in [Bytes -> Nat]
    BY DEF Init
  <2>6. /\ {ack, mounted, present, button} \subseteq BOOLEAN
        /\ core = "idle" /\ mode = "run" /\ pc = "out" /\ file = NoFile
        /\ written = disk /\ budget \in [Events -> Nat] /\ dropped \subseteq Files
    BY DEF Init
  <2> QED
    BY <2>1, <2>2, <2>3, <2>4, <2>5, <2>6 DEF TypeOK
<1>2. ServiceShape
  BY DEF Init, ServiceShape, Reset, Cleared, Serving
<1>3. BufferShape
  BY DEF Init, BufferShape
<1>4. FlushShape
  BY DEF Init, FlushShape, Changing, Cleared
<1>5. UnsavedAccounted
  BY DEF Init, UnsavedAccounted
<1> QED
  BY <1>1, <1>2, <1>3, <1>4, <1>5 DEF IInv

\* The inductive invariant of the virtual drive: types, what a service of
\* HANDLE_IO relies on, what the buffers hold and where the flush is.
THEOREM Inductive == Spec => []IInv
<1>1. Init => IInv
  BY InitInvariant
<1>2. IInv /\ [Next]_vars => IInv'
  BY TypeStep, ServiceStep, BufferStep, FlushStep, UnsavedStep DEF IInv
<1> QED
  BY <1>1, <1>2, PTL DEF Spec

\* Every variable of the virtual drive and of HANDLE_IO keeps its type.
THEOREM TypeCorrect == Spec => []TypeOK
<1>1. IInv => TypeOK
  BY DEF IInv
<1> QED
  BY <1>1, Inductive, PTL

\* An image file has what the QL wrote unless the drive is dirty, or a reset or
\* a mount took the flag: writes that interrupt FLUSH_CACHE are not forgotten.
THEOREM UnsavedIsAccounted == Spec => []UnsavedAccounted
<1>1. IInv => UnsavedAccounted
  BY DEF IInv
<1> QED
  BY <1>1, Inductive, PTL

\* The QL reads back what it wrote: a sector sent by HANDLE_DRV_RD is the
\* image's, flushed or not.
THEOREM ReadsAreCurrent == Spec => []ReadsCurrent
<1>1. IInv => ReadsCurrent
  <2> SUFFICES ASSUME IInv, pc = "rd_done", core = "rd_acked"
               PROVE  cbuf = Sector(written[file], lba)
    BY DEF ReadsCurrent
  <2>1. ~Reset /\ file \in Files
    BY DEF IInv, ServiceShape, Serving
  <2>2. buf = written[file]
    BY <2>1 DEF IInv, BufferShape
  <2>3. \A i \in 0 .. BlockBytes - 1 : cbuf[i] = written[file][Place(lba, i)]
    BY <2>1, <2>2 DEF IInv, BufferShape
  <2>4. cbuf = [i \in 0 .. BlockBytes - 1 |-> cbuf[i]]
    BY DEF IInv, TypeOK
  <2> QED
    BY <2>3, <2>4 DEF Sector
<1> QED
  BY <1>1, Inductive, PTL

\* FLUSH_CACHE writes a byte of the mounted image to its own place in its file
\* and nothing else writes to the files.
THEOREM FlushIsInPlace == Spec => FlushInPlace
<1>1. ASSUME IInv, [Next]_vars, NEW f \in Files, NEW b \in Bytes,
             disk'[f][b] # disk[f][b]
      PROVE  f = file /\ b = cursor /\ pc = "fl_byte" /\ disk'[f][b] = buf[b]
  <2>1. FlushByte
    BY <1>1, StepCases
       DEF Tick, SeesAck, SeesAckGone, PollRead, AckRead, SendByte, AckReadOff,
       PollWrite, CopyByte, AckWrite, AckWriteOff, PollFlush, StartFlush, MarkClean,
       PostReset, PostDone, QlRead, QlWrite, Pick, Select, SelectOther, Cancel,
       Press, Release, FlushFatal, vars, imageVars, coreRest
  <2>2. pc = "fl_byte" /\ disk' = [disk EXCEPT ![file][pos] = buf[cursor]]
    BY <2>1 DEF FlushByte
  <2>3. pos = cursor
    BY <1>1, <2>2 DEF IInv, FlushShape, Flushed
  <2>4. f = file /\ b = cursor
    BY <1>1, <2>2, <2>3 DEF IInv, TypeOK
  <2>5. disk'[f][b] = buf[b]
    BY <1>1, <2>2, <2>3, <2>4 DEF IInv, TypeOK
  <2> QED
    BY <2>2, <2>4, <2>5
<1>2. IInv /\ [Next]_vars =>
        [\A f \in Files, b \in Bytes :
           disk'[f][b] # disk[f][b] =>
             f = file /\ b = cursor /\ pc = "fl_byte" /\ disk'[f][b] = buf[b]]_vars
  BY <1>1
<1> QED
  BY <1>2, Inductive, PTL DEF Spec, FlushInPlace

-----------------------------------------------------------------------------
(* A request gets on.                                                      *)

\* Where two places on the way first differ.
LEMMA FurtherBy ==
  ASSUME NEW p, NEW q, NEW i \in 1 .. 4, p[i] < q[i],
         \A j \in 1 .. i - 1 : p[j] = q[j]
  PROVE  FurtherOn(p, q)
BY DEF FurtherOn

\* The same, place by place.
LEMMA FurtherAt ==
  ASSUME NEW p, NEW q,
         \/ p[1] < q[1]
         \/ p[1] = q[1] /\ p[2] < q[2]
         \/ p[1] = q[1] /\ p[2] = q[2] /\ p[3] < q[3]
         \/ p[1] = q[1] /\ p[2] = q[2] /\ p[3] = q[3] /\ p[4] < q[4]
  PROVE  FurtherOn(p, q)
<1>1. CASE p[1] < q[1]
  BY <1>1, FurtherBy
<1>2. CASE p[1] = q[1] /\ p[2] < q[2]
  <2>1. \A j \in 1 .. 2 - 1 : p[j] = q[j]
    BY <1>2
  <2> QED
    BY <1>2, <2>1, FurtherBy
<1>3. CASE p[1] = q[1] /\ p[2] = q[2] /\ p[3] < q[3]
  <2>1. \A j \in 1 .. 3 - 1 : p[j] = q[j]
    BY <1>3
  <2> QED
    BY <1>3, <2>1, FurtherBy
<1>4. CASE p[1] = q[1] /\ p[2] = q[2] /\ p[3] = q[3] /\ p[4] < q[4]
  <2>1. \A j \in 1 .. 4 - 1 : p[j] = q[j]
    BY <1>4
  <2> QED
    BY <1>4, <2>1, FurtherBy
<1> QED
  BY <1>1, <1>2, <1>3, <1>4

\* Until a write's acknowledge is taken back the card holds its request.
WriteHeld == pc = "wr_done" => Reset \/ (ack /\ core \in {"wr", "wr_acked"})

LEMMA WriteHeldStep ==
  ASSUME TypeOK, ServiceShape, WriteHeld, [Next]_vars
  PROVE  WriteHeld'
<1> USE DEF Reset
<1>1. CASE AckWrite
  <2>1. UNCHANGED <<button, mode, core>> /\ ack' = ~Reset /\ (Reset \/ core = "wr")
    BY <1>1 DEF AckWrite, SetAck, ServiceShape, coreVars
  <2> QED
    BY <2>1 DEF WriteHeld
<1>2. CASE pc' # "wr_done"
  BY <1>2 DEF WriteHeld
<1>3. CASE pc' = pc /\ UNCHANGED <<button, mode, ack>> /\ (core' = core \/ SeesAck \/ SeesAckGone)
  <2>1. core' = core \/ (core = "wr" /\ core' = "wr_acked") \/ (core = "rd") \/ ~ack
    BY <1>3 DEF SeesAck, SeesAckGone
  <2> QED
    BY <1>3, <2>1 DEF WriteHeld
<1>4. CASE Press
  BY <1>4 DEF Press, WriteHeld
<1>5. CASE Release
  BY <1>5 DEF Release, Serving, WriteHeld
<1>6. CASE Tick \/ SendByte \/ CopyByte
  BY <1>2, <1>3, <1>6 DEF Tick, SendByte, CopyByte, coreVars, hwVars
<1>7. CASE SeesAck \/ SeesAckGone
  BY <1>3, <1>7 DEF SeesAck, SeesAckGone, coreRest, hwVars
<1>8. CASE \/ PollRead \/ AckRead \/ AckReadOff \/ PollWrite \/ AckWriteOff \/ PollFlush
           \/ StartFlush \/ FlushByte \/ MarkClean \/ FlushFatal
  BY <1>2, <1>8 DEF PollRead, AckRead, AckReadOff, PollWrite, AckWriteOff, PollFlush,
                    StartFlush, FlushByte, MarkClean, FlushFatal
<1>9. CASE Select \/ SelectOther \/ Cancel \/ \E f \in Files : Pick(f)
  BY <1>2, <1>9 DEF Select, SelectOther, Cancel, Pick, menuRest
<1>10. CASE PostReset \/ PostDone
  <2>1. pc = "out" /\ pc' = pc
    BY <1>10 DEF PostReset, PostDone, menuRest, ServiceShape
  <2> QED
    BY <1>2, <2>1
<1>11. CASE \E l \in Lbas : QlRead(l) \/ QlWrite(l)
  <2>1. core = "idle" /\ ~Reset /\ pc' = pc
    BY <1>11 DEF QlRead, QlWrite, coreRest
  <2>2. pc # "wr_done"
    BY <2>1 DEF WriteHeld
  <2> QED
    BY <1>2, <2>1, <2>2
<1>12. CASE UNCHANGED vars
  BY <1>3, <1>12 DEF vars, hwVars, coreVars
<1> QED
  BY <1>1, <1>4, <1>5, <1>6, <1>7, <1>8, <1>9, <1>10, <1>11, <1>12
     DEF Next, Core, Firmware, Outside

LEMMA WriteIsHeld == Spec => []WriteHeld
<1>1. Init => WriteHeld
  BY DEF Init, WriteHeld
<1>2. IInv /\ WriteHeld /\ [Next]_vars => WriteHeld'
  BY WriteHeldStep DEF IInv
<1> QED
  BY <1>1, <1>2, Inductive, PTL DEF Spec

\* Each step of the Shell and of the card shows.
LEMMA WorkShows ==
  ASSUME TypeOK, Core \/ Firmware
  PROVE  \/ core' # core \/ pc' # pc \/ at' # at \/ iter' # iter
         \/ mode \in {"post", "reset"} /\ mode' # mode
<1>1. CASE Core
  BY <1>1 DEF Core, SeesAck, SeesAckGone
<1>2. CASE PollRead \/ AckRead \/ AckReadOff \/ PollWrite \/ AckWrite \/ AckWriteOff
           \/ PollFlush \/ StartFlush \/ MarkClean \/ PostReset \/ PostDone
  BY <1>2 DEF PollRead, AckRead, AckReadOff, PollWrite, AckWrite, AckWriteOff, PollFlush,
              StartFlush, MarkClean, PostReset, PostDone
<1>3. CASE SendByte \/ CopyByte \/ FlushByte
  <2>1. at' = at + 1 \/ iter' = iter + 1
    BY <1>3 DEF SendByte, CopyByte, FlushByte
  <2>2. at \in Nat /\ iter \in Nat
    BY ParametersAssumption DEF TypeOK
  <2> QED
    BY <2>1, <2>2
<1> QED
  BY <1>1, <1>2, <1>3 DEF Firmware

\* Where each step of the card finds and leaves a request.
LEMMA CoreOnItsWay ==
  ASSUME TypeOK, ServiceShape, Core, core # "idle", core' # "idle"
  PROVE  FurtherOn(Way, Way')
<1>1. /\ core \in {"rd", "wr"} /\ ack /\ UNCHANGED <<ack, pc, at, iter>>
      /\ core' = IF core = "rd" THEN "rd_acked" ELSE "wr_acked"
  BY DEF Core, SeesAck, SeesAckGone, coreRest, hwVars, flushVars
<1>2. Way[1] = 0 /\ Way'[1] = 0 /\ Way[4] = 0 /\ Way'[4] = 1
  BY <1>1 DEF Way, Withdrawn
<1>3. Way'[2] = Way[2] /\ Way'[3] = Way[3]
  <2>1. Turn' = Turn
    <3>1. CASE core = "rd"
      BY <1>1, <3>1 DEF Turn
    <3>2. CASE core = "wr"
      BY <1>1, <3>2 DEF Turn
    <3> QED
      BY <1>1, <3>1, <3>2
  <2> QED
    BY <1>1, <2>1 DEF Way
<1> QED
  BY <1>2, <1>3, FurtherAt

\* Where each step of the Shell finds and leaves a request.
LEMMA ShellOnItsWay ==
  ASSUME TypeOK, ServiceShape, WriteHeld, Firmware, core # "idle", core' # "idle"
  PROVE  FurtherOn(Way, Way')
<1>1. ~Reset
  BY DEF ServiceShape
<1>2. core \in {"rd", "wr", "rd_acked", "wr_acked"} /\ ack \in BOOLEAN
      /\ at \in Nat /\ iter \in Nat
  BY ParametersAssumption DEF TypeOK
<1>3. /\ Way[1] = (IF Withdrawn THEN 1 ELSE 0) /\ Way'[1] = (IF Withdrawn' THEN 1 ELSE 0)
      /\ Way[2] = Turn /\ Way'[2] = Turn'
      /\ Way[3] = (IF pc = "fl_byte" THEN iter
                   ELSE IF pc \in {"rd_byte", "wr_byte"} THEN at ELSE 0)
      /\ Way'[3] = (IF pc' = "fl_byte" THEN iter'
                    ELSE IF pc' \in {"rd_byte", "wr_byte"} THEN at' ELSE 0)
  BY DEF Way
<1>4. ASSUME UNCHANGED <<core, ack>>, Turn < Turn'
      PROVE  FurtherOn(Way, Way')
  <2>1. Way[1] = Way'[1]
    BY <1>3, <1>4 DEF Withdrawn
  <2> QED
    BY <1>3, <1>4, <2>1, FurtherAt
<1>5. ASSUME UNCHANGED <<core, ack>>, Turn = Turn', Way[3] < Way'[3]
      PROVE  FurtherOn(Way, Way')
  <2>1. Way[1] = Way'[1]
    BY <1>3, <1>5 DEF Withdrawn
  <2> QED
    BY <1>3, <1>5, <2>1, FurtherAt
<1>6. ASSUME ~Withdrawn, Withdrawn'
      PROVE  FurtherOn(Way, Way')
  <2>1. Way[1] = 0 /\ Way'[1] = 1
    BY <1>3, <1>6
  <2> QED
    BY <2>1, FurtherAt
<1>7. CASE PollRead
  <2>1. /\ pc = "out" /\ Settled /\ UNCHANGED <<core, ack>>
        /\ pc' = IF core = "rd" THEN "rd_ack" ELSE "poll_wr"
    BY <1>7 DEF PollRead, coreVars, hwVars
  <2>2. ~ack
    BY <2>1 DEF ServiceShape
  <2>3. core \in {"rd", "wr"}
    BY <1>2, <2>1, <2>2 DEF Settled
  <2>4. Turn = 5 /\ Turn' = 6
    BY <2>1, <2>3 DEF Turn
  <2> QED
    BY <1>4, <2>1, <2>4
<1>8. CASE AckRead
  <2>1. pc = "rd_ack" /\ pc' = "rd_byte" /\ core = "rd" /\ core' = core
    BY <1>1, <1>8 DEF AckRead, ServiceShape, coreVars
  <2>2. ~Withdrawn /\ ~Withdrawn'
    BY <2>1 DEF Withdrawn
  <2>3. Turn = 6 /\ Turn' = 7
    BY <2>1 DEF Turn
  <2> QED
    BY <1>3, <2>2, <2>3, FurtherAt
<1>9. CASE SendByte \/ CopyByte
  <2>1. /\ pc \in {"rd_byte", "wr_byte"} /\ pc' \in {pc, "rd_done", "wr_ack"} /\ at' = at + 1
        /\ UNCHANGED <<core, ack>>
    BY <1>9 DEF SendByte, CopyByte, coreVars
  <2>2. CASE pc' = pc
    <3>1. Turn = 7 /\ Turn' = 7
      BY <2>1, <2>2 DEF Turn
    <3>2. Way[3] = at /\ Way'[3] = at + 1
      BY <1>3, <2>1, <2>2
    <3>3. Way[3] < Way'[3]
      BY <1>2, <3>2
    <3> QED
      BY <1>5, <2>1, <3>1, <3>3
  <2>3. CASE pc' # pc
    <3>1. Turn = 7 /\ Turn' = 8
      BY <2>1, <2>3 DEF Turn
    <3> QED
      BY <1>4, <2>1, <3>1
  <2> QED
    BY <2>2, <2>3
<1>10. CASE AckReadOff \/ AckWriteOff
  <2>1. /\ pc \in {"rd_done", "wr_done"} /\ Seen /\ ~ack' /\ core' = core
    BY <1>10 DEF AckReadOff, AckWriteOff, SetAck, coreVars
  <2>2. ack
    BY <1>1, <2>1 DEF ServiceShape, WriteHeld
  <2>3. core \in {"rd_acked", "wr_acked"}
    BY <1>2, <2>1, <2>2 DEF Seen
  <2> QED
    BY <1>6, <2>1, <2>2, <2>3 DEF Withdrawn
<1>11. CASE PollWrite
  <2>1. /\ pc = "poll_wr" /\ Settled /\ UNCHANGED <<core, ack>>
        /\ pc' = IF core = "wr" THEN "wr_byte" ELSE "poll_fl"
    BY <1>11 DEF PollWrite, coreVars, hwVars
  <2>2. ~ack
    BY <2>1 DEF ServiceShape
  <2>3. core \in {"rd", "wr"}
    BY <1>2, <2>1, <2>2 DEF Settled
  <2>4. CASE core = "rd"
    <3>1. Turn = 1 /\ Turn' = 2
      BY <2>1, <2>4 DEF Turn
    <3> QED
      BY <1>4, <2>1, <3>1
  <2>5. CASE core = "wr"
    <3>1. Turn = 6 /\ Turn' = 7
      BY <2>1, <2>5 DEF Turn
    <3> QED
      BY <1>4, <2>1, <3>1
  <2> QED
    BY <2>3, <2>4, <2>5
<1>12. CASE AckWrite
  <2>1. pc = "wr_ack" /\ pc' = "wr_done" /\ core = "wr" /\ core' = core
    BY <1>1, <1>12 DEF AckWrite, ServiceShape, coreVars
  <2>2. ~Withdrawn /\ ~Withdrawn'
    BY <2>1 DEF Withdrawn
  <2>3. Turn = 8 /\ Turn' = 9
    BY <2>1 DEF Turn
  <2> QED
    BY <1>3, <2>2, <2>3, FurtherAt
<1>13. CASE PollFlush \/ StartFlush \/ MarkClean
  <2>1. /\ UNCHANGED <<core, ack>>
        /\ \/ pc = "poll_fl" /\ pc' \in {"fl_byte", "fl_start", "out"}
           \/ pc \in {"fl_start", "fl_clean"} /\ pc' = "out"
    BY <1>13 DEF PollFlush, StartFlush, MarkClean, coreVars, hwVars
  <2>2. Turn < Turn'
    BY <2>1 DEF Turn
  <2> QED
    BY <1>4, <2>1, <2>2
<1>14. CASE FlushByte
  <2>1. /\ pc = "fl_byte" /\ pc' \in {pc, "fl_clean", "out"} /\ iter' = iter + 1
        /\ UNCHANGED <<core, ack>>
    BY <1>14 DEF FlushByte, coreVars, hwVars
  <2>2. CASE pc' = pc
    <3>1. Turn = 3 /\ Turn' = 3
      BY <2>1, <2>2 DEF Turn
    <3>2. Way[3] = iter /\ Way'[3] = iter + 1
      BY <1>3, <2>1, <2>2
    <3>3. Way[3] < Way'[3]
      BY <1>2, <3>2
    <3> QED
      BY <1>5, <2>1, <3>1, <3>3
  <2>3. CASE pc' # pc
    <3>1. Turn < Turn'
      BY <2>1, <2>3 DEF Turn
    <3> QED
      BY <1>4, <2>1, <3>1
  <2> QED
    BY <2>2, <2>3
<1>15. ~PostReset /\ ~PostDone
  BY <1>1 DEF PostReset, ResetCore, PostDone, Reset
<1> QED
  BY <1>7, <1>8, <1>9, <1>10, <1>11, <1>12, <1>13, <1>14, <1>15 DEF Firmware

\* A request of the core gets on with every step of the Shell and of the card,
\* whether the flush is under way or not, and nobody sets it back.
THEOREM RequestsAdvance == Spec => RequestAdvances
<1> DEFINE Act == core # "idle" /\ core' # "idle" /\ mode' # "fatal" =>
                    IF Core \/ Firmware THEN FurtherOn(Way, Way') ELSE Way' = Way
<1>1. ASSUME IInv, WriteHeld, Next
      PROVE  Act
  <2> SUFFICES ASSUME core # "idle", core' # "idle", mode' # "fatal"
               PROVE  IF Core \/ Firmware THEN FurtherOn(Way, Way') ELSE Way' = Way
    OBVIOUS
  <2>1. TypeOK /\ ServiceShape /\ ~Reset
    BY <1>1 DEF IInv, ServiceShape
  <2>2. CASE Core
    BY <2>1, <2>2, CoreOnItsWay
  <2>3. CASE Firmware
    BY <1>1, <2>1, <2>3, ShellOnItsWay
  <2>4. CASE Tick \/ Select \/ SelectOther \/ Cancel \/ \E f \in Files : Pick(f)
    <3>1. /\ UNCHANGED <<core, ack, pc, at, iter>>
          /\ mode' = mode \/ mode \in {"run", "browse"}
      BY <2>4 DEF Tick, Select, SelectOther, Cancel, Pick, menuRest, coreVars, hwVars, flushVars
    <3>2. ~(Core \/ Firmware)
      BY <2>1, <3>1, WorkShows
    <3>3. Way' = Way
      BY <3>1 DEF Way, Turn, Withdrawn
    <3> QED
      BY <3>2, <3>3
  <2>5. ~(Press \/ Release \/ FlushFatal \/ \E l \in Lbas : QlRead(l) \/ QlWrite(l))
    BY <2>1 DEF Press, ResetCore, Release, FlushFatal, QlRead, QlWrite, Reset
  <2> QED
    BY <1>1, <2>2, <2>3, <2>4, <2>5 DEF Next, Outside
<1>2. IInv /\ WriteHeld /\ [Next]_vars => [Act]_vars
  BY <1>1
<1> QED
  BY <1>2, Inductive, WriteIsHeld, PTL DEF Spec, RequestAdvances

\* Out of reset and FATAL, the card or the Shell has a step to take.
LEMMA WorkToDo ==
  ASSUME IInv, ~Reset, mode # "fatal"
  PROVE  SomebodyMoves
<1>1. TypeOK /\ ServiceShape /\ mode # "reset"
  BY DEF IInv, Reset
<1>2. Settled \/ Withdrawn
  BY DEF Settled, Withdrawn
<1>3. Seen \/ (core \in {"rd", "wr"} /\ ack)
  BY DEF Seen
<1>4. pc = "fl_byte" => pos < Size
  BY DEF IInv, FlushShape, Flushed
<1>5. mode \in {"run", "browse", "post"}
  BY <1>1 DEF TypeOK
<1>6. pc # "out" => mode \in {"run", "browse"}
  BY <1>1 DEF ServiceShape
<1>7. pc \in {"out", "rd_ack", "rd_byte", "rd_done", "poll_wr", "wr_byte", "wr_ack",
              "wr_done", "poll_fl", "fl_start", "fl_byte", "fl_clean"}
  BY <1>1 DEF TypeOK
<1> QED
  BY <1>2, <1>3, <1>4, <1>5, <1>6, <1>7 DEF SomebodyMoves

\* The card and the Shell never wait for each other while a request stands.
THEOREM RequestsDoNotStick == Spec => []NoRequestStuck
<1>1. IInv => NoRequestStuck
  <2> SUFFICES ASSUME IInv, core # "idle", mode # "fatal" PROVE SomebodyMoves
    BY DEF NoRequestStuck
  <2>1. ~Reset
    BY DEF IInv, ServiceShape
  <2> QED
    BY <2>1, WorkToDo
<1> QED
  BY <1>1, Inductive, PTL

-----------------------------------------------------------------------------
(* The flush gets on.                                                      *)

\* A flush to be started is not under way.
StartIsDue == pc = "fl_start" => ~cache.flushing

LEMMA StartIsDueStep ==
  ASSUME TypeOK, ServiceShape, StartIsDue, [Next]_vars
  PROVE  StartIsDue'
<1>0. cache \in Flags /\ ~Cleared.flushing
  BY CleanFlags DEF TypeOK
<1>1. CASE pc' # "fl_start"
  BY <1>1 DEF StartIsDue
<1>2. CASE pc' = pc /\ (cache' = cache \/ cache' = Edge \/ cache' = Cleared)
  BY <1>0, <1>2, EdgeFlags DEF StartIsDue
<1>3. CASE PollFlush
  <2>1. pc' = "fl_start" => ~cache'.flushing
    BY <1>3 DEF PollFlush, hwVars
  <2> QED
    BY <2>1 DEF StartIsDue
<1>4. CASE Tick \/ SendByte \/ CopyByte
  <2>1. CASE Tick
    BY <1>2, <2>1 DEF Tick, SetCache
  <2>2. CASE SendByte \/ CopyByte
    BY <1>1, <2>2 DEF SendByte, CopyByte
  <2> QED
    BY <1>4, <2>1, <2>2
<1>5. CASE \/ PollRead \/ AckRead \/ AckReadOff \/ PollWrite \/ AckWrite \/ AckWriteOff
           \/ StartFlush \/ FlushByte \/ MarkClean \/ FlushFatal
  BY <1>1, <1>5 DEF PollRead, AckRead, AckReadOff, PollWrite, AckWrite, AckWriteOff,
                    StartFlush, FlushByte, MarkClean, FlushFatal
<1>6. CASE SeesAck \/ SeesAckGone \/ \E l \in Lbas : QlRead(l) \/ QlWrite(l)
  BY <1>2, <1>6 DEF SeesAck, SeesAckGone, QlRead, QlWrite, coreRest, hwVars
<1>7. CASE Press \/ PostReset
  BY <1>2, <1>7 DEF Press, PostReset, ResetCore
<1>8. CASE \/ Release \/ Select \/ SelectOther \/ Cancel \/ PostDone
           \/ \E f \in Files : Pick(f)
  BY <1>2, <1>8 DEF Release, Select, SelectOther, Cancel, PostDone, Pick, menuRest, hwVars
<1>9. CASE UNCHANGED vars
  BY <1>2, <1>9 DEF vars, hwVars
<1> QED
  BY <1>3, <1>4, <1>5, <1>6, <1>7, <1>8, <1>9 DEF Next, Core, Firmware, Outside

LEMMA StartsAreDue == Spec => []StartIsDue
<1>1. Init => StartIsDue
  BY DEF Init, StartIsDue
<1>2. IInv /\ StartIsDue /\ [Next]_vars => StartIsDue'
  BY StartIsDueStep DEF IInv
<1> QED
  BY <1>1, <1>2, Inductive, PTL DEF Spec

\* What an edge does to a dirty drive when no write is about.
LEMMA QuietEdge ==
  ASSUME cache \in Flags, cache.dirty, ~cache.latch, core # "wr"
  PROVE  /\ AckWritten = Edge
         /\ Edge.latch = FALSE /\ Edge.dirty = TRUE
         /\ Edge.flushing = cache.flushing
         /\ Edge.start = (cache.start \/ cache.count = 0)
         /\ Edge.count = IF cache.count > 0 THEN cache.count - 1 ELSE cache.count
BY DEF Flags, AckWritten, Edge, Watched

\* Such an edge brings the start nearer, and does not touch the flush.
LEMMA StageAtEdge ==
  ASSUME cache \in Flags, cache.dirty, ~cache.latch, core # "wr",
         cache' = Edge, cursor' = cursor
  PROVE  IF cache.flushing \/ cache.start THEN Stage' = Stage ELSE FurtherOn(Stage, Stage')
<1>1. /\ cache'.flushing = cache.flushing
      /\ cache'.start = (cache.start \/ cache.count = 0)
      /\ cache'.count = IF cache.count > 0 THEN cache.count - 1 ELSE cache.count
  BY QuietEdge
<1>2. CASE cache.flushing
  BY <1>1, <1>2 DEF Stage
<1>3. CASE ~cache.flushing /\ cache.start
  BY <1>1, <1>3 DEF Stage
<1>4. CASE ~cache.flushing /\ ~cache.start
  <2> PICK c \in Nat : cache.count = c
    BY ParametersAssumption DEF Flags
  <2>0. Stage[1] = 0 /\ Stage[2] = Delay - c
    BY <1>4 DEF Stage
  <2>1. CASE c = 0
    <3>1. Stage'[1] = 1
      BY <1>1, <1>4, <2>1 DEF Stage
    <3> QED
      BY <1>4, <2>0, <3>1, FurtherAt
  <2>2. CASE c # 0
    <3>0. c > 0 /\ cache.count > 0 /\ cache.count # 0
      BY <2>2
    <3>1. ~cache'.flushing /\ ~cache'.start /\ cache'.count = c - 1
      BY <1>1, <1>4, <3>0
    <3>2. Stage'[1] = 0 /\ Stage'[2] = Delay - (c - 1)
      BY <3>1 DEF Stage
    <3>3. Delay - c < Delay - (c - 1)
      BY ParametersAssumption
    <3> QED
      BY <1>4, <2>0, <3>2, <3>3, FurtherAt
  <2> QED
    BY <2>1, <2>2
<1> QED
  BY <1>2, <1>3, <1>4

\* Unless something of it changes, a stage stays as it is.
LEMMA StageStands ==
  ASSUME cache' = cache, cursor' = cursor \/ ~cache.flushing
  PROVE  Stage' = Stage
BY DEF Stage

\* Where each step of the Shell finds and leaves the flush of a dirty drive,
\* when no write is about.
LEMMA ShellOnItsRound ==
  ASSUME TypeOK, ServiceShape, StartIsDue, Firmware,
         cache.dirty, cache'.dirty, ~cache.latch, core # "wr"
  PROVE  \/ FurtherOn(Stage, Stage')
         \/ Stage' = Stage /\ (cache.flushing \/ cache.start => FurtherOn(Round, Round'))
<1>0. cache \in Flags /\ at \in Nat /\ iter \in Nat /\ cursor \in Nat
  BY SizePositive, ParametersAssumption DEF TypeOK
<1>1. ~Reset /\ ~button /\ mode # "reset"
  <2>1. ~Cleared.dirty
    BY <1>0, CleanFlags
  <2> QED
    BY <2>1 DEF ServiceShape, Reset
<1>2. ASSUME cache' = cache, cursor' = cursor, FurtherOn(Round, Round')
      PROVE  Stage' = Stage /\ FurtherOn(Round, Round')
  BY <1>2, StageStands
<1>3. ASSUME cache' = Edge, cursor' = cursor, FurtherOn(Round, Round')
      PROVE  \/ FurtherOn(Stage, Stage')
             \/ Stage' = Stage /\ FurtherOn(Round, Round')
  BY <1>0, <1>3, StageAtEdge
<1>4. CASE PollRead \/ PollWrite
  <2>1. /\ UNCHANGED <<cache, cursor>>
        /\ \/ pc = "out" /\ pc' \in {"rd_ack", "poll_wr"}
           \/ pc = "poll_wr" /\ pc' = "poll_fl"
    BY <1>4 DEF PollRead, PollWrite, hwVars, flushVars
  <2>2. Round[1] < Round'[1]
    BY <2>1 DEF Round
  <2> QED
    BY <1>2, <2>1, <2>2, FurtherAt
<1>5. CASE AckRead \/ AckReadOff \/ AckWriteOff
  <2>1. /\ cache' = Edge /\ cursor' = cursor
        /\ \/ pc = "rd_ack" /\ pc' = "rd_byte"
           \/ pc = "rd_done" /\ pc' = "poll_wr"
           \/ pc = "wr_done" /\ pc' = "poll_fl"
    BY <1>0, <1>1, <1>5, QuietEdge DEF AckRead, AckReadOff, AckWriteOff, SetCache, flushVars
  <2>2. Round[1] < Round'[1]
    BY <2>1 DEF Round
  <2> QED
    BY <1>3, <2>1, <2>2, FurtherAt
<1>6. CASE SendByte
  <2>1. /\ cache' = Edge /\ cursor' = cursor
        /\ pc = "rd_byte" /\ pc' \in {pc, "rd_done"} /\ at' = at + 1
    BY <1>1, <1>6 DEF SendByte, SetCache, flushVars
  <2>2. CASE pc' = pc
    <3>1. Round[1] = 3 /\ Round'[1] = 3 /\ Round[2] = at /\ Round'[2] = at + 1
      BY <2>1, <2>2 DEF Round
    <3>2. at < at + 1
      BY <1>0
    <3> QED
      BY <1>3, <2>1, <3>1, <3>2, FurtherAt
  <2>3. CASE pc' # pc
    <3>1. Round[1] = 3 /\ Round'[1] = 4
      BY <2>1, <2>3 DEF Round
    <3> QED
      BY <1>3, <2>1, <3>1, FurtherAt
  <2> QED
    BY <2>2, <2>3
<1>7. ~CopyByte /\ ~AckWrite
  BY <1>1 DEF CopyByte, AckWrite, ServiceShape
<1>8. CASE PollFlush
  <2>1. UNCHANGED <<cache, cursor>> /\ pc = "poll_fl"
    BY <1>8 DEF PollFlush, hwVars
  <2>2. cache.flushing => pc' = "fl_byte"
    BY <1>8 DEF PollFlush
  <2>3. ~cache.flushing /\ cache.start => pc' = "fl_start"
    BY <1>8 DEF PollFlush
  <2>4. Stage' = Stage
    BY <2>1, StageStands
  <2>5. cache.flushing \/ cache.start => Round[1] < Round'[1]
    BY <2>1, <2>2, <2>3 DEF Round
  <2> QED
    BY <2>4, <2>5, FurtherAt
<1>9. CASE StartFlush
  <2>1. ~cache.flushing /\ cache' = FlushingWritten
    BY <1>1, <1>9 DEF StartFlush, StartIsDue, SetCache
  <2>2. Edge \in Flags
    BY <1>0, FlagsType
  <2>3. cache'.flushing
    BY <2>1, <2>2 DEF FlushingWritten, Flags
  <2>4. Stage[1] < Stage'[1]
    BY <2>1, <2>3 DEF Stage
  <2> QED
    BY <2>4, FurtherAt
<1>10. CASE FlushByte
  <2>1. /\ cache' = cache /\ cursor' = cursor + 1 /\ iter' = iter + 1
        /\ pc = "fl_byte" /\ pc' \in {pc, "fl_clean", "out"}
    BY <1>10 DEF FlushByte, hwVars
  <2>2. CASE cache.flushing
    <3>1. Stage[1] = 2 /\ Stage'[1] = 2 /\ Stage[2] = cursor /\ Stage'[2] = cursor + 1
      BY <2>1, <2>2 DEF Stage
    <3>2. cursor < cursor + 1
      BY <1>0
    <3> QED
      BY <3>1, <3>2, FurtherAt
  <2>3. CASE ~cache.flushing
    <3>1. Stage' = Stage
      BY <2>1, <2>3, StageStands
    <3>2. CASE pc' = pc
      <4>1. Round[1] = 0 /\ Round'[1] = 0 /\ Round[2] = iter /\ Round'[2] = iter + 1
        BY <2>1, <2>3, <3>2 DEF Round
      <4>2. iter < iter + 1
        BY <1>0
      <4> QED
        BY <3>1, <4>1, <4>2, FurtherAt
    <3>3. CASE pc' # pc
      <4>1. Round[1] < Round'[1]
        BY <2>1, <2>3, <3>3 DEF Round
      <4> QED
        BY <3>1, <4>1, FurtherAt
    <3> QED
      BY <3>2, <3>3
  <2> QED
    BY <2>2, <2>3
<1>11. ~MarkClean
  BY <1>0, <1>1, CleanFlags DEF MarkClean, SetCache
<1>12. ~PostReset /\ ~PostDone
  BY <1>0, <1>1, CleanFlags DEF PostReset, ResetCore, PostDone
<1> QED
  BY <1>4, <1>5, <1>6, <1>7, <1>8, <1>9, <1>10, <1>11, <1>12 DEF Firmware

\* What else happens meanwhile leaves the Shell where it is, and the flush.
LEMMA OthersOnTheRound ==
  ASSUME TypeOK, ServiceShape, Next, ~Firmware, mode' # "fatal",
         ~\E l \in Lbas : QlWrite(l),
         cache.dirty, cache'.dirty, ~cache.latch, core # "wr"
  PROVE  /\ Round' = Round
         /\ \/ FurtherOn(Stage, Stage')
            \/ Stage' = Stage /\ (cache.flushing \/ cache.start \/ ~Tick)
<1>0. cache \in Flags
  BY DEF TypeOK
<1>1. ~Reset /\ ~button
  <2>1. ~Cleared.dirty
    BY <1>0, CleanFlags
  <2> QED
    BY <2>1 DEF ServiceShape, Reset
<1>2. CASE Tick
  <2>1. cache' = Edge /\ UNCHANGED <<pc, at, iter, cursor>>
    BY <1>1, <1>2 DEF Tick, SetCache, flushVars
  <2>2. cache'.flushing = cache.flushing
    BY <1>0, <2>1, QuietEdge
  <2>3. Round' = Round
    BY <2>1, <2>2 DEF Round
  <2> QED
    BY <1>0, <2>1, <2>3, StageAtEdge
<1>3. CASE ~Tick /\ UNCHANGED <<cache, pc, at, iter, cursor>>
  <2>1. Round' = Round
    BY <1>3 DEF Round
  <2> QED
    BY <1>3, <2>1, StageStands
<1>4. \/ UNCHANGED <<cache, pc, at, iter, cursor>>
      \/ Tick \/ Press \/ Release \/ FlushFatal
  <2>1. CASE Core \/ \E l \in Lbas : QlRead(l)
    BY <2>1 DEF Core, SeesAck, SeesAckGone, QlRead, coreRest, hwVars, flushVars
  <2>2. CASE Select \/ SelectOther \/ Cancel \/ \E f \in Files : Pick(f)
    BY <2>2 DEF Select, SelectOther, Cancel, Pick, menuRest, hwVars, flushVars
  <2> QED
    BY <2>1, <2>2 DEF Next, Outside
<1>5. ~Press /\ ~Release /\ ~FlushFatal
  BY <1>0, <1>1, CleanFlags DEF Press, ResetCore, Release, FlushFatal
<1> QED
  BY <1>2, <1>3, <1>4, <1>5


\* What a step of anybody makes of the writes to come.
LEMMA WritesStep ==
  ASSUME TypeOK, ServiceShape, Next
  PROVE  \/ /\ core = "idle" /\ core' = "wr"
            /\ budget'["write"] = budget["write"] - 1
         \/ /\ \/ core' = core \/ SeesAck \/ SeesAckGone \/ Press \/ PostReset
               \/ \E l \in Lbas : QlRead(l)
            /\ budget'["write"] = budget["write"]
            /\ ~\E l \in Lbas : QlWrite(l)
<1>1. CASE \E l \in Lbas : QlWrite(l)
  BY <1>1 DEF QlWrite, Spend, TypeOK, Events
<1>2. ASSUME ~\E l \in Lbas : QlWrite(l)
      PROVE  \/ core' = core \/ SeesAck \/ SeesAckGone \/ Press \/ PostReset
             \/ \E l \in Lbas : QlRead(l)
  <2>1. CASE Core
    BY <2>1 DEF Core
  <2>2. CASE Firmware \/ Tick
    BY <2>2 DEF Firmware, Tick, PollRead, AckRead, SendByte, AckReadOff, PollWrite, CopyByte,
                AckWrite, AckWriteOff, PollFlush, StartFlush, FlushByte, MarkClean,
                PostDone, menuRest, coreVars
  <2>3. CASE Select \/ SelectOther \/ Cancel \/ (\E f \in Files : Pick(f))
             \/ Release \/ FlushFatal
    BY <2>3 DEF Select, SelectOther, Cancel, Pick, Release, FlushFatal, menuRest, coreVars
  <2> QED
    BY <1>2, <2>1, <2>2, <2>3 DEF Next, Outside
<1>3. ASSUME ~\E l \in Lbas : QlWrite(l)
      PROVE  budget'["write"] = budget["write"]
  <2>1. CASE Core
    BY <2>1 DEF Core, SeesAck, SeesAckGone
  <2>2. CASE Firmware \/ Tick
    BY <2>2 DEF Firmware, Tick, PollRead, AckRead, SendByte, AckReadOff, PollWrite, CopyByte,
                AckWrite, AckWriteOff, PollFlush, StartFlush, FlushByte, MarkClean,
                PostReset, PostDone
  <2>3. CASE Cancel \/ (\E f \in Files : Pick(f)) \/ Release \/ \E l \in Lbas : QlRead(l)
    BY <2>3 DEF Cancel, Pick, Release, QlRead
  <2>4. CASE Select \/ SelectOther \/ Press \/ FlushFatal
    <3>1. Spend("select") \/ Spend("button") \/ Spend("fail")
      BY <2>4 DEF Select, SelectOther, Press, FlushFatal
    <3> QED
      BY <3>1 DEF Spend, TypeOK, Events
  <2> QED
    BY <1>3, <2>1, <2>2, <2>3, <2>4 DEF Next, Outside
<1> QED
  BY <1>1, <1>2, <1>3

\* A write takes one off the writes to come, and so does its end.
LEMMA WritesFall ==
  ASSUME TypeOK, TypeOK', ServiceShape, Next,
         ~(core' = "wr" \/ cache'.latch) \/ (core = "idle" /\ core' = "wr"),
         core = "wr" \/ cache.latch \/ core' = "wr"
  PROVE  WritesToCome' < WritesToCome
<1> PICK b \in Nat : budget["write"] = b
  BY DEF TypeOK, Events
<1> PICK c \in Nat : budget'["write"] = c
  BY DEF TypeOK, Events
<1>1. CASE core = "idle" /\ core' = "wr"
  <2>1. c = b - 1
    BY <1>1, WritesStep DEF SeesAck, SeesAckGone, Press, PostReset, ResetCore, QlRead
  <2>2. WritesToCome' = 2 * c + 1 /\ (WritesToCome = 2 * b \/ WritesToCome = 2 * b + 1)
    BY <1>1 DEF WritesToCome
  <2> QED
    BY <2>1, <2>2
<1>2. CASE ~(core' = "wr" \/ cache'.latch)
  <2>1. c = b
    BY <1>2, WritesStep
  <2>2. WritesToCome' = 2 * c /\ WritesToCome = 2 * b + 1
    BY <1>2 DEF WritesToCome
  <2> QED
    BY <2>1, <2>2
<1> QED
  BY <1>1, <1>2

\* They stay when neither begins nor ends.
LEMMA WritesStand ==
  ASSUME budget'["write"] = budget["write"],
         (core' = "wr" \/ cache'.latch) <=> (core = "wr" \/ cache.latch)
  PROVE  WritesToCome' = WritesToCome
BY DEF WritesToCome

\* With no write about, none is latched by any step.
LEMMA QuietLatch ==
  ASSUME TypeOK, ServiceShape, Next, ~\E l \in Lbas : QlWrite(l), cache.dirty,
         cache'.dirty, ~cache.latch, core # "wr"
  PROVE  ~cache'.latch
<1>0. cache \in Flags /\ Edge \in Flags
  BY FlagsType DEF TypeOK
<1>1. ~Reset
  <2>1. ~Cleared.dirty
    BY <1>0, CleanFlags
  <2> QED
    BY <2>1 DEF ServiceShape
<1>2. AckWritten = Edge /\ ~Edge.latch
  BY <1>0, QuietEdge
<1>3. ~FlushingWritten.latch /\ ~Cleared.latch /\ ~CleanWritten.latch
  BY <1>0, <1>2 DEF FlushingWritten, Cleared, CleanWritten, Flags
<1>4. CASE cache' \in {cache, Edge, AckWritten, FlushingWritten, Cleared, CleanWritten}
  BY <1>2, <1>3, <1>4
<1>5. CASE Core \/ (\E l \in Lbas : QlRead(l)) \/ Press \/ Release \/ FlushFatal
  BY <1>4, <1>5 DEF Core, SeesAck, SeesAckGone, QlRead, coreRest, Press, ResetCore,
                    Release, FlushFatal, hwVars
<1>6. CASE Select \/ SelectOther \/ Cancel \/ \E f \in Files : Pick(f)
  BY <1>4, <1>6 DEF Select, SelectOther, Cancel, Pick, hwVars
<1>7. CASE Tick \/ SendByte \/ CopyByte \/ AckRead \/ AckReadOff \/ AckWrite \/ AckWriteOff
           \/ StartFlush \/ MarkClean
  BY <1>1, <1>4, <1>7 DEF Tick, SendByte, CopyByte, AckRead, AckReadOff, AckWrite,
                          AckWriteOff, StartFlush, MarkClean, SetCache
<1>8. CASE PollRead \/ PollWrite \/ PollFlush \/ FlushByte \/ PostReset \/ PostDone
  BY <1>4, <1>8 DEF PollRead, PollWrite, PollFlush, FlushByte, PostReset, ResetCore,
                    PostDone, hwVars
<1> QED
  BY <1>5, <1>6, <1>7, <1>8 DEF Next, Firmware, Outside

\* A dirty drive gets clean unless FATAL stops the Shell: the QL's writes end,
\* vdrives.vhd sees the last of them, counts the waiting period down and starts
\* the flush, and the Shell brings that to its end, serving requests meanwhile.
THEOREM FlushesGoOn == Spec => FlushGoesOn
<1> DEFINE Going ==
      IF core = "wr" THEN Core \/ Firmware => FurtherOn(Way, Way')
      ELSE IF cache.latch THEN core' # "wr" /\ ~Tick
      ELSE \/ FurtherOn(Stage, Stage')
           \/ /\ Stage' = Stage
              /\ Stage[1] = 0 => ~Tick
              /\ Stage[1] > 0 =>
                   IF Firmware THEN FurtherOn(Round, Round') ELSE Round' = Round
    Act == cache.dirty /\ cache'.dirty /\ mode' # "fatal" =>
             WritesToCome' < WritesToCome \/ (WritesToCome' = WritesToCome /\ Going)
<1>1. ASSUME IInv, TypeOK', WriteHeld, StartIsDue, Next
      PROVE  Act
  <2> SUFFICES ASSUME cache.dirty, cache'.dirty, mode' # "fatal"
               PROVE  WritesToCome' < WritesToCome \/ (WritesToCome' = WritesToCome /\ Going)
    OBVIOUS
  <2>1. TypeOK /\ ServiceShape /\ cache \in Flags /\ cache' \in Flags
    BY <1>1 DEF IInv, TypeOK
  <2>2. ~Reset /\ ~Press /\ ~PostReset
    <3>1. ~Cleared.dirty
      BY <2>1, CleanFlags
    <3> QED
      BY <2>1, <3>1 DEF ServiceShape, Press, PostReset, ResetCore
  <2>3. CASE core = "idle" /\ core' = "wr"
    BY <1>1, <2>1, <2>3, WritesFall
  <2>4. CASE core = "wr"
    <3>0. TypeOK /\ ServiceShape /\ Next /\ core # "idle" /\ core \notin {"wr_acked", "rd_acked"}
      BY <1>1, <2>1, <2>4
    <3>1. budget'["write"] = budget["write"] /\ core' # "idle"
      BY <2>2, <2>4, <3>0, WritesStep DEF SeesAck, SeesAckGone, QlRead
    <3>2. CASE core' = "wr" \/ cache'.latch
      <4>1. WritesToCome' = WritesToCome
        BY <2>4, <3>1, <3>2, WritesStand
      <4>2. Core \/ Firmware => FurtherOn(Way, Way')
        BY <1>1, <2>1, <2>4, <3>1, CoreOnItsWay, ShellOnItsWay
      <4> QED
        BY <2>4, <4>1, <4>2
    <3>3. CASE ~(core' = "wr" \/ cache'.latch)
      BY <1>1, <2>1, <2>4, <3>3, WritesFall
    <3> QED
      BY <3>2, <3>3
  <2>5. CASE core # "wr" /\ cache.latch /\ ~(core = "idle" /\ core' = "wr")
    <3>1. budget'["write"] = budget["write"] /\ core' # "wr"
      BY <1>1, <2>1, <2>2, <2>5, WritesStep DEF SeesAck, SeesAckGone, QlRead
    <3>2. CASE cache'.latch
      <4>1. WritesToCome' = WritesToCome
        BY <2>5, <3>1, <3>2, WritesStand
      <4>2. ~Tick
        BY <2>1, <2>2, <2>5, <3>2 DEF Tick, SetCache, Edge, Watched, Rearmed, Flags
      <4> QED
        BY <2>5, <3>1, <4>1, <4>2
    <3>3. CASE ~cache'.latch
      BY <1>1, <2>1, <2>5, <3>1, <3>3, WritesFall
    <3> QED
      BY <3>2, <3>3
  <2>6. CASE core # "wr" /\ ~cache.latch /\ ~(core = "idle" /\ core' = "wr")
    <3>1. /\ budget'["write"] = budget["write"] /\ core' # "wr"
          /\ ~\E l \in Lbas : QlWrite(l)
      BY <1>1, <2>1, <2>2, <2>6, WritesStep DEF SeesAck, SeesAckGone, QlRead
    <3>2. ~cache'.latch
      BY <1>1, <2>1, <2>2, <2>6, <3>1, QuietLatch
    <3>3. WritesToCome' = WritesToCome
      BY <2>6, <3>1, <3>2, WritesStand
    <3>4. /\ cache.flushing \/ cache.start <=> Stage[1] > 0
          /\ ~(cache.flushing \/ cache.start) <=> Stage[1] = 0
      BY DEF Stage
    <3>5. CASE Firmware
      <4>1. \/ FurtherOn(Stage, Stage')
            \/ Stage' = Stage /\ (cache.flushing \/ cache.start => FurtherOn(Round, Round'))
        BY <1>1, <2>1, <2>6, <3>5, ShellOnItsRound
      <4>2. Tick /\ ~(cache.flushing \/ cache.start) => FurtherOn(Stage, Stage')
        BY <2>1, <2>2, <2>6, StageAtEdge DEF Tick, SetCache, flushVars
      <4> QED
        BY <2>6, <3>3, <3>4, <3>5, <4>1, <4>2
    <3>6. CASE ~Firmware
      <4>1. /\ Round' = Round
            /\ \/ FurtherOn(Stage, Stage')
               \/ Stage' = Stage /\ (cache.flushing \/ cache.start \/ ~Tick)
        BY <1>1, <2>1, <2>6, <3>1, <3>6, OthersOnTheRound
      <4> QED
        BY <2>6, <3>3, <3>4, <3>6, <4>1
    <3> QED
      BY <3>5, <3>6
  <2> QED
    BY <2>3, <2>4, <2>5, <2>6
<1>2. IInv /\ TypeOK' /\ WriteHeld /\ StartIsDue /\ [Next]_vars => [Act]_vars
  BY <1>1
<1> QED
  BY <1>2, Inductive, TypeCorrect, WriteIsHeld, StartsAreDue, PTL DEF Spec, FlushGoesOn


\* A dirty drive never waits in vain, unless FATAL stopped the Shell.
THEOREM FlushesDoNotStick == Spec => []NoFlushStuck
<1>1. IInv => NoFlushStuck
  <2> SUFFICES ASSUME IInv, cache.dirty, mode # "fatal"
               PROVE  IF core # "wr" /\ (cache.latch \/ Stage[1] = 0) THEN Edge # cache
                                                                      ELSE SomebodyMoves
    BY DEF NoFlushStuck
  <2>1. cache \in Flags /\ ServiceShape
    BY DEF IInv, TypeOK
  <2>2. SomebodyMoves
    <3>1. ~Cleared.dirty
      BY <2>1, CleanFlags
    <3>2. ~Reset
      BY <2>1, <3>1 DEF ServiceShape
    <3> QED
      BY <3>2, WorkToDo
  <2>3. CASE core # "wr" /\ cache.latch
    <3>1. ~Edge.latch
      BY <2>1, <2>3 DEF Edge, Watched, Rearmed, Flags
    <3> QED
      BY <2>3, <3>1
  <2>4. CASE core # "wr" /\ ~cache.latch /\ Stage[1] = 0
    <3>1. ~cache.flushing /\ ~cache.start
      BY <2>4 DEF Stage
    <3>2. ASSUME cache.count = 0
          PROVE  Edge # cache
      BY <2>1, <2>4, <3>1, <3>2, QuietEdge
    <3>3. ASSUME cache.count # 0
          PROVE  Edge # cache
      <4> PICK c \in Nat : cache.count = c
        BY <2>1, ParametersAssumption DEF Flags
      <4>1. c > 0 /\ c - 1 # c
        BY <3>3
      <4>2. Edge.count = c - 1
        BY <2>1, <2>4, <4>1, QuietEdge
      <4> QED
        BY <4>1, <4>2
    <3> QED
      BY <2>4, <3>2, <3>3
  <2> QED
    BY <2>2, <2>3, <2>4
<1> QED
  BY <1>1, Inductive, PTL

=============================================================================
