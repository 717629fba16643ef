--------------------------- MODULE MdvFlush_proofs ---------------------------
(* Proofs of the safety properties of MdvFlush, for every image geometry,   *)
(* chunk and gate size, set of files and cards, and event budget.           *)
EXTENDS MdvFlush, TLAPS

-----------------------------------------------------------------------------
(* Facts about positions.  Cells stays folded from here on: these lemmas    *)
(* are all the provers need of it.                                          *)

\* A cell is a pair of a sector and a byte offset.
LEMMA CellPair ==
  ASSUME NEW c \in Cells
  PROVE  /\ c[1] \in 0 .. NSectors - 1
         /\ c[2] \in 0 .. SectorBytes - 1
         /\ c = <<c[1], c[2]>>
BY DEF Cells, Sectors

\* A pair of a sector and a byte offset is a cell.
LEMMA MakeCell ==
  ASSUME NEW s \in 0 .. NSectors - 1, NEW b \in 0 .. SectorBytes - 1
  PROVE  <<s, b>> \in Cells
BY DEF Cells, Sectors

\* The end of the file is not a byte of it.
LEMMA EndIsNoCell == EndOfFile \notin Cells
<1> SUFFICES ASSUME EndOfFile \in Cells PROVE FALSE
  OBVIOUS
<1>1. EndOfFile[1] \in 0 .. NSectors - 1
  BY CellPair
<1>2. EndOfFile[1] = NSectors
  BY DEF EndOfFile
<1> QED
  BY <1>1, <1>2, ParametersAssumption

\* Stepping the handle from a byte of the image stays in the image or ends at
\* its end.
LEMMA NextPosType ==
  ASSUME NEW p \in Cells
  PROVE  NextPos(p) \in Cells \union {EndOfFile}
<1>1. p[1] \in 0 .. NSectors - 1 /\ p[2] \in 0 .. SectorBytes - 1
  BY CellPair
<1>2. CASE p[2] + 1 = SectorBytes
  <2>1. NextPos(p) = <<p[1] + 1, 0>>
    BY <1>2 DEF NextPos
  <2>2. CASE p[1] + 1 = NSectors
    <3>1. <<p[1] + 1, 0>> = EndOfFile
      BY <2>2 DEF EndOfFile
    <3> QED
      BY <2>1, <3>1
  <2>3. CASE p[1] + 1 # NSectors
    <3>1. p[1] + 1 \in 0 .. NSectors - 1 /\ 0 \in 0 .. SectorBytes - 1
      BY <2>3, <1>1, ParametersAssumption
    <3> QED
      BY <3>1, MakeCell, <2>1
  <2> QED
    BY <2>2, <2>3
<1>3. CASE p[2] + 1 # SectorBytes
  <2>1. NextPos(p) = <<p[1], p[2] + 1>>
    BY <1>3 DEF NextPos
  <2>2. p[1] \in 0 .. NSectors - 1 /\ p[2] + 1 \in 0 .. SectorBytes - 1
    BY <1>3, <1>1, ParametersAssumption
  <2> QED
    BY <2>1, <2>2, MakeCell
<1> QED
  BY <1>2, <1>3

\* Nothing lies between a byte and the position after it.
LEMMA BeforeNext ==
  ASSUME NEW p \in Cells, NEW c \in Cells, Before(c, NextPos(p))
  PROVE  Before(c, p) \/ c = p
<1>1. /\ p[1] \in 0 .. NSectors - 1 /\ p[2] \in 0 .. SectorBytes - 1
      /\ c[1] \in 0 .. NSectors - 1 /\ c[2] \in 0 .. SectorBytes - 1
      /\ c = <<c[1], c[2]>> /\ p = <<p[1], p[2]>>
  BY CellPair
<1>2. CASE p[2] + 1 = SectorBytes
  <2>1. NextPos(p)[1] = p[1] + 1 /\ NextPos(p)[2] = 0
    BY <1>2 DEF NextPos
  <2>2. c[1] < p[1] + 1
    BY <2>1, <1>1 DEF Before
  <2>3. c[1] < p[1] \/ (c[1] = p[1] /\ (c[2] < p[2] \/ c[2] = p[2]))
    BY <2>2, <1>1, <1>2, ParametersAssumption
  <2> QED
    BY <2>3, <1>1 DEF Before
<1>3. CASE p[2] + 1 # SectorBytes
  <2>1. NextPos(p)[1] = p[1] /\ NextPos(p)[2] = p[2] + 1
    BY <1>3 DEF NextPos
  <2>2. c[1] < p[1] \/ (c[1] = p[1] /\ c[2] < p[2] + 1)
    BY <2>1 DEF Before
  <2>3. c[1] < p[1] \/ (c[1] = p[1] /\ (c[2] < p[2] \/ c[2] = p[2]))
    BY <2>2, <1>1
  <2> QED
    BY <2>3, <1>1 DEF Before
<1> QED
  BY <1>2, <1>3

\* Every byte of the image lies before the end of the file, none before its
\* beginning.
LEMMA BeforeEnds ==
  ASSUME NEW c \in Cells
  PROVE  Before(c, EndOfFile) /\ ~Before(c, <<0, 0>>)
<1>1. c[1] \in 0 .. NSectors - 1 /\ c[2] \in 0 .. SectorBytes - 1
  BY CellPair
<1>2. EndOfFile[1] = NSectors
  BY DEF EndOfFile
<1> QED
  BY <1>1, <1>2, ParametersAssumption DEF Before
-----------------------------------------------------------------------------
(* Type correctness.                                                       *)

\* Spending an event leaves the budget a budget.
LEMMA SpendType ==
  ASSUME TypeOK, NEW e \in Events, Spend(e)
  PROVE  budget' \in [Events -> Nat]
BY DEF TypeOK, Spend

\* What Return and the step's first decisions assign has the right type.
LEMMA EnterStepType ==
  ASSUME TypeOK, NEW changed, EnterStep(changed)
  PROVE  /\ mode' \in Modes /\ rd' \in 0 .. NBytes /\ flState' \in {0, 1}
         /\ pc' \in {"out", "idle", "stream", "close"}
<1> USE ParametersAssumption DEF TypeOK, Modes, Browsing
<1>1. rd' = rd \/ rd' = 0
  BY DEF EnterStep
<1>2. mode' = mode \/ mode' = "mount"
  BY DEF EnterStep, Return
<1>3. flState' = flState \/ flState' = 0
  BY DEF EnterStep
<1>4. pc' \in {"out", "idle", "stream", "close"}
  BY DEF EnterStep, Return
<1> QED
  BY <1>1, <1>2, <1>3, <1>4

\* What FindNext assigns has the right type.
LEMMA FindNextType ==
  ASSUME TypeOK, NEW todo \in SUBSET Sectors, NEW from \in 0 .. NSectors,
         pos \in Cells \/ (\E t \in todo : t >= from), FindNext(todo, from)
  PROVE  /\ mode' \in Modes
         /\ pos' \in Cells \union {EndOfFile}
         /\ pc' \in {"out", "idle", "stream", "close"}
         /\ rd' \in 0 .. NBytes
         /\ flState' \in {0, 1}
         /\ sector' \in 0 .. NSectors
         /\ byte' \in 0 .. SectorBytes
         /\ stale' \in BOOLEAN
<1>1. CASE \E s \in todo : /\ sector' = s /\ byte' = 0 /\ pos' = <<s, 0>>
                           /\ flState' = 1 /\ stale' = FALSE
                           /\ Return(TRUE) /\ UNCHANGED rd
  <2>1. PICK s \in todo : /\ sector' = s /\ byte' = 0 /\ pos' = <<s, 0>>
                          /\ flState' = 1 /\ stale' = FALSE
                          /\ Return(TRUE) /\ UNCHANGED rd
    BY <1>1
  <2>2. s \in 0 .. NSectors - 1 /\ 0 \in 0 .. SectorBytes - 1
    BY ParametersAssumption DEF Sectors
  <2>3. <<s, 0>> \in Cells
    BY <2>2, MakeCell
  <2>4. mode' = mode /\ pc' = "out"
    BY <2>1 DEF Return
  <2>5. sector' \in 0 .. NSectors /\ byte' \in 0 .. SectorBytes
    <3>1. sector' = s /\ byte' = 0
      BY <2>1
    <3> QED
      BY <3>1, <2>2, ParametersAssumption
  <2>7. flState' \in {0, 1} /\ stale' \in BOOLEAN
    BY <2>1
  <2>6. pos' \in Cells
    BY <2>1, <2>3
  <2> QED
    BY <2>1, <2>4, <2>5, <2>6, <2>7 DEF TypeOK
<1>2. CASE /\ \A s \in todo : s < from
           /\ sector' = from /\ byte' = SectorBytes /\ pos' = NextPos(pos)
           /\ flState' = 0 /\ pc' = "close" /\ rd' = 0
           /\ UNCHANGED <<mode, stale>>
  <2>1. pos \in Cells
    BY <1>2 DEF Sectors
  <2>2. NextPos(pos) \in Cells \union {EndOfFile}
    BY <2>1, NextPosType
  <2> QED
    BY <2>2, <1>2, ParametersAssumption DEF TypeOK
<1> QED
  BY <1>1, <1>2 DEF FindNext

\* The idle branch starts a pass, or returns and leaves the session alone.
LEMMA IdleDecideCases ==
  ASSUME IdleDecide
  PROVE  \/ /\ bmTmp # {} /\ snap' = bmTmp /\ FindNext(bmTmp, 0)
            /\ UNCHANGED <<lastDirty, gate>>
         \/ /\ gate' = GateThreshold \/ (gate > 0 /\ gate' = gate - 1)
            /\ lastDirty' = bmTmp \/ lastDirty' = lastDirty
            /\ pc' = "out" /\ (mode' = mode \/ mode' = "mount")
            /\ bmTmp # {} => mode' = mode
            /\ UNCHANGED <<rd, pos, snap, flState, sector, byte, stale>>
BY DEF IdleDecide, Return

\* A step of the firmware, the user or the outside world keeps every type.
LEMMA TypeStep == TypeOK /\ SessionShape /\ [Next]_vars => TypeOK'
<1> SUFFICES ASSUME TypeOK, SessionShape, [Next]_vars PROVE TypeOK'
  OBVIOUS
<1> USE ParametersAssumption
<1>1. CASE HandleIO
  <2>1. PICK changed : EnterStep(changed) /\ sdChanged' \in BOOLEAN
                       /\ sdActive' \in Cards
    BY <1>1 DEF HandleIO, TypeOK
  <2>2. /\ mode' \in Modes /\ rd' \in 0 .. NBytes /\ flState' \in {0, 1}
        /\ pc' \in {"out", "idle", "stream", "close"}
    BY <2>1, EnterStepType
  <2> QED
    BY <2>1, <2>2, <1>1 DEF HandleIO, TypeOK, coreVars, sdVars, histVars
<1>2. CASE ForceStep
  <2>1. /\ mode' \in Modes /\ rd' \in 0 .. NBytes /\ flState' \in {0, 1}
        /\ pc' \in {"out", "idle", "stream", "close"}
    BY <1>2, EnterStepType DEF ForceStep
  <2> QED
    BY <2>1, <1>2 DEF ForceStep, TypeOK, coreVars, sdVars, histVars
<1>3. CASE ReadBitmapByte
  <2>1. rd' \in 0 .. NBytes /\ bmTmp' \subseteq Sectors
    BY <1>3 DEF ReadBitmapByte, TypeOK
  <2> QED
    BY <2>1, <1>3 DEF ReadBitmapByte, TypeOK, coreVars, sdVars, shellVars,
       passVars, histVars
<1>4. CASE IdleDecide
  <2>0. UNCHANGED <<coreVars, sdVars, sdActive, sdChanged, ldf, file, bmTmp,
                    budget, risk, foreign>>
    BY <1>4 DEF IdleDecide
  <2>1. CASE /\ bmTmp # {} /\ snap' = bmTmp /\ FindNext(bmTmp, 0)
             /\ UNCHANGED <<lastDirty, gate>>
    <3>1. bmTmp \in SUBSET Sectors /\ 0 \in 0 .. NSectors
      BY DEF TypeOK
    <3>2. \E t \in bmTmp : t >= 0
      <4>1. PICK t \in bmTmp : t \in Sectors
        BY <2>1, <3>1
      <4> QED
        BY <4>1 DEF Sectors
    <3>3. /\ mode' \in Modes
          /\ pos' \in Cells \union {EndOfFile}
          /\ pc' \in {"out", "idle", "stream", "close"}
          /\ rd' \in 0 .. NBytes
          /\ flState' \in {0, 1}
          /\ sector' \in 0 .. NSectors
          /\ byte' \in 0 .. SectorBytes
          /\ stale' \in BOOLEAN
      BY <3>1, <3>2, <2>1, FindNextType
    <3> QED
      BY <3>3, <3>1, <2>0, <2>1 DEF TypeOK, coreVars, sdVars
  <2>2. CASE /\ gate' = GateThreshold \/ (gate > 0 /\ gate' = gate - 1)
             /\ lastDirty' = bmTmp \/ lastDirty' = lastDirty
             /\ pc' = "out" /\ (mode' = mode \/ mode' = "mount")
             /\ UNCHANGED <<rd, pos, snap, flState, sector, byte, stale>>
    <3>1. gate' \in 0 .. GateThreshold
      BY <2>2 DEF TypeOK
    <3>2. mode' \in Modes
      BY <2>2 DEF TypeOK, Modes, Browsing
    <3> QED
      BY <3>1, <3>2, <2>0, <2>2 DEF TypeOK, coreVars, sdVars
  <2> QED
    BY <1>4, <2>1, <2>2, IdleDecideCases
<1>5. CASE StreamByte
  <2>0. /\ UNCHANGED <<coreVars, card, sdActive, sdChanged, ldf, file, bmTmp,
                       snap, lastDirty, gate, budget>>
        /\ pos \in Cells /\ flState = 1 /\ ldf
    BY <1>5 DEF StreamByte, TypeOK, SessionShape
  <2>1. /\ sector \in 0 .. NSectors - 1 /\ byte \in 0 .. SectorBytes - 1
        /\ sector \in Sectors
    BY <2>0 DEF SessionShape, TypeOK, Sectors
  <2>2. Cursor \in Cells
    BY <2>1, MakeCell DEF Cursor
  <2>3. /\ disk' \in [Files -> [Cells -> Nat]]
        /\ risk' \subseteq Cells /\ foreign' \in BOOLEAN
    <3>1. CASE card = CardOf[file]
      <4>1. buf[Cursor] \in Nat
        BY <2>2 DEF TypeOK
      <4>2. disk' = [disk EXCEPT ![file][pos] = buf[Cursor]]
            /\ risk' = risk \ {Cursor} /\ foreign' = foreign
        BY <3>1, <1>5 DEF StreamByte
      <4> QED
        BY <4>1, <4>2, <2>0 DEF TypeOK
    <3>2. CASE card # CardOf[file]
      BY <3>2, <1>5 DEF StreamByte, TypeOK
    <3> QED
      BY <3>1, <3>2
  <2>4. CASE byte + 1 = SectorBytes
    <3>1. FindNext(snap, sector + 1) /\ sector + 1 \in 0 .. NSectors
          /\ snap \in SUBSET Sectors
      BY <2>1, <2>4, <1>5 DEF StreamByte, TypeOK
    <3>2. /\ mode' \in Modes
          /\ pos' \in Cells \union {EndOfFile}
          /\ pc' \in {"out", "idle", "stream", "close"}
          /\ rd' \in 0 .. NBytes
          /\ flState' \in {0, 1}
          /\ sector' \in 0 .. NSectors
          /\ byte' \in 0 .. SectorBytes
          /\ stale' \in BOOLEAN
      BY <3>1, <2>0, FindNextType
    <3> QED
      BY <3>2, <2>0, <2>3 DEF TypeOK, coreVars
  <2>5. CASE byte + 1 # SectorBytes
    <3>1. /\ byte' = byte + 1 /\ pos' = NextPos(pos)
          /\ pc' = pc \/ pc' = "out"
          /\ mode' = mode \/ mode' = "mount"
          /\ UNCHANGED <<rd, flState, sector, stale>>
      BY <2>5, <1>5 DEF StreamByte, Return
    <3>2. pos' \in Cells \union {EndOfFile}
      BY <3>1, <2>0, NextPosType
    <3>3. byte' \in 0 .. SectorBytes
      BY <3>1, <2>1
    <3>4. mode' \in Modes
      BY <3>1 DEF TypeOK, Modes, Browsing
    <3> QED
      BY <3>1, <3>2, <3>3, <3>4, <2>0, <2>3 DEF TypeOK, coreVars
  <2> QED
    BY <2>4, <2>5
<1>6. CASE StreamFatal
  BY <1>6 DEF StreamFatal, TypeOK, Modes, coreVars, sdVars, passVars, histVars
<1>7. CASE ClosePass
  <2>1. mode' = mode \/ mode' = "mount"
    BY <1>7 DEF ClosePass, Return
  <2>2. mode' \in Modes
    BY <2>1 DEF TypeOK, Modes, Browsing
  <2>3. (dirty' = {} \/ dirty' = dirty) /\ (lastDirty' = {} \/ lastDirty' = lastDirty)
        /\ pc' = "out" /\ gate' = GateThreshold
    BY <1>7 DEF ClosePass, Return
  <2> QED
    BY <2>2, <2>3, <1>7 DEF ClosePass, TypeOK, sdVars, histVars
<1>8. CASE LoadByte
  <2>1. pos \in Cells /\ file \in Files
    BY <1>8 DEF LoadByte, TypeOK, SessionShape
  <2>2. NextPos(pos) \in Cells \union {EndOfFile}
    BY <2>1, NextPosType
  <2>3. disk[file][pos] \in Nat
    BY <2>1 DEF TypeOK
  <2>4. buf' \in [Cells -> Nat] /\ risk' \subseteq Cells
    BY <2>3, <1>8 DEF LoadByte, TypeOK
  <2> QED
    BY <2>2, <2>4, <1>8 DEF LoadByte, TypeOK, sdVars, stepVars, passVars
<1>9. CASE LoadDone
  BY <1>9 DEF LoadDone, TypeOK, Modes, coreVars, sdVars, stepVars, passVars, histVars
<1>10. CASE SelectMdv \/ OpenBrowser \/ Cancel \/ BrowserRemount
  BY <1>10 DEF SelectMdv, OpenBrowser, Cancel, BrowserRemount,
     TypeOK, Modes, Browsing, coreVars, sdVars, stepVars, passVars, histVars
<1>16. CASE SelectOther
  <2>1. budget' \in [Events -> Nat]
    BY <1>16, SpendType DEF SelectOther, Events
  <2> QED
    BY <2>1, <1>16 DEF SelectOther, TypeOK, Modes, Browsing, coreVars, sdVars,
       stepVars, passVars, histVars
<1>11. CASE LeaveOther
  <2>2. dirty' \subseteq Sectors /\ risk' \subseteq Cells
    BY <1>11 DEF LeaveOther, ClearOnReset, TypeOK
  <2> QED
    BY <2>2, <1>11 DEF LeaveOther, ClearOnReset, TypeOK, Modes, sdVars,
       stepVars, passVars
<1>12. CASE \E f \in Files : Pick(f)
  <2>1. PICK f \in Files : Pick(f)
    BY <1>12
  <2>2. <<0, 0>> \in Cells
    BY MakeCell
  <2>3. budget' \in [Events -> Nat]
    BY <2>1, SpendType DEF Pick, Events
  <2> QED
    BY <2>1, <2>2, <2>3 DEF Pick, TypeOK, Modes, coreVars, sdVars, stepVars,
       passVars
<1>13. CASE \E c \in Cells : QlWrite(c)
  <2>1. PICK c \in Cells : QlWrite(c)
    BY <1>13
  <2>2. c[1] \in Sectors
    BY CellPair DEF Sectors
  <2>3. budget' \in [Events -> Nat] /\ buf' \in [Cells -> Nat]
    BY <2>1 DEF QlWrite, Spend, TypeOK, Events
  <2>4. dirty' \subseteq Sectors /\ risk' \subseteq Cells
    BY <2>1, <2>2 DEF QlWrite, TypeOK
  <2> QED
    BY <2>1, <2>3, <2>4 DEF QlWrite, TypeOK, sdVars, shellVars, stepVars, passVars
<1>14. CASE CoreReset \/ SwapCard
  <2>1. budget' \in [Events -> Nat]
    BY <1>14, SpendType DEF CoreReset, SwapCard, Events
  <2> QED
    BY <2>1, <1>14 DEF CoreReset, SwapCard, ClearOnReset, TypeOK, coreVars,
       sdVars, shellVars, stepVars, passVars, histVars
<1>15. CASE UNCHANGED vars
  BY <1>15 DEF vars, TypeOK, coreVars, sdVars, shellVars, stepVars, passVars, histVars
<1> QED
  BY <1>1, <1>2, <1>3, <1>4, <1>5, <1>6, <1>7, <1>8, <1>9, <1>10, <1>11, <1>12,
     <1>13, <1>14, <1>15, <1>16 DEF Next, Firmware, User, Outside
-----------------------------------------------------------------------------
(* The shape of a session.                                                 *)

\* FindNext either seeks the handle to the sector it selects or closes the
\* pass with every sector of the snapshot behind it.
LEMMA FindNextCases ==
  ASSUME NEW todo, NEW from, FindNext(todo, from)
  PROVE  \/ /\ sector' \in todo /\ sector' >= from /\ byte' = 0
            /\ \A t \in todo : t >= from => sector' <= t
            /\ pos' = <<sector', byte'>> /\ flState' = 1 /\ stale' = FALSE
            /\ pc' = "out" /\ mode' = mode
         \/ /\ \A t \in todo : t < from
            /\ flState' = 0 /\ pc' = "close" /\ rd' = 0
            /\ mode' = mode /\ stale' = stale
BY DEF FindNext, Return

\* FindNext leaves the session in shape.
LEMMA FindNextShape ==
  ASSUME NEW todo, NEW from, FindNext(todo, from), snap' = todo,
         ldf, ldf' = ldf, file # NoFile, file' = file,
         mode \in {"poll", "pre"} \union Browsing
  PROVE  SessionShape'
<1>0. mode' = mode /\ mode # "load"
  BY FindNextCases DEF Browsing
<1>1. CASE /\ sector' \in todo /\ byte' = 0 /\ flState' = 1 /\ stale' = FALSE
           /\ pos' = <<sector', byte'>> /\ pc' = "out"
  <2>1. Cursor' = pos'
    BY <1>1 DEF Cursor
  <2>2. byte' \in 0 .. SectorBytes - 1
    BY <1>1, ParametersAssumption
  <2> QED
    BY <1>0, <1>1, <2>1, <2>2 DEF SessionShape
<1>2. CASE flState' = 0 /\ pc' = "close"
  BY <1>0, <1>2 DEF SessionShape, Browsing
<1> QED
  BY <1>1, <1>2, FindNextCases

\* EnterStep resumes a session, begins to look for one, or returns.
LEMMA EnterStepCases ==
  ASSUME NEW changed, EnterStep(changed)
  PROVE  /\ flState' = 0 \/ flState' = flState
         /\ mode' = mode \/ (mode = "pre" /\ mode' = "mount")
         /\ \/ pc' = "out"
            \/ pc' = "stream" /\ ldf /\ flState' = 1 /\ mode' = mode
            \/ pc' = "idle" /\ ldf /\ flState' = 0 /\ mode' = mode
BY DEF EnterStep, Return

\* A step keeps the handle, the cursor and the phase of the pass together.
LEMMA ShapeStep == TypeOK /\ SessionShape /\ [Next]_vars => SessionShape'
<1> SUFFICES ASSUME TypeOK, SessionShape, [Next]_vars PROVE SessionShape'
  OBVIOUS
<1> USE ParametersAssumption
<1>1. CASE HandleIO
  <2>1. PICK changed : EnterStep(changed)
    BY <1>1 DEF HandleIO
  <2> QED
    BY <2>1, <1>1, EnterStepCases DEF HandleIO, SessionShape, Browsing,
       Cursor, histVars
<1>2. CASE ForceStep
  BY <1>2, EnterStepCases DEF ForceStep, SessionShape, Browsing, Cursor,
     histVars
<1>3. CASE ReadBitmapByte
  BY <1>3 DEF ReadBitmapByte, SessionShape, Browsing, Cursor, coreVars, sdVars,
     shellVars, passVars, histVars
<1>4. CASE IdleDecide
  <2>0. /\ ldf' = ldf /\ file' = file
        /\ ldf /\ mode \in {"poll", "pre"} \union Browsing
    BY <1>4 DEF IdleDecide, SessionShape
  <2>1. CASE bmTmp # {} /\ snap' = bmTmp /\ FindNext(bmTmp, 0)
    <3>1. ldf /\ file # NoFile
      BY <2>0 DEF SessionShape
    <3> QED
      BY <2>0, <2>1, <3>1, FindNextShape
  <2>2. CASE /\ pc' = "out" /\ (mode' = mode \/ mode' = "mount")
             /\ UNCHANGED <<rd, pos, snap, flState, sector, byte, stale>>
    BY <2>0, <2>2 DEF SessionShape, Cursor, Browsing
  <2> QED
    BY <1>4, <2>1, <2>2, IdleDecideCases
<1>5. CASE StreamByte
  <2>0. /\ pc = "stream" /\ pos # EndOfFile /\ ldf' = ldf /\ file' = file
        /\ snap' = snap
        /\ ldf /\ file # NoFile /\ mode # "load" /\ flState = 1
        /\ mode \in {"poll", "pre"} \union Browsing /\ pos = Cursor
        /\ ~stale /\ sector \in snap /\ byte \in 0 .. SectorBytes - 1
    BY <1>5 DEF StreamByte, SessionShape, Browsing, TypeOK
  <2>1. CASE byte + 1 = SectorBytes
    <3>1. FindNext(snap, sector + 1)
      BY <2>1, <1>5 DEF StreamByte
    <3> QED
      BY <2>0, <3>1, FindNextShape
  <2>2. CASE byte + 1 # SectorBytes
    <3>1. /\ byte' = byte + 1 /\ pos' = NextPos(pos)
          /\ \/ pc' = pc /\ mode' = mode
             \/ pc' = "out" /\ (mode' = mode \/ mode' = "mount")
          /\ flState' = flState /\ sector' = sector /\ stale' = stale
      BY <2>2, <1>5 DEF StreamByte, Return
    <3>2. pos' = <<sector, byte + 1>>
      BY <3>1, <2>0, <2>2 DEF NextPos, Cursor
    <3>3. byte' \in 0 .. SectorBytes - 1
      BY <3>1, <2>0, <2>2
    <3> QED
      BY <2>0, <3>1, <3>2, <3>3 DEF SessionShape, Cursor, Browsing
  <2> QED
    BY <2>1, <2>2
<1>6. CASE StreamFatal
  BY <1>6 DEF StreamFatal, SessionShape, Browsing, Cursor, coreVars, sdVars,
     passVars, histVars
<1>7. CASE ClosePass
  BY <1>7 DEF ClosePass, Return, SessionShape, Browsing, Cursor, sdVars, histVars
<1>8. CASE LoadByte
  BY <1>8 DEF LoadByte, SessionShape, Browsing, Cursor, sdVars, stepVars, passVars
<1>9. CASE LoadDone
  BY <1>9 DEF LoadDone, SessionShape, Browsing, Cursor, coreVars, sdVars,
     stepVars, passVars, histVars
<1>10. CASE SelectMdv \/ SelectOther \/ OpenBrowser \/ Cancel \/ BrowserRemount
              \/ LeaveOther
  BY <1>10 DEF SelectMdv, SelectOther, OpenBrowser, Cancel, BrowserRemount,
     LeaveOther, ClearOnReset, SessionShape, Browsing, Cursor, coreVars, sdVars, stepVars,
     passVars, histVars
<1>12. CASE \E f \in Files : Pick(f)
  BY <1>12 DEF Pick, SessionShape, TypeOK, Browsing, Cursor, coreVars, sdVars,
     stepVars, passVars
<1>13. CASE \E c \in Cells : QlWrite(c)
  BY <1>13 DEF QlWrite, SessionShape, Browsing, Cursor, sdVars, shellVars,
     stepVars, passVars
<1>14. CASE CoreReset \/ SwapCard
  BY <1>14 DEF CoreReset, SwapCard, ClearOnReset, SessionShape, Browsing, Cursor,
     coreVars, sdVars, shellVars, stepVars, passVars, histVars
<1>15. CASE UNCHANGED vars
  BY <1>15 DEF vars, SessionShape, Browsing, Cursor, coreVars, sdVars, shellVars,
     stepVars, passVars, histVars
<1> QED
  BY <1>1, <1>2, <1>3, <1>4, <1>5, <1>6, <1>7, <1>8, <1>9, <1>10, <1>12,
     <1>13, <1>14, <1>15 DEF Next, Firmware, User, Outside
-----------------------------------------------------------------------------
(* What is unsaved, flagged and behind a pass.                             *)

Content == UnsavedAccounted /\ StreamedIsSaved /\ RereadIsFresh

\* Outside a load, the image differs from its file as long as neither changes.
LEMMA QuietUnsaved ==
  ASSUME mode # "load", mode' # "load", UNCHANGED <<buf, disk, file>>
  PROVE  Unsaved' = Unsaved
BY DEF Unsaved

\* A step that leaves nothing new unsaved, flagged or risked, and no more of
\* the image behind the pass, keeps the content facts.
LEMMA QuietContent ==
  ASSUME Content, Unsaved' \subseteq Unsaved,
         UNCHANGED <<dirty, risk, foreign, snap>>,
         \A c \in Unsaved : Behind(c)' => Behind(c),
         pc' = "close" => pc = "close" /\ UNCHANGED <<rd, bmTmp>>
  PROVE  Content'
<1>1. UnsavedAccounted'
  BY DEF Content, UnsavedAccounted
<1>2. StreamedIsSaved'
  BY DEF Content, StreamedIsSaved
<1>3. RereadIsFresh'
  BY DEF Content, RereadIsFresh
<1> QED
  BY <1>1, <1>2, <1>3 DEF Content

\* A pass that has not begun, or has ended, has nothing behind it.
LEMMA NoneBehind ==
  ASSUME NEW c, flState = 0, pc # "close"
  PROVE  ~Behind(c)
BY DEF Behind

\* What FindNext leaves behind the pass was behind the cell it leaves, was that
\* cell, or is not of the snapshot.
LEMMA FindNextBehind ==
  ASSUME NEW todo \in SUBSET Sectors, NEW from \in 0 .. NSectors,
         FindNext(todo, from), NEW c \in Cells, Behind(c)', c[1] \in todo
  PROVE  c[1] < from
<1>0. c[1] \in 0 .. NSectors - 1 /\ c[2] \in 0 .. SectorBytes - 1
  BY CellPair
<1>1. CASE /\ sector' \in todo /\ byte' = 0
           /\ \A t \in todo : t >= from => sector' <= t
           /\ flState' = 1 /\ pc' = "out"
  <2>1. Before(c, <<sector', 0>>)
    BY <1>1 DEF Behind, Cursor
  <2>2. sector' \in 0 .. NSectors - 1
    BY <1>1 DEF Sectors
  <2>3. c[1] < sector'
    BY <2>1, <2>2, <1>0 DEF Before
  <2>4. CASE c[1] >= from
    <3>1. sector' <= c[1]
      BY <1>1, <2>4
    <3> QED
      BY <3>1, <2>3, <2>2, <1>0, ParametersAssumption
  <2> QED
    BY <2>4, <1>0, ParametersAssumption
<1>2. CASE \A t \in todo : t < from
  BY <1>2
<1> QED
  BY <1>1, <1>2, FindNextCases

\* A step that starts, closes or carries on a pass, or is no step of one, keeps
\* the content facts.
LEMMA PassStep ==
  ASSUME TypeOK, SessionShape, Content,
         HandleIO \/ ForceStep \/ ReadBitmapByte \/ IdleDecide \/ StreamFatal
           \/ ClosePass
  PROVE  Content'
<1> USE ParametersAssumption
<1>1. CASE HandleIO \/ ForceStep
  <2>1. PICK changed : EnterStep(changed)
    BY <1>1 DEF HandleIO, ForceStep
  <2>2. /\ mode # "load" /\ pc = "out"
        /\ UNCHANGED <<buf, disk, file, dirty, risk, foreign, snap, sector, byte>>
    BY <1>1 DEF HandleIO, ForceStep, Browsing, coreVars, sdVars, histVars
  <2>3. mode' # "load" /\ pc' # "close" /\ (flState' = 0 \/ flState' = flState)
    BY <2>1, <2>2, EnterStepCases
  <2>4. Unsaved' = Unsaved
    BY <2>2, <2>3, QuietUnsaved
  <2>5. ASSUME NEW c \in Unsaved, Behind(c)' PROVE Behind(c)
    BY <2>2, <2>3, <2>5 DEF Behind, Cursor, TypeOK
  <2> QED
    BY <2>2, <2>3, <2>4, <2>5, QuietContent
<1>2. CASE ReadBitmapByte
  <2>1. /\ UNCHANGED <<buf, disk, file, mode, dirty, risk, foreign, snap, pc,
                       flState, sector, byte>>
        /\ mode # "load" /\ rd' = rd + 1
        /\ bmTmp' = (bmTmp \ {s \in Sectors : ByteOf[s] = rd})
                      \union (dirty \intersect {s \in Sectors : ByteOf[s] = rd})
    BY <1>2 DEF ReadBitmapByte, SessionShape, Browsing, coreVars, sdVars,
       shellVars, passVars, histVars
  <2>2. Unsaved' = Unsaved
    BY <2>1, QuietUnsaved
  <2>3. UnsavedAccounted'
    BY <2>1, <2>2 DEF Content, UnsavedAccounted
  <2>4. StreamedIsSaved'
    BY <2>1, <2>2 DEF Content, StreamedIsSaved, Behind, Cursor
  <2>5. RereadIsFresh'
    <3> SUFFICES ASSUME pc = "close", NEW c \in Unsaved, ByteOf[c[1]] < rd + 1
                 PROVE  c[1] \in bmTmp' \/ c \in risk \/ foreign
      BY <2>1, <2>2 DEF RereadIsFresh
    <3>1. c[1] \in Sectors /\ ByteOf[c[1]] \in 0 .. NBytes - 1
      BY CellPair DEF Unsaved, Sectors
    <3>2. CASE ByteOf[c[1]] = rd
      BY <2>1, <3>1, <3>2 DEF Content, UnsavedAccounted
    <3>3. CASE ByteOf[c[1]] # rd
      <4>0. rd \in Nat /\ ByteOf[c[1]] \in Nat
        BY <3>1 DEF TypeOK
      <4>1. ByteOf[c[1]] < rd
        BY <3>3, <4>0
      <4>2. c[1] \in bmTmp \/ c \in risk \/ foreign
        BY <4>1 DEF Content, RereadIsFresh
      <4> QED
        BY <4>2, <3>3, <2>1
    <3> QED
      BY <3>2, <3>3
  <2> QED
    BY <2>3, <2>4, <2>5 DEF Content
<1>3. CASE IdleDecide
  <2>1. /\ UNCHANGED <<buf, disk, file, dirty, risk, foreign>>
        /\ mode # "load" /\ pc = "idle"
    BY <1>3 DEF IdleDecide, SessionShape, Browsing, coreVars, sdVars
  <2>2. CASE bmTmp # {} /\ snap' = bmTmp /\ FindNext(bmTmp, 0)
    <3>1. bmTmp \in SUBSET Sectors /\ 0 \in 0 .. NSectors
      BY DEF TypeOK
    <3>2. mode' = mode
      BY <2>2, FindNextCases
    <3>3. Unsaved' = Unsaved
      BY <2>1, <3>2, QuietUnsaved
    <3>4. UnsavedAccounted'
      BY <2>1, <3>3 DEF Content, UnsavedAccounted
    <3>5. StreamedIsSaved'
      <4> SUFFICES ASSUME NEW c \in Unsaved, Behind(c)', c[1] \in bmTmp
                   PROVE  FALSE
        BY <2>2, <3>3 DEF StreamedIsSaved
      <4>1. c \in Cells /\ c[1] \in 0 .. NSectors - 1
        BY CellPair DEF Unsaved
      <4>2. c[1] < 0
        BY <3>1, <4>1, <2>2, FindNextBehind
      <4> QED
        BY <4>1, <4>2
    <3>6. RereadIsFresh'
      <4> SUFFICES ASSUME pc' = "close", NEW c \in Unsaved, ByteOf[c[1]] < rd'
                   PROVE  FALSE
        BY <3>3 DEF RereadIsFresh
      <4>1. rd' = 0
        BY <2>2, FindNextCases
      <4>2. c[1] \in Sectors
        BY CellPair DEF Unsaved, Sectors
      <4> QED
        BY <4>1, <4>2
    <3> QED
      BY <3>4, <3>5, <3>6 DEF Content
  <2>3. CASE /\ pc' = "out" /\ (mode' = mode \/ mode' = "mount")
             /\ UNCHANGED <<rd, pos, snap, flState, sector, byte, stale>>
    <3>1. Unsaved' = Unsaved
      BY <2>1, <2>3, QuietUnsaved
    <3>2. ASSUME NEW c \in Unsaved, Behind(c)' PROVE Behind(c)
      BY <2>3, <3>2 DEF Behind, Cursor
    <3> QED
      BY <2>1, <2>3, <3>1, <3>2, QuietContent
  <2> QED
    BY <1>3, <2>2, <2>3, IdleDecideCases
<1>4. CASE StreamFatal
  <2>1. /\ UNCHANGED <<buf, disk, file, dirty, risk, foreign, snap, flState,
                       sector, byte>>
        /\ mode # "load" /\ mode' # "load" /\ pc' = "out"
    BY <1>4 DEF StreamFatal, SessionShape, Browsing, coreVars, sdVars, passVars,
       histVars
  <2>2. Unsaved' = Unsaved
    BY <2>1, QuietUnsaved
  <2>3. ASSUME NEW c \in Unsaved, Behind(c)' PROVE Behind(c)
    BY <2>1, <2>3 DEF Behind, Cursor
  <2> QED
    BY <2>1, <2>2, <2>3, QuietContent
<1>5. CASE ClosePass
  <2>1. /\ UNCHANGED <<buf, disk, file, risk, foreign, snap, flState>>
        /\ mode # "load" /\ mode' # "load" /\ pc = "close" /\ pc' = "out"
        /\ flState = 0 /\ rd = NBytes
    BY <1>5 DEF ClosePass, Return, SessionShape, Browsing, sdVars, histVars
  <2>2. Unsaved' = Unsaved
    BY <2>1, QuietUnsaved
  <2>3. StreamedIsSaved' /\ RereadIsFresh'
    BY <2>1 DEF StreamedIsSaved, RereadIsFresh, Behind
  <2>4. CASE bmTmp = snap
    <3> SUFFICES ASSUME NEW c \in Unsaved PROVE c \in risk \/ foreign
      BY <2>1, <2>2, <2>3 DEF Content, UnsavedAccounted
    <3>1. ByteOf[c[1]] < rd
      <4>1. ByteOf[c[1]] \in 0 .. NBytes - 1
        BY CellPair DEF Unsaved, Sectors
      <4> QED
        BY <4>1, <2>1
    <3>2. c[1] \in snap \/ c \in risk \/ foreign
      BY <3>1, <2>1, <2>4 DEF Content, RereadIsFresh
    <3>3. Behind(c)
      BY <2>1 DEF Behind
    <3> QED
      BY <3>2, <3>3 DEF Content, StreamedIsSaved
  <2>5. CASE bmTmp # snap
    <3>1. dirty' = dirty
      BY <2>5, <1>5 DEF ClosePass
    <3>2. UnsavedAccounted'
      BY <3>1, <2>1, <2>2 DEF Content, UnsavedAccounted
    <3> QED
      BY <3>2, <2>3 DEF Content
  <2> QED
    BY <2>4, <2>5
<1> QED
  BY <1>1, <1>2, <1>3, <1>4, <1>5

\* Streaming a byte saves it, and brings it alone behind the pass.
LEMMA StreamContent ==
  ASSUME TypeOK, SessionShape, Content, StreamByte
  PROVE  Content'
<1> USE ParametersAssumption
<1>0. /\ UNCHANGED <<buf, dirty, file, snap>>
      /\ pc = "stream" /\ flState = 1 /\ mode # "load" /\ pos = Cursor
      /\ pos \in Cells /\ file \in Files
      /\ sector \in 0 .. NSectors - 1 /\ byte \in 0 .. SectorBytes - 1
  <2>1. sector \in snap
    BY DEF StreamByte, SessionShape
  <2>2. sector \in Sectors
    BY <2>1 DEF TypeOK
  <2> QED
    BY <2>2 DEF StreamByte, SessionShape, TypeOK, Browsing, Sectors, coreVars
<1>1. mode' # "load"
  BY <1>0, FindNextCases DEF StreamByte, Return
<1>2. \/ foreign' = TRUE /\ disk' = disk
      \/ /\ disk' = [disk EXCEPT ![file][pos] = buf[Cursor]]
         /\ risk' = risk \ {Cursor} /\ foreign' = foreign
  BY DEF StreamByte
<1>3. CASE foreign' = TRUE /\ disk' = disk
  <2>1. UnsavedAccounted' /\ StreamedIsSaved' /\ RereadIsFresh'
    BY <1>3 DEF UnsavedAccounted, StreamedIsSaved, RereadIsFresh
  <2> QED
    BY <2>1 DEF Content
<1>4. CASE /\ disk' = [disk EXCEPT ![file][pos] = buf[Cursor]]
           /\ risk' = risk \ {Cursor} /\ foreign' = foreign
  <2>1. /\ disk'[file][Cursor] = buf[Cursor]
        /\ \A c \in Cells : c # Cursor => disk'[file][c] = disk[file][c]
    BY <1>4, <1>0 DEF TypeOK
  <2>2. \A c \in Unsaved' : c \in Unsaved /\ c # Cursor
    BY <2>1, <1>0, <1>1 DEF Unsaved
  <2>3. UnsavedAccounted'
    BY <1>0, <1>4, <2>2 DEF Content, UnsavedAccounted
  <2>4. CASE byte + 1 = SectorBytes
    <3>1. /\ FindNext(snap, sector + 1) /\ sector + 1 \in 0 .. NSectors
          /\ snap \in SUBSET Sectors
      BY <2>4, <1>0 DEF StreamByte, TypeOK
    <3>2. StreamedIsSaved'
      <4> SUFFICES ASSUME NEW c \in Unsaved', Behind(c)', c[1] \in snap
                   PROVE  c \in risk' \/ foreign'
        BY <1>0 DEF StreamedIsSaved
      <4>1. c \in Unsaved /\ c # Cursor /\ c \in Cells
        BY <2>2 DEF Unsaved
      <4>2. c[1] < sector + 1
        BY <3>1, <4>1, FindNextBehind
      <4>3. /\ c[1] \in 0 .. NSectors - 1 /\ c[2] \in 0 .. SectorBytes - 1
            /\ c = <<c[1], c[2]>>
        BY <4>1, CellPair
      <4>4. c[1] < sector \/ (c[1] = sector /\ c[2] < byte)
        <5>1. CASE c[1] = sector
          <6>1. c[2] # byte
            BY <4>1, <4>3, <5>1 DEF Cursor
          <6> QED
            BY <6>1, <5>1, <4>3, <2>4, <1>0
        <5>2. CASE c[1] # sector
          BY <5>2, <4>2, <4>3, <1>0
        <5> QED
          BY <5>1, <5>2
      <4>5. Behind(c)
        BY <4>4, <1>0 DEF Behind, Before, Cursor
      <4> QED
        BY <4>1, <4>5, <1>4 DEF Content, StreamedIsSaved
    <3>3. RereadIsFresh'
      <4> SUFFICES ASSUME pc' = "close", NEW c \in Unsaved', ByteOf[c[1]] < rd'
                   PROVE  FALSE
        BY DEF RereadIsFresh
      <4>1. rd' = 0
        BY <3>1, FindNextCases
      <4>2. ByteOf[c[1]] \in 0 .. NBytes - 1
        BY <2>2, CellPair DEF Unsaved, Sectors
      <4> QED
        BY <4>1, <4>2
    <3> QED
      BY <2>3, <3>2, <3>3 DEF Content
  <2>5. CASE byte + 1 # SectorBytes
    <3>1. /\ byte' = byte + 1 /\ sector' = sector /\ flState' = flState
          /\ pc' = pc \/ pc' = "out"
      BY <2>5 DEF StreamByte, Return
    <3>2. StreamedIsSaved'
      <4> SUFFICES ASSUME NEW c \in Unsaved', Behind(c)', c[1] \in snap
                   PROVE  c \in risk' \/ foreign'
        BY <1>0 DEF StreamedIsSaved
      <4>1. c \in Unsaved /\ c # Cursor /\ c \in Cells
        BY <2>2 DEF Unsaved
      <4>2. NextPos(Cursor) = <<sector, byte + 1>>
        BY <2>5 DEF NextPos, Cursor
      <4>3. Before(c, NextPos(Cursor))
        BY <3>1, <1>0, <4>2 DEF Behind, Cursor
      <4>4. Before(c, Cursor)
        BY <4>1, <4>3, <1>0, BeforeNext
      <4>5. Behind(c)
        BY <4>4, <1>0 DEF Behind
      <4> QED
        BY <4>1, <4>5, <1>4 DEF Content, StreamedIsSaved
    <3>3. RereadIsFresh'
      BY <3>1, <1>0 DEF RereadIsFresh
    <3> QED
      BY <2>3, <3>2, <3>3 DEF Content
  <2> QED
    BY <2>4, <2>5
<1> QED
  BY <1>2, <1>3, <1>4

\* Loading an image, and every other step of the user, keeps the content facts.
LEMMA UserContent ==
  ASSUME TypeOK, SessionShape, Content, OpenBrowser \/ LoadByte \/ LoadDone \/ User
  PROVE  Content'
<1>1. CASE LoadByte
  <2>1. /\ mode = "load" /\ mode' = mode /\ pos \in Cells /\ file' = file
        /\ disk' = disk /\ pc = "out" /\ pc' = pc /\ file # NoFile
        /\ pos' = NextPos(pos) /\ risk' = risk \ {pos}
        /\ UNCHANGED <<dirty, foreign, snap, flState, sector, byte>>
        /\ buf' = [buf EXCEPT ![pos] = disk[file][pos]]
    BY <1>1 DEF LoadByte, TypeOK, SessionShape, Browsing, sdVars, stepVars, passVars
  <2>2. ASSUME NEW c \in Unsaved' PROVE c \in Unsaved /\ c # pos
    <3>1. c \in Cells /\ Before(c, NextPos(pos)) /\ buf'[c] # disk[file][c]
      BY <2>1, <2>2 DEF Unsaved
    <3>2. c # pos
      BY <3>1, <2>1 DEF TypeOK
    <3>3. Before(c, pos)
      BY <3>1, <3>2, <2>1, BeforeNext
    <3>4. buf[c] # disk[file][c]
      BY <3>1, <3>2, <2>1 DEF TypeOK
    <3> QED
      BY <3>1, <3>2, <3>3, <3>4, <2>1 DEF Unsaved
  <2>3. UnsavedAccounted'
    BY <2>1, <2>2 DEF Content, UnsavedAccounted
  <2>4. StreamedIsSaved'
    BY <2>1, <2>2 DEF Content, StreamedIsSaved, Behind, Cursor
  <2>5. RereadIsFresh'
    BY <2>1 DEF RereadIsFresh
  <2> QED
    BY <2>3, <2>4, <2>5 DEF Content
<1>2. CASE LoadDone
  <2>1. /\ mode = "load" /\ mode' = "poll" /\ pos = EndOfFile
        /\ pc = "out" /\ pc' = pc
        /\ UNCHANGED <<buf, disk, file, dirty, risk, foreign, snap, flState,
                       sector, byte>>
    BY <1>2 DEF LoadDone, SessionShape, Browsing, coreVars, sdVars, stepVars,
       passVars, histVars
  <2>2. Unsaved' \subseteq Unsaved
    BY <2>1, BeforeEnds DEF Unsaved
  <2>3. ASSUME NEW c \in Unsaved, Behind(c)' PROVE Behind(c)
    BY <2>1, <2>3 DEF Behind, Cursor
  <2> QED
    BY <2>1, <2>2, <2>3, QuietContent
<1>3. CASE SelectMdv \/ SelectOther \/ OpenBrowser \/ Cancel \/ BrowserRemount
  <2>1. /\ mode # "load" /\ mode' # "load" /\ pc = "out" /\ pc' = pc
        /\ UNCHANGED <<buf, disk, file, dirty, risk, foreign, snap, flState,
                       sector, byte>>
    BY <1>3 DEF SelectMdv, SelectOther, OpenBrowser, Cancel,
       BrowserRemount, Browsing,
       coreVars, sdVars, stepVars, passVars, histVars
  <2>2. Unsaved' = Unsaved
    BY <2>1, QuietUnsaved
  <2>3. ASSUME NEW c \in Unsaved, Behind(c)' PROVE Behind(c)
    BY <2>1, <2>3 DEF Behind, Cursor
  <2> QED
    BY <2>1, <2>2, <2>3, QuietContent
<1>4. CASE \E f \in Files : Pick(f)
  <2>1. /\ mode' = "load" /\ pos' = <<0, 0>> /\ pc' = "out"
    BY <1>4 DEF Pick, stepVars
  <2>2. Unsaved' = {}
    BY <2>1, BeforeEnds DEF Unsaved
  <2>3. UnsavedAccounted' /\ StreamedIsSaved' /\ RereadIsFresh'
    BY <2>1, <2>2 DEF UnsavedAccounted, StreamedIsSaved, RereadIsFresh
  <2> QED
    BY <2>3 DEF Content
<1>5. CASE LeaveOther
  <2>1. /\ mode # "load" /\ mode' # "load" /\ pc = "out" /\ pc' = pc
        /\ UNCHANGED <<buf, disk, file, foreign, snap, flState, sector, byte>>
        /\ risk' = risk \union {c \in Cells : c[1] \in dirty}
    BY <1>5 DEF LeaveOther, ClearOnReset, sdVars, stepVars, passVars
  <2>2. Unsaved' = Unsaved /\ Unsaved \subseteq Cells
    BY <2>1, QuietUnsaved DEF Unsaved
  <2>3. UnsavedAccounted'
    BY <2>1, <2>2 DEF Content, UnsavedAccounted
  <2>4. StreamedIsSaved' /\ RereadIsFresh'
    BY <2>1, <2>2 DEF Content, StreamedIsSaved, RereadIsFresh, Behind, Cursor
  <2> QED
    BY <2>3, <2>4 DEF Content
<1> QED
  BY <1>1, <1>2, <1>3, <1>4, <1>5 DEF User

\* A QL write is flagged, and charged to the loss window it falls in, if any.
LEMMA QlWriteContent ==
  ASSUME TypeOK, SessionShape, Content, NEW w \in Cells, QlWrite(w)
  PROVE  Content'
<1>1. /\ UNCHANGED <<disk, file, mode, pos, foreign, snap, flState, sector,
                     byte, pc, rd, bmTmp>>
      /\ dirty' = dirty \union {w[1]}
      /\ risk' = IF LossWindow(w) THEN risk \union {w} ELSE risk \ {w}
      /\ \A c \in Cells : c # w => buf'[c] = buf[c]
  BY DEF QlWrite, TypeOK, sdVars, shellVars, stepVars, passVars
<1>2. ASSUME NEW c \in Unsaved', c # w
      PROVE  c \in Unsaved /\ (c \in risk => c \in risk')
  BY <1>1, <1>2 DEF Unsaved
<1>3. UnsavedAccounted'
  BY <1>1, <1>2 DEF Content, UnsavedAccounted
<1>4. StreamedIsSaved'
  <2> SUFFICES ASSUME NEW c \in Unsaved', Behind(c), c[1] \in snap
               PROVE  c \in risk' \/ foreign
    BY <1>1 DEF StreamedIsSaved, Behind, Cursor
  <2>1. CASE c = w
    BY <2>1, <1>1 DEF LossWindow
  <2>2. CASE c # w
    BY <2>2, <1>2 DEF Content, StreamedIsSaved
  <2> QED
    BY <2>1, <2>2
<1>5. RereadIsFresh'
  <2> SUFFICES ASSUME pc = "close", NEW c \in Unsaved', ByteOf[c[1]] < rd
               PROVE  c[1] \in bmTmp \/ c \in risk' \/ foreign
    BY <1>1 DEF RereadIsFresh
  <2>1. CASE c = w
    BY <2>1, <1>1 DEF LossWindow
  <2>2. CASE c # w
    BY <2>2, <1>2 DEF Content, RereadIsFresh
  <2> QED
    BY <2>1, <2>2
<1> QED
  BY <1>3, <1>4, <1>5 DEF Content

\* The core's reset forgets every flag and charges the cells it covered; a
\* swapped card changes nothing by itself.
LEMMA OutsideContent ==
  ASSUME TypeOK, SessionShape, Content, Outside
  PROVE  Content'
<1>1. CASE \E c \in Cells : QlWrite(c)
  BY <1>1, QlWriteContent
<1>2. CASE CoreReset
  <2>1. /\ UNCHANGED <<buf, disk, file, mode, pos, foreign, snap, flState,
                       sector, byte, pc, rd, bmTmp>>
        /\ risk' = risk \union {c \in Cells : c[1] \in dirty}
    BY <1>2 DEF CoreReset, ClearOnReset, sdVars, shellVars, stepVars, passVars
  <2>2. Unsaved' = Unsaved /\ Unsaved \subseteq Cells
    BY <2>1 DEF Unsaved
  <2>3. UnsavedAccounted'
    BY <2>1, <2>2 DEF Content, UnsavedAccounted
  <2>4. StreamedIsSaved' /\ RereadIsFresh'
    BY <2>1, <2>2 DEF Content, StreamedIsSaved, RereadIsFresh, Behind, Cursor
  <2> QED
    BY <2>3, <2>4 DEF Content
<1>3. CASE SwapCard
  <2>1. UNCHANGED <<coreVars, disk, shellVars, stepVars, histVars>>
    BY <1>3 DEF SwapCard
  <2>2. UnsavedAccounted' /\ StreamedIsSaved' /\ RereadIsFresh'
    BY <2>1 DEF Content, UnsavedAccounted, StreamedIsSaved, RereadIsFresh,
       Unsaved, Behind, Cursor, coreVars, shellVars, stepVars, passVars, histVars
  <2> QED
    BY <2>2 DEF Content
<1> QED
  BY <1>1, <1>2, <1>3 DEF Outside

-----------------------------------------------------------------------------
(* The theorems.                                                           *)

\* The first image is loaded into an idle Shell: the invariant holds at once.
LEMMA InitIInv == Init => IInv
<1> SUFFICES ASSUME Init PROVE IInv
  OBVIOUS
<1>1. TypeOK
  <2>1. rd \in 0 .. NBytes /\ gate \in 0 .. GateThreshold
        /\ sector \in 0 .. NSectors /\ byte \in 0 .. SectorBytes
    BY ParametersAssumption DEF Init
  <2>2. buf \in [Cells -> Nat] /\ disk \in [Files -> [Cells -> Nat]]
    BY DEF Init
  <2>3. budget \in [Events -> Nat]
    BY ParametersAssumption DEF Init
  <2>4. mode \in Modes /\ flState \in {0, 1} /\ card \in Cards /\ sdActive \in Cards
    BY DEF Init, Modes
  <2> QED
    BY <2>1, <2>2, <2>3, <2>4 DEF Init, TypeOK
<1>2. SessionShape
  BY DEF Init, SessionShape
<1>3. Unsaved = {}
  BY <1>1 DEF Init, Unsaved
<1>4. UnsavedAccounted /\ StreamedIsSaved /\ RereadIsFresh
  BY <1>3 DEF Init, UnsavedAccounted, StreamedIsSaved, RereadIsFresh
<1> QED
  BY <1>1, <1>2, <1>4 DEF IInv

\* Every step keeps the inductive invariant.
LEMMA StepIInv == IInv /\ [Next]_vars => IInv'
<1> SUFFICES ASSUME IInv, [Next]_vars PROVE IInv'
  OBVIOUS
<1>0. TypeOK /\ SessionShape /\ Content
  BY DEF IInv, Content
<1>1. TypeOK'
  BY <1>0, TypeStep
<1>2. SessionShape'
  BY <1>0, ShapeStep
<1>3. Content'
  <2>1. CASE StreamByte
    BY <1>0, <2>1, StreamContent
  <2>2. CASE HandleIO \/ ForceStep \/ ReadBitmapByte \/ IdleDecide
             \/ StreamFatal \/ ClosePass
    BY <1>0, <2>2, PassStep
  <2>3. CASE OpenBrowser \/ LoadByte \/ LoadDone \/ User
    BY <1>0, <2>3, UserContent
  <2>4. CASE Outside
    BY <1>0, <2>4, OutsideContent
  <2>5. CASE UNCHANGED vars
    <3>1. UnsavedAccounted' /\ StreamedIsSaved' /\ RereadIsFresh'
      BY <1>0, <2>5 DEF Content, UnsavedAccounted, StreamedIsSaved,
         RereadIsFresh, Unsaved, Behind, Cursor, vars, coreVars, sdVars,
         shellVars, stepVars, passVars, histVars
    <3> QED
      BY <3>1 DEF Content
  <2> QED
    BY <2>1, <2>2, <2>3, <2>4, <2>5 DEF Next, Firmware
<1> QED
  BY <1>1, <1>2, <1>3 DEF IInv, Content

\* The inductive invariant holds throughout.
THEOREM Inductive == Spec => []IInv
BY InitIInv, StepIInv, PTL DEF Spec

\* Every variable keeps its type.
THEOREM TypeCorrect == Spec => []TypeOK
<1>1. IInv => TypeOK
  BY DEF IInv
<1> QED
  BY <1>1, Inductive, PTL

\* Whatever the image holds and the file does not is flagged dirty, or was
\* written in a loss window, reset over, or streamed at another card: there is
\* no further way to lose a write.
THEOREM NothingElseLosesWrites == Spec => []UnsavedAccounted
<1>1. IInv => UnsavedAccounted
  BY DEF IInv
<1> QED
  BY <1>1, Inductive, PTL

\* The write-back changes, in the file, the byte at the cursor only, and to
\* what the buffer holds: chunks resume where they stopped.
THEOREM WriteBackInPlace == Spec => WritesLandInPlace
<1> DEFINE Act == \A f \in Files, c \in Cells :
                    disk'[f][c] # disk[f][c] =>
                      f = file /\ c = Cursor /\ c[1] \in snap /\ disk'[f][c] = buf[c]
<1>1. IInv /\ [Next]_vars => Act \/ UNCHANGED vars
  <2> SUFFICES ASSUME IInv, [Next]_vars, NEW f \in Files, NEW c \in Cells,
                      disk'[f][c] # disk[f][c]
               PROVE  f = file /\ c = Cursor /\ c[1] \in snap /\ disk'[f][c] = buf[c]
    OBVIOUS
  <2>1. StreamByte
    BY DEF Next, Firmware, User, Outside, HandleIO, ForceStep, ReadBitmapByte,
       IdleDecide, StreamFatal, ClosePass, OpenBrowser, LoadByte, LoadDone,
       SelectMdv, SelectOther, Cancel, BrowserRemount, LeaveOther, Pick, QlWrite,
       CoreReset, SwapCard, sdVars, vars
  <2>2. disk' = [disk EXCEPT ![file][pos] = buf[Cursor]]
    BY <2>1 DEF StreamByte
  <2>3. pos = Cursor /\ sector \in snap
    BY <2>1 DEF StreamByte, IInv, SessionShape, Browsing
  <2>4. f = file /\ c = Cursor
    BY <2>2, <2>3 DEF IInv, TypeOK
  <2>5. disk'[f][c] = buf[c]
    BY <2>2, <2>3, <2>4 DEF IInv, TypeOK
  <2>6. c[1] = sector
    BY <2>4 DEF Cursor
  <2> QED
    BY <2>3, <2>4, <2>5, <2>6
<1>2. IInv /\ [Next]_vars => [Act]_vars
  BY <1>1
<1> QED
  BY <1>2, Inductive, PTL DEF Spec, WritesLandInPlace

-----------------------------------------------------------------------------
(* The forced loop.                                                        *)

\* The firmware spends no event of the bound: what does is outside.
LEMMA FirmwareSpendsNothing == Firmware => budget' = budget
BY DEF Firmware, HandleIO, ForceStep, ReadBitmapByte, IdleDecide, StreamByte,
       StreamFatal, ClosePass, OpenBrowser, LoadByte, LoadDone

\* An event spent is one less.
LEMMA SpentOne ==
  ASSUME TypeOK, NEW e \in Events, Spend(e)
  PROVE  /\ budget' # budget
         /\ budget[e] \in Nat /\ budget'[e] = budget[e] - 1 /\ budget[e] > 0
         /\ \A d \in Events \ {e} : budget'[d] = budget[d]
<1>1. budget \in [Events -> Nat] /\ budget[e] > 0 /\ budget' = [budget EXCEPT ![e] = @ - 1]
  BY DEF TypeOK, Spend
<1>2. budget[e] \in Nat /\ budget'[e] = budget[e] - 1
  BY <1>1
<1>3. budget[e] - 1 # budget[e]
  BY <1>2
<1> QED
  BY <1>1, <1>2, <1>3

\* Passes to come are a number, and fewer only if an event was spent or a pass
\* that was overtaken has ended.
LEMMA PassesCount ==
  ASSUME TypeOK
  PROVE  /\ budget["write"] \in Nat /\ budget["reset"] \in Nat
         /\ PassesToCome \in Nat
         /\ PassesToCome = budget["write"] + budget["reset"] + (IF PassIsCurrent THEN 0 ELSE 1)
<1>1. budget["write"] \in Nat /\ budget["reset"] \in Nat
  BY DEF TypeOK, Events
<1>2. PassesToCome = budget["write"] + budget["reset"] + (IF PassIsCurrent THEN 0 ELSE 1)
  BY DEF PassesToCome
<1>3. PassesToCome \in Nat
  BY <1>1, <1>2
<1> QED
  BY <1>1, <1>2, <1>3

\* While no event comes, a pass that knew the bitmap goes on to know it.
LEMMA PassesKept ==
  ASSUME TypeOK, budget' = budget, PassIsCurrent => PassIsCurrent'
  PROVE  PassesToCome' <= PassesToCome
<1>1. PICK n \in Nat : n = budget["write"] + budget["reset"]
  BY PassesCount
<1>2. PassesToCome = n + (IF PassIsCurrent THEN 0 ELSE 1)
  BY <1>1, PassesCount
<1>3. PassesToCome' = n + (IF PassIsCurrent' THEN 0 ELSE 1)
  BY <1>1 DEF PassesToCome
<1> QED
  BY <1>2, <1>3

\* A write or a reset may make the bitmap another one than the pass knows, and
\* is one less that can.
LEMMA PassesSpent ==
  ASSUME TypeOK, NEW e \in {"write", "reset"}, Spend(e)
  PROVE  PassesToCome' <= PassesToCome
<1>1. PICK w \in Nat, r \in Nat : w = budget["write"] /\ r = budget["reset"]
  BY PassesCount
<1>2. budget'["write"] + budget'["reset"] = w + r - 1 /\ w + r > 0
  BY <1>1, SpentOne DEF Events
<1>3. PassesToCome = w + r + (IF PassIsCurrent THEN 0 ELSE 1)
  BY <1>1, PassesCount
<1>4. PassesToCome' = (w + r - 1) + (IF PassIsCurrent' THEN 0 ELSE 1)
  BY <1>2 DEF PassesToCome
<1> QED
  BY <1>1, <1>3, <1>4

\* What is outside the Shell does not move the pass, and can overtake it only
\* with a write or a reset.
LEMMA OutsideLeavesPass ==
  ASSUME TypeOK, Outside
  PROVE  /\ PassesToCome' <= PassesToCome
         /\ ~Firmware /\ Position' = Position
<1>1. UNCHANGED stepVars
  BY DEF Outside, QlWrite, CoreReset, SwapCard
<1>2. Position' = Position
  BY <1>1 DEF Position, stepVars, passVars
<1>3. CASE (\E c \in Cells : QlWrite(c)) \/ CoreReset
  <2>1. PICK e \in {"write", "reset"} : Spend(e)
    BY <1>3 DEF QlWrite, CoreReset
  <2>2. budget' # budget
    BY <2>1, SpentOne DEF Events
  <2> QED
    BY <1>2, <2>1, <2>2, PassesSpent, FirmwareSpendsNothing
<1>4. CASE SwapCard
  <2>1. Spend("swap") /\ UNCHANGED <<coreVars, stepVars>>
    BY <1>4 DEF SwapCard
  <2>2. /\ budget' # budget
        /\ budget'["write"] = budget["write"] /\ budget'["reset"] = budget["reset"]
    BY <2>1, SpentOne DEF Events
  <2>3. PassIsCurrent' <=> PassIsCurrent
    BY <2>1 DEF PassIsCurrent, ReadIsCurrent, coreVars, stepVars, passVars
  <2>4. PassesToCome' = PassesToCome
    BY <2>2, <2>3 DEF PassesToCome
  <2>5. PassesToCome' <= PassesToCome
    BY <2>4, PassesCount
  <2> QED
    BY <1>2, <2>2, <2>5, FirmwareSpendsNothing
<1> QED
  BY <1>3, <1>4 DEF Outside

\* Where two positions first differ.
LEMMA FurtherBy ==
  ASSUME NEW p, NEW q, NEW i \in 1 .. 4, p[i] < q[i],
         \A j \in 1 .. i - 1 : p[j] = q[j]
  PROVE  FurtherOn(p, q)
BY DEF FurtherOn

\* The pass gets on, and knows the bitmap if it did.
GetsOn ==
  /\ budget' = budget
  /\ PassIsCurrent => PassIsCurrent'
  /\ FurtherOn(Position, Position')

\* A pass ends that a write or a reset has overtaken.
Overtaken == budget' = budget /\ ~PassIsCurrent /\ PassIsCurrent'

\* A call of the step resumes the session or begins to read the bitmap.
LEMMA EnterGetsOn ==
  ASSUME TypeOK, pc = "out", EnterStep(FALSE), ldf,
         UNCHANGED <<dirty, bmTmp, snap, sector, byte, budget>>
  PROVE  GetsOn /\ mode' = mode
<1>1. /\ mode' = mode
      /\ \/ flState = 1 /\ pc' = "stream" /\ flState' = flState
         \/ flState = 0 /\ pc' = "idle" /\ rd' = 0 /\ flState' = flState
  BY DEF EnterStep
<1>2. CASE flState = 1 /\ pc' = "stream" /\ flState' = flState
  <2>1. PassIsCurrent => PassIsCurrent'
    BY <1>2 DEF PassIsCurrent
  <2>2. Position = <<2, sector, byte, 0>> /\ Position' = <<2, sector, byte, 1>>
    BY <1>2 DEF Position
  <2>3. /\ Position[4] = 0 /\ Position'[4] = 1
        /\ \A j \in 1 .. 3 : Position[j] = Position'[j]
    BY <2>2
  <2>4. 4 \in 1 .. 4 /\ 4 - 1 = 3
    OBVIOUS
  <2>5. FurtherOn(Position, Position')
    BY <2>3, <2>4, FurtherBy
  <2> QED
    BY <1>1, <2>1, <2>5 DEF GetsOn
<1>3. CASE flState = 0 /\ pc' = "idle" /\ rd' = 0
  <2>1. \A s \in Sectors : ~(ByteOf[s] < 0)
    BY ParametersAssumption
  <2>2. PassIsCurrent'
    BY <1>3, <2>1 DEF PassIsCurrent, ReadIsCurrent
  <2>3. Position[1] = 0 /\ Position'[1] = 1
    BY <1>3 DEF Position
  <2>4. FurtherOn(Position, Position')
    BY <2>3, FurtherBy
  <2> QED
    BY <1>1, <2>2, <2>4 DEF GetsOn
<1> QED
  BY <1>1, <1>2, <1>3

\* A byte of the bitmap is read.
LEMMA ReadGetsOn ==
  ASSUME TypeOK, ReadBitmapByte
  PROVE  GetsOn
<1> DEFINE here == {s \in Sectors : ByteOf[s] = rd}
<1>1. /\ pc \in {"idle", "close"} /\ pc' = pc /\ rd' = rd + 1 /\ budget' = budget
      /\ UNCHANGED <<dirty, snap, flState>>
      /\ bmTmp' = (bmTmp \ here) \union (dirty \intersect here)
  BY DEF ReadBitmapByte, coreVars, passVars
<1>2. rd \in Nat
  BY ParametersAssumption DEF TypeOK
<1>3. ReadIsCurrent => ReadIsCurrent'
  <2> SUFFICES ASSUME ReadIsCurrent, NEW s \in Sectors, ByteOf[s] < rd + 1
               PROVE  s \in bmTmp' <=> s \in dirty
    BY <1>1 DEF ReadIsCurrent
  <2>1. CASE ByteOf[s] = rd
    BY <1>1, <2>1
  <2>2. CASE ByteOf[s] # rd
    <3>1. ByteOf[s] < rd
      BY <1>2, <2>2, ParametersAssumption
    <3> QED
      BY <1>1, <2>2, <3>1 DEF ReadIsCurrent
  <2> QED
    BY <2>1, <2>2
<1>4. PassIsCurrent => PassIsCurrent'
  BY <1>1, <1>3 DEF PassIsCurrent
<1>5. FurtherOn(Position, Position')
  <2>1. /\ Position[1] = Position'[1] /\ Position[2] = rd /\ Position'[2] = rd + 1
    BY <1>1 DEF Position
  <2>2. Position[2] < Position'[2] /\ \A j \in 1 .. 2 - 1 : Position[j] = Position'[j]
    BY <1>2, <2>1
  <2> QED
    BY <2>2, FurtherBy
<1> QED
  BY <1>1, <1>4, <1>5 DEF GetsOn

\* All of the bitmap is read: the pass begins with what is dirty.
LEMMA StartGetsOn ==
  ASSUME TypeOK, IdleDecide, bmTmp # {}, snap' = bmTmp, FindNext(bmTmp, 0)
  PROVE  GetsOn
<1>1. /\ pc = "idle" /\ rd = NBytes /\ budget' = budget /\ UNCHANGED <<dirty, bmTmp>>
      /\ bmTmp # {} /\ snap' = bmTmp /\ FindNext(bmTmp, 0)
  BY DEF IdleDecide, coreVars
<1>2. bmTmp \subseteq Sectors /\ dirty \subseteq Sectors
  BY DEF TypeOK
<1>3. pc' = "out" /\ flState' = 1
  <2>1. PICK t \in bmTmp : t \in Sectors
    BY <1>1, <1>2
  <2>2. t >= 0 /\ ~(t < 0)
    BY <2>1, ParametersAssumption DEF Sectors
  <2>3. ~(\A s \in bmTmp : s < 0)
    BY <2>1, <2>2
  <2> QED
    BY <1>1, <2>3, FindNextCases
<1>4. PassIsCurrent => PassIsCurrent'
  <2> SUFFICES ASSUME ReadIsCurrent PROVE snap' = dirty'
    BY <1>1, <1>3 DEF PassIsCurrent
  <2>1. \A s \in Sectors : ByteOf[s] < NBytes
    BY ParametersAssumption
  <2>2. bmTmp = dirty
    BY <1>1, <1>2, <2>1 DEF ReadIsCurrent
  <2> QED
    BY <1>1, <2>2
<1>5. Position[1] = 1 /\ Position'[1] = 2
  BY <1>1, <1>3 DEF Position
<1>6. FurtherOn(Position, Position')
  BY <1>5, FurtherBy
<1> QED
  BY <1>1, <1>4, <1>6 DEF GetsOn

\* A byte is streamed: the next one is further on, in this sector, in the next
\* one, or there is none and the bitmap is read again.
LEMMA StreamGetsOn ==
  ASSUME TypeOK, SessionShape, StreamByte
  PROVE  GetsOn
<1>1. /\ pc = "stream" /\ flState = 1 /\ budget' = budget
      /\ UNCHANGED <<dirty, bmTmp, snap>>
      /\ sector \in Nat /\ byte \in Nat
  BY ParametersAssumption DEF StreamByte, SessionShape, TypeOK, coreVars
<1>2. Position = <<2, sector, byte, 1>>
  BY <1>1 DEF Position
<1>3. CASE byte + 1 = SectorBytes /\ FindNext(snap, sector + 1)
  <2>1. CASE sector' \in snap /\ sector' >= sector + 1 /\ flState' = 1 /\ pc' = "out"
    <3>1. PassIsCurrent => PassIsCurrent'
      BY <1>1, <2>1 DEF PassIsCurrent
    <3>2. Position'[1] = 2 /\ Position'[2] = sector'
      BY <2>1 DEF Position
    <3>3. sector' \in Nat /\ sector < sector'
      BY <1>1, <2>1 DEF TypeOK, Sectors
    <3>4. Position[2] < Position'[2] /\ \A j \in 1 .. 2 - 1 : Position[j] = Position'[j]
      BY <1>2, <3>2, <3>3
    <3>5. FurtherOn(Position, Position')
      BY <3>4, FurtherBy
    <3> QED
      BY <1>1, <3>1, <3>5 DEF GetsOn
  <2>2. CASE flState' = 0 /\ pc' = "close" /\ rd' = 0
    <3>1. \A s \in Sectors : ~(ByteOf[s] < 0)
      BY ParametersAssumption
    <3>2. PassIsCurrent => PassIsCurrent'
      BY <1>1, <2>2, <3>1 DEF PassIsCurrent, ReadIsCurrent
    <3>3. Position[1] = 2 /\ Position'[1] = 3
      BY <1>2, <2>2 DEF Position
    <3>4. FurtherOn(Position, Position')
      BY <3>3, FurtherBy
    <3> QED
      BY <1>1, <3>2, <3>4 DEF GetsOn
  <2> QED
    BY <1>3, <2>1, <2>2, FindNextCases
<1>4. CASE /\ byte' = byte + 1 /\ UNCHANGED <<flState, sector>>
           /\ pc' \in {"stream", "out"}
  <2>1. PassIsCurrent => PassIsCurrent'
    BY <1>1, <1>4 DEF PassIsCurrent
  <2>2. Position'[1] = 2 /\ Position'[2] = sector /\ Position'[3] = byte + 1
    BY <1>1, <1>4 DEF Position
  <2>3. Position[3] < Position'[3] /\ \A j \in 1 .. 3 - 1 : Position[j] = Position'[j]
    BY <1>1, <1>2, <2>2
  <2>4. FurtherOn(Position, Position')
    BY <2>3, FurtherBy
  <2> QED
    BY <1>1, <2>1, <2>4 DEF GetsOn
<1>5. \/ byte + 1 = SectorBytes /\ FindNext(snap, sector + 1)
      \/ /\ byte' = byte + 1 /\ UNCHANGED <<flState, sector>>
         /\ pc' \in {"stream", "out"}
  BY <1>1 DEF StreamByte, Return
<1> QED
  BY <1>3, <1>4, <1>5

\* All of the bitmap is read, and the pass knows what is dirty, or does not.
LEMMA AllRead ==
  ASSUME TypeOK, rd = NBytes, ReadIsCurrent
  PROVE  bmTmp = dirty
<1>1. \A s \in Sectors : ByteOf[s] < NBytes
  BY ParametersAssumption
<1> QED
  BY <1>1 DEF ReadIsCurrent, TypeOK

\* A pass that does not clear the bitmap at its close was overtaken.
LEMMA CloseOvertaken ==
  ASSUME TypeOK, SessionShape, ClosePass, bmTmp # snap
  PROVE  Overtaken
<1>1. /\ pc = "close" /\ rd = NBytes /\ budget' = budget /\ flState' = flState
      /\ pc' = "out" /\ flState = 0
  BY DEF ClosePass, Return, SessionShape
<1>2. ~PassIsCurrent
  BY <1>1, AllRead DEF PassIsCurrent
<1>3. PassIsCurrent'
  BY <1>1 DEF PassIsCurrent
<1> QED
  BY <1>1, <1>2, <1>3 DEF Overtaken

\* So every step of the forced loop counts.
LEMMA PassesFewer ==
  ASSUME TypeOK, GetsOn \/ Overtaken
  PROVE  /\ PassesToCome' <= PassesToCome
         /\ PassesToCome' = PassesToCome => FurtherOn(Position, Position')
<1>1. CASE GetsOn
  BY <1>1, PassesKept DEF GetsOn
<1>2. CASE Overtaken
  <2>1. PICK n \in Nat : n = budget["write"] + budget["reset"]
    BY PassesCount
  <2>2. PassesToCome = n + 1
    BY <1>2, <2>1, PassesCount DEF Overtaken
  <2>3. PassesToCome' = n + 0
    BY <1>2, <2>1 DEF PassesToCome, Overtaken
  <2> QED
    BY <2>1, <2>2, <2>3
<1> QED
  BY <1>1, <1>2

\* OSM_SEL_PRE's loop ends: each step of the firmware brings the pass further
\* on, or ends one that a write or a reset has overtaken, and neither these nor
\* the card slot set it back.
THEOREM ForcedLoopAdvances == Spec => ForcedFlushAdvances
<1> DEFINE Act == mode = "pre" /\ mode' = "pre" =>
                    /\ PassesToCome' <= PassesToCome
                    /\ PassesToCome' = PassesToCome =>
                         IF Firmware THEN FurtherOn(Position, Position')
                                     ELSE Position' = Position
<1>1. ASSUME IInv, Next
      PROVE  Act
  <2> SUFFICES ASSUME mode = "pre", mode' = "pre"
               PROVE  /\ PassesToCome' <= PassesToCome
                      /\ PassesToCome' = PassesToCome =>
                           IF Firmware THEN FurtherOn(Position, Position')
                                       ELSE Position' = Position
    OBVIOUS
  <2>1. TypeOK /\ SessionShape
    BY <1>1 DEF IInv
  <2>2. CASE Firmware
    <3>1. ForceStep \/ ReadBitmapByte \/ IdleDecide \/ StreamByte \/ ClosePass
      BY <2>2 DEF Firmware, HandleIO, StreamFatal, OpenBrowser, LoadByte, LoadDone, Browsing
    <3>2. ForceStep => pc = "out" /\ EnterStep(FALSE) /\ ldf
                       /\ UNCHANGED <<dirty, bmTmp, snap, sector, byte, budget>>
      BY DEF ForceStep, EnterStep, Return, coreVars
    <3>3. IdleDecide => bmTmp # {} /\ snap' = bmTmp /\ FindNext(bmTmp, 0)
      BY DEF IdleDecide, Return
    <3>4. ClosePass => bmTmp # snap
      BY DEF ClosePass, Return
    <3>5. GetsOn \/ Overtaken
      BY <2>1, <3>1, <3>2, <3>3, <3>4, EnterGetsOn, ReadGetsOn, StartGetsOn, StreamGetsOn,
         CloseOvertaken
    <3> QED
      BY <2>1, <2>2, <3>5, PassesFewer
  <2>3. CASE Outside
    BY <2>1, <2>3, OutsideLeavesPass
  <2>4. ~User
    BY DEF User, SelectMdv, SelectOther, Cancel, BrowserRemount, LeaveOther, Pick, Browsing
  <2> QED
    BY <1>1, <2>2, <2>3, <2>4 DEF Next
<1>2. IInv /\ [Next]_vars => [Act]_vars
  BY <1>1
<1> QED
  BY <1>2, Inductive, PTL DEF Spec, ForcedFlushAdvances

-----------------------------------------------------------------------------
(* The way to a clean bitmap.                                              *)

\* Only a loaded image gets dirty, and the bitmap is read on entry while no
\* session is in progress.
DueShape ==
  /\ dirty # {} => ldf
  /\ pc = "idle" => flState = 0

LEMMA DueStep ==
  ASSUME DueShape, [Next]_vars
  PROVE  DueShape'
<1>1. dirty' # {} => ldf'
  <2>1. CASE UNCHANGED <<dirty, ldf>>
    BY <2>1 DEF DueShape
  <2>2. CASE \E c \in Cells : QlWrite(c)
    BY <2>2 DEF QlWrite, shellVars
  <2>3. CASE ClosePass \/ LoadDone \/ CoreReset \/ LeaveOther
    BY <2>3 DEF ClosePass, LoadDone, CoreReset, LeaveOther, ClearOnReset, DueShape
  <2>4. CASE HandleIO \/ ForceStep \/ ReadBitmapByte \/ IdleDecide \/ StreamByte \/ StreamFatal
    BY <2>1, <2>4 DEF HandleIO, ForceStep, ReadBitmapByte, IdleDecide, StreamByte, StreamFatal,
                      coreVars, shellVars
  <2>5. CASE OpenBrowser \/ LoadByte \/ SelectMdv \/ SelectOther \/ Cancel \/ BrowserRemount
             \/ SwapCard \/ \E f \in Files : Pick(f)
    BY <2>1, <2>5 DEF OpenBrowser, LoadByte, SelectMdv, SelectOther, Cancel, BrowserRemount,
                      SwapCard, Pick, coreVars, shellVars
  <2>6. CASE UNCHANGED vars
    BY <2>1, <2>6 DEF vars, coreVars, shellVars
  <2> QED
    BY <2>2, <2>3, <2>4, <2>5, <2>6 DEF Next, Firmware, User, Outside
<1>2. pc' = "idle" => flState' = 0
  <2>1. CASE HandleIO \/ ForceStep
    <3>1. PICK changed : EnterStep(changed)
      BY <2>1 DEF HandleIO, ForceStep
    <3> QED
      BY <3>1 DEF EnterStep, Return
  <2>2. CASE IdleDecide \/ StreamByte \/ ClosePass \/ StreamFatal
    <3>1. FindNext(bmTmp, 0) => pc' # "idle"
      BY DEF FindNext, Return
    <3>2. FindNext(snap, sector + 1) => pc' # "idle"
      BY DEF FindNext, Return
    <3>3. pc' # "idle"
      BY <2>2, <3>1, <3>2 DEF IdleDecide, StreamByte, ClosePass, StreamFatal, Return
    <3> QED
      BY <3>3
  <2>3. CASE UNCHANGED <<pc, flState>>
    BY <2>3 DEF DueShape
  <2> QED
    BY <2>1, <2>2, <2>3
       DEF Next, Firmware, User, Outside, ReadBitmapByte, OpenBrowser, LoadByte, LoadDone,
           SelectMdv, SelectOther, Cancel, BrowserRemount, Pick, LeaveOther, QlWrite,
           CoreReset, SwapCard, vars, stepVars, passVars
<1> QED
  BY <1>1, <1>2 DEF DueShape

LEMMA DueHolds == Spec => []DueShape
<1>1. Init => DueShape
  BY DEF Init, DueShape
<1> QED
  BY <1>1, DueStep, PTL DEF Spec

\* What a step does that brings a flush nearer.
Nearer ==
  \/ OvertakersToCome' < OvertakersToCome
  \/ /\ OvertakersToCome' = OvertakersToCome
     /\ \/ GateLeft' < GateLeft
        \/ GateLeft' = GateLeft /\ FurtherOn(Position, Position')

\* A pass that still knows the bitmap is followed by none; one that was
\* overtaken is no more; a write and a load are one less.
LEMMA Overtakers ==
  ASSUME TypeOK
  PROVE  /\ budget' = budget /\ (PassIsCurrent => PassIsCurrent') =>
              OvertakersToCome' < OvertakersToCome \/ OvertakersToCome' = OvertakersToCome
         /\ Overtaken => OvertakersToCome' < OvertakersToCome
         /\ \A e \in {"write", "load"} :
              Spend(e) => OvertakersToCome' < OvertakersToCome
         /\ UNCHANGED <<budget["write"], budget["load"], PassIsCurrent>> =>
              OvertakersToCome' = OvertakersToCome
<1>1. budget["write"] \in Nat /\ budget["load"] \in Nat
  BY DEF TypeOK, Events
<1>2. PICK n \in Nat : n = budget["write"] + budget["load"]
  BY <1>1
<1>3. OvertakersToCome = 2 * n + (IF PassIsCurrent THEN 0 ELSE 1)
  BY <1>2 DEF OvertakersToCome
<1>4. ASSUME budget' = budget
      PROVE  OvertakersToCome' = 2 * n + (IF PassIsCurrent' THEN 0 ELSE 1)
  BY <1>2, <1>4 DEF OvertakersToCome
<1>5. ASSUME NEW e \in {"write", "load"}, Spend(e)
      PROVE  OvertakersToCome' < OvertakersToCome
  <2>1. budget'["write"] + budget'["load"] = n - 1
    BY <1>1, <1>2, <1>5, SpentOne DEF Events
  <2>2. OvertakersToCome' = 2 * (n - 1) + (IF PassIsCurrent' THEN 0 ELSE 1)
    BY <2>1 DEF OvertakersToCome
  <2> QED
    BY <1>2, <1>3, <2>2
<1>6. ASSUME budget' = budget, PassIsCurrent => PassIsCurrent'
      PROVE  OvertakersToCome' < OvertakersToCome \/ OvertakersToCome' = OvertakersToCome
  BY <1>2, <1>3, <1>4, <1>6
<1>7. ASSUME Overtaken
      PROVE  OvertakersToCome' < OvertakersToCome
  BY <1>2, <1>3, <1>4, <1>7 DEF Overtaken
<1>8. ASSUME UNCHANGED <<budget["write"], budget["load"], PassIsCurrent>>
      PROVE  OvertakersToCome' = OvertakersToCome
  BY <1>8 DEF OvertakersToCome
<1> QED
  BY <1>5, <1>6, <1>7, <1>8

\* The pass gets on while the gate stays where it is.
LEMMA GetsNearer ==
  ASSUME TypeOK, \/ Overtaken
                 \/ GetsOn /\ UNCHANGED <<dirty, lastDirty, gate>>
  PROVE  Nearer
<1>1. CASE Overtaken
  BY <1>1, Overtakers DEF Nearer
<1>2. CASE GetsOn /\ UNCHANGED <<dirty, lastDirty, gate>>
  <2>1. GateLeft' = GateLeft
    BY <1>2 DEF GateLeft
  <2> QED
    BY <1>2, <2>1, Overtakers DEF Nearer, GetsOn
<1> QED
  BY <1>1, <1>2

\* With the bitmap read, the gate is set, counted down or open; or a write was
\* missed by the reading.
LEMMA IdleNearer ==
  ASSUME TypeOK, DueShape, IdleDecide, dirty # {}
  PROVE  Nearer
<1>1. /\ pc = "idle" /\ rd = NBytes /\ budget' = budget /\ dirty' = dirty
      /\ flState = 0 /\ gate \in Nat /\ GateThreshold \in Nat
  BY ParametersAssumption DEF IdleDecide, coreVars, DueShape, TypeOK
<1>2. CASE bmTmp # {} /\ snap' = bmTmp /\ FindNext(bmTmp, 0) /\ UNCHANGED <<lastDirty, gate>>
  BY <1>1, <1>2, StartGetsOn, GetsNearer
<1>3. CASE /\ pc' = "out" /\ flState' = flState
           /\ \/ bmTmp = {}
              \/ bmTmp # lastDirty /\ lastDirty' = bmTmp /\ gate' = GateThreshold
              \/ /\ bmTmp = lastDirty /\ lastDirty' = lastDirty
                 /\ gate > 0 /\ gate' = gate - 1
  <2>1. PassIsCurrent'
    BY <1>1, <1>3 DEF PassIsCurrent
  <2>2. CASE ~PassIsCurrent
    BY <1>1, <2>1, <2>2, GetsNearer DEF Overtaken
  <2>3. CASE PassIsCurrent
    <3>1. bmTmp = dirty
      BY <1>1, <2>3, AllRead DEF PassIsCurrent
    <3>2. CASE dirty # lastDirty
      <4>1. lastDirty' = dirty /\ gate' = GateThreshold
        BY <1>3, <3>1, <3>2
      <4>2. GateLeft = GateThreshold + 1 /\ GateLeft' = GateThreshold
        BY <1>1, <3>2, <4>1 DEF GateLeft
      <4>3. GateLeft' < GateLeft
        BY <1>1, <4>2
      <4> QED
        BY <1>1, <2>1, <4>3, Overtakers DEF Nearer
    <3>3. CASE dirty = lastDirty
      <4>1. lastDirty' = lastDirty /\ gate > 0 /\ gate' = gate - 1
        BY <1>3, <3>1, <3>3
      <4>2. GateLeft = gate /\ GateLeft' = gate - 1
        BY <1>1, <3>3, <4>1 DEF GateLeft
      <4>3. GateLeft' < GateLeft
        BY <1>1, <4>2
      <4> QED
        BY <1>1, <2>1, <4>3, Overtakers DEF Nearer
    <3> QED
      BY <3>2, <3>3
  <2> QED
    BY <2>2, <2>3
<1>4. \/ bmTmp # {} /\ snap' = bmTmp /\ FindNext(bmTmp, 0) /\ UNCHANGED <<lastDirty, gate>>
      \/ /\ pc' = "out" /\ flState' = flState
         /\ \/ bmTmp = {}
            \/ bmTmp # lastDirty /\ lastDirty' = bmTmp /\ gate' = GateThreshold
            \/ /\ bmTmp = lastDirty /\ lastDirty' = lastDirty
               /\ gate > 0 /\ gate' = gate - 1
  BY DEF IdleDecide, Return
<1> QED
  BY <1>2, <1>3, <1>4

\* The Shell's steps on the way.
LEMMA FirmwareNearer ==
  ASSUME IInv, DueShape, FlushDue, FlushDue',
         \/ HandleIO \/ ForceStep \/ ReadBitmapByte \/ IdleDecide
         \/ StreamByte \/ StreamFatal \/ ClosePass
  PROVE  Nearer
<1>0. TypeOK /\ SessionShape /\ dirty # {} /\ dirty' # {} /\ ldf
  BY DEF IInv, FlushDue, DueShape
<1>1. CASE HandleIO \/ ForceStep
  <2>1. /\ pc = "out" /\ UNCHANGED <<dirty, bmTmp, snap, sector, byte, budget, lastDirty, gate>>
    BY <1>1 DEF HandleIO, ForceStep, coreVars
  <2>2. PICK changed \in BOOLEAN : EnterStep(changed) /\ sdChanged' = changed
    BY <1>1 DEF HandleIO, ForceStep, IInv, TypeOK
  <2>3. EnterStep(FALSE)
    BY <2>2 DEF FlushDue
  <2> QED
    BY <1>0, <2>1, <2>3, EnterGetsOn, GetsNearer
<1>2. CASE ReadBitmapByte
  <2>1. UNCHANGED <<dirty, lastDirty, gate>>
    BY <1>2 DEF ReadBitmapByte, coreVars, passVars
  <2> QED
    BY <1>0, <1>2, <2>1, ReadGetsOn, GetsNearer
<1>3. CASE IdleDecide
  BY <1>0, <1>3, IdleNearer
<1>4. CASE StreamByte
  <2>1. UNCHANGED <<dirty, lastDirty, gate>>
    BY <1>4 DEF StreamByte, coreVars
  <2> QED
    BY <1>0, <1>4, <2>1, StreamGetsOn, GetsNearer
<1>5. CASE StreamFatal
  BY <1>5 DEF StreamFatal, FlushDue
<1>6. CASE ClosePass
  <2>1. bmTmp # snap
    BY <1>0, <1>6 DEF ClosePass
  <2> QED
    BY <1>0, <1>6, <2>1, CloseOvertaken, GetsNearer
<1> QED
  BY <1>1, <1>2, <1>3, <1>4, <1>5, <1>6

\* The load goes on, byte by byte.
LEMMA LoadGoesOn ==
  ASSUME TypeOK, LoadByte
  PROVE  FurtherOn(MenuPosition, MenuPosition')
<1>1. mode = "load" /\ mode' = "load" /\ pos \in Cells /\ pos' = NextPos(pos)
  BY DEF LoadByte, TypeOK
<1>2. pos[1] \in Nat /\ pos[2] \in Nat
  BY <1>1, CellPair, ParametersAssumption
<1>3. MenuPosition = <<1, pos[1], pos[2], 0>> /\ MenuPosition' = <<1, pos'[1], pos'[2], 0>>
  BY <1>1 DEF MenuPosition
<1>4. CASE pos'[1] = pos[1] + 1
  <2>1. MenuPosition[2] < MenuPosition'[2] /\ \A j \in 1 .. 2 - 1 : MenuPosition[j] = MenuPosition'[j]
    BY <1>2, <1>3, <1>4
  <2> QED
    BY <2>1, FurtherBy
<1>5. CASE pos'[1] = pos[1] /\ pos'[2] = pos[2] + 1
  <2>1. MenuPosition[3] < MenuPosition'[3] /\ \A j \in 1 .. 3 - 1 : MenuPosition[j] = MenuPosition'[j]
    BY <1>2, <1>3, <1>5
  <2> QED
    BY <2>1, FurtherBy
<1> QED
  BY <1>1, <1>4, <1>5 DEF NextPos

\* What DirtyIsFlushed rests on: while something is dirty each step of the Shell
\* brings its flush nearer, and only a write or a load sets it back.
THEOREM FlushGetsNearer == Spec => FlushAdvances
<1> DEFINE Act ==
      FlushDue /\ FlushDue' =>
        \/ OvertakersToCome' < OvertakersToCome
        \/ /\ OvertakersToCome' = OvertakersToCome
           /\ \/ GateLeft' < GateLeft
              \/ GateLeft' = GateLeft /\ FurtherOn(Position, Position')
              \/ /\ GateLeft' = GateLeft /\ Position' = Position
                 /\ IF Firmware THEN FurtherOn(MenuPosition, MenuPosition')
                                ELSE MenuPosition' = MenuPosition
<1>1. ASSUME IInv, DueShape, Next, FlushDue, FlushDue'
      PROVE  Act
  <2>0. TypeOK /\ dirty' # {}
    BY <1>1 DEF IInv, FlushDue
  <2>1. ASSUME Nearer
        PROVE  Act
    BY <2>1 DEF Nearer
  <2>2. ASSUME UNCHANGED <<dirty, stepVars, budget["write"], budget["load"]>>
        PROVE  /\ OvertakersToCome' = OvertakersToCome
               /\ GateLeft' = GateLeft /\ Position' = Position
    <3>1. PassIsCurrent' <=> PassIsCurrent
      BY <2>2 DEF PassIsCurrent, ReadIsCurrent, stepVars, passVars
    <3>2. OvertakersToCome' = OvertakersToCome
      BY <2>2, <3>1 DEF OvertakersToCome
    <3>3. GateLeft' = GateLeft /\ Position' = Position
      BY <2>2 DEF GateLeft, Position, stepVars, passVars
    <3> QED
      BY <3>2, <3>3
  <2>3. CASE \/ HandleIO \/ ForceStep \/ ReadBitmapByte \/ IdleDecide
             \/ StreamByte \/ StreamFatal \/ ClosePass
    BY <1>1, <2>1, <2>3, FirmwareNearer
  <2>4. CASE OpenBrowser \/ LoadByte \/ LoadDone
    <3>1. UNCHANGED <<dirty, stepVars, budget["write"], budget["load"]>>
      BY <2>4 DEF OpenBrowser, LoadByte, LoadDone, coreVars
    <3>2. Firmware
      BY <2>4 DEF Firmware
    <3>3. FurtherOn(MenuPosition, MenuPosition')
      <4>1. CASE LoadByte
        BY <2>0, <4>1, LoadGoesOn
      <4>2. CASE OpenBrowser \/ LoadDone
        <5>1. MenuPosition[1] \in {0, 1} /\ MenuPosition'[1] = 2
          BY <4>2 DEF OpenBrowser, LoadDone, MenuPosition
        <5> QED
          BY <5>1, FurtherBy
      <4> QED
        BY <2>4, <4>1, <4>2
    <3> QED
      BY <2>2, <3>1, <3>2, <3>3
  <2>5. CASE SelectMdv \/ Cancel
    <3>1. UNCHANGED <<dirty, stepVars, budget["write"], budget["load"]>>
      BY <2>5 DEF SelectMdv, Cancel, coreVars
    <3>2. /\ pc = "out" /\ mode \in {"poll", "browse"} /\ mode' \in {"poll", "pre"}
          /\ mode' # mode
      BY <2>5 DEF SelectMdv, Cancel
    <3>3. ~Firmware
      BY <3>2 DEF Firmware, HandleIO, EnterStep, Return, ForceStep, ReadBitmapByte, IdleDecide,
                  StreamByte, StreamFatal, ClosePass, OpenBrowser, LoadByte, LoadDone
    <3>4. MenuPosition' = MenuPosition
      BY <3>2 DEF MenuPosition
    <3> QED
      BY <2>2, <3>1, <3>3, <3>4
  <2>6. CASE SelectOther \/ SwapCard
    <3>1. PICK e \in {"reset", "swap"} : Spend(e)
      BY <2>6 DEF SelectOther, SwapCard
    <3>2. /\ budget' # budget
          /\ budget'["write"] = budget["write"] /\ budget'["load"] = budget["load"]
      BY <2>0, <3>1, SpentOne DEF Events
    <3>3. ~Firmware
      BY <3>2, FirmwareSpendsNothing
    <3>4. UNCHANGED <<dirty, stepVars>> /\ MenuPosition' = MenuPosition
      BY <2>6 DEF SelectOther, SwapCard, coreVars, shellVars, MenuPosition
    <3> QED
      BY <2>2, <3>2, <3>3, <3>4
  <2>7. CASE (\E c \in Cells : QlWrite(c)) \/ (\E f \in Files : Pick(f))
    <3>1. PICK e \in {"write", "load"} : Spend(e)
      BY <2>7 DEF QlWrite, Pick
    <3> QED
      BY <2>0, <3>1, Overtakers
  <2>8. ~(CoreReset \/ LeaveOther \/ BrowserRemount)
    BY <1>1, <2>0 DEF CoreReset, LeaveOther, ClearOnReset, BrowserRemount, FlushDue
  <2> QED
    BY <1>1, <2>3, <2>4, <2>5, <2>6, <2>7, <2>8 DEF Next, Firmware, User, Outside
<1>2. IInv /\ DueShape /\ [Next]_vars => [Act]_vars
  BY <1>1
<1> QED
  BY <1>2, Inductive, DueHolds, PTL DEF Spec, FlushAdvances

=============================================================================
