------------------------------ MODULE MdvFlush ------------------------------
(***************************************************************************)
(* The SD write-back of one microdrive image.                              *)
(*                                                                         *)
(* A .mdv image lives in a RAM buffer that the QL reads and writes as if   *)
(* it were a tape.  Hardware (main.vhd, p_dirty) keeps one dirty bit per   *)
(* 686-byte sector; QNICE firmware (m2m-rom.asm, MDV1_FLUSH_STEP) polls    *)
(* that bitmap and streams the dirty sectors back to the image file, a     *)
(* chunk per call, and finally clears the whole bitmap in one stroke.      *)
(* The QL, the user, the core's reset and the SD slots all move while a    *)
(* pass is under way.                                                      *)
(*                                                                         *)
(* Actors: the QL (QlWrite), the Shell firmware (one thread: HandleIO,     *)
(* ForceStep, ReadBitmapByte, IdleDecide, StreamByte, ClosePass, LoadByte, *)
(* LoadDone), its user (SelectMdv, SelectOther, Cancel, Pick...), the core *)
(* reset and the SD slot.  mdv2's step is the same routine on other        *)
(* variables; one drive is modelled here.                                  *)
(***************************************************************************)
EXTENDS Naturals, FiniteSets

CONSTANTS
  NSectors,       (* sectors of an image (255)                              *)
  SectorBytes,    (* bytes of a sector (686)                                *)
  NBytes,         (* bytes of the dirty bitmap (32)                         *)
  ByteOf,         (* the bitmap byte that holds a sector's bit              *)
  Chunk,          (* MDV1_FLUSH_CHUNK (64)                                  *)
  GateThreshold,  (* MDV1_GATE_THRESHOLD (2000)                             *)
  Files,          (* image files                                            *)
  NoFile,         (* the handle before the first image is opened            *)
  Cards,          (* SD cards, one per slot                                 *)
  CardOf,         (* the card a file is on                                  *)
  Budget          (* bounds: how often each kind of outside event happens   *)

Sectors == 0 .. NSectors - 1
Cells   == Sectors \X (0 .. SectorBytes - 1)   \* a byte of the image
Events  == {"write", "load", "reset", "swap"}

ASSUME ParametersAssumption ==
  /\ NSectors \in Nat \ {0}
  /\ SectorBytes \in Nat \ {0}
  /\ NBytes \in Nat \ {0}
  /\ ByteOf \in [Sectors -> 0 .. NBytes - 1]
  /\ Chunk \in Nat \ {0}
  /\ GateThreshold \in Nat
  /\ NoFile \notin Files
  /\ CardOf \in [Files -> Cards]
  /\ Budget \in [Events -> Nat]

VARIABLES
  (* the core: image buffer in HyperRAM and the dirty bitmap               *)
  buf, dirty,
  (* the SD side: file contents, the card in the active slot               *)
  disk, card,
  (* the Shell: what it is doing, SD_ACTIVE, SD_CHANGED, CRTROM_MAN_LDF,   *)
  (* and the file handle HNDL_RM_FILES with its access position            *)
  mode, sdActive, sdChanged, ldf, file, pos,
  (* the flush step: where in the routine the CPU is, the index of the     *)
  (* bitmap byte it reads next, and the MDV1_FL and bitmap variables       *)
  pc, rd, bmTmp, snap, lastDirty, gate, flState, sector, byte,
  (* outside events still allowed (a bound of the model)                   *)
  budget,
  (* history, read by properties only: cells written by the QL in a loss   *)
  (* window, "a write went to a card the handle was not opened on", and    *)
  (* "the image was re-opened under a session in progress"                 *)
  risk, foreign, stale

coreVars  == <<buf, dirty>>
sdVars    == <<disk, card>>
shellVars == <<mode, sdActive, sdChanged, ldf, file, pos>>
passVars  == <<snap, lastDirty, gate, flState, sector, byte>>
stepVars  == <<pc, rd, bmTmp, passVars>>
histVars  == <<risk, foreign, stale>>
vars      == <<coreVars, sdVars, shellVars, stepVars, budget, histVars>>

-----------------------------------------------------------------------------
(* Positions in the file.                                                  *)

EndOfFile == <<NSectors, 0>>

NextPos(p) == IF p[2] + 1 = SectorBytes THEN <<p[1] + 1, 0>>
                                        ELSE <<p[1], p[2] + 1>>

Before(p, q) == p[1] < q[1] \/ (p[1] = q[1] /\ p[2] < q[2])

Cursor == <<sector, byte>>

\* 64 bytes were streamed since the call began (a call begins at a multiple).
ChunkEnds(b) == b % Chunk = 0

(* A pass has already copied this cell, or will not copy it at all.        *)
Behind(c) == \/ flState = 1 /\ Before(c, Cursor)
             \/ pc = "close"

(* A QL write here is one that the pass in progress can forget.            *)
LossWindow(c) == \/ Behind(c) /\ c[1] \in snap
                 \/ pc = "close" /\ ByteOf[c[1]] < rd

Browsing == {"browse", "browseOther"}   \* for this drive / for another item

Spend(e) == /\ budget[e] > 0
            /\ budget' = [budget EXCEPT ![e] = @ - 1]

-----------------------------------------------------------------------------
Init ==
  /\ buf = [c \in Cells |-> 0]
  /\ dirty = {}
  /\ disk = [f \in Files |-> [c \in Cells |-> 0]]
  /\ card \in Cards
  /\ mode = "poll"
  /\ sdActive = card
  /\ sdChanged = FALSE
  /\ ldf = FALSE
  /\ file = NoFile
  /\ pos = EndOfFile
  /\ pc = "out"
  /\ rd = 0
  /\ bmTmp = {} /\ snap = {} /\ lastDirty = {}
  /\ gate = 0
  /\ flState = 0
  /\ sector = 0
  /\ byte = 0
  /\ budget = Budget
  /\ risk = {}
  /\ foreign = FALSE
  /\ stale = FALSE

-----------------------------------------------------------------------------
(* The QL and the core's reset.                                            *)

(* mdv.v confirms a word in the buffer and pulses wr_commit; p_dirty sets   *)
(* the sector's bit.  The value is unique per write (the event budget).    *)
QlWrite(c) ==
  /\ ldf
  /\ Spend("write")
  /\ buf' = [buf EXCEPT ![c] = budget["write"]]
  /\ dirty' = dirty \union {c[1]}
  /\ risk' = IF LossWindow(c) THEN risk \union {c} ELSE risk \ {c}
  /\ UNCHANGED <<sdVars, shellVars, stepVars, foreign, stale>>

(* p_dirty's reset branch.  The buffer is not touched: mdv's reset is '0'. *)
ClearOnReset ==
  /\ dirty' = {}
  /\ risk' = risk \union {c \in Cells : c[1] \in dirty}
  /\ UNCHANGED <<buf, foreign, stale>>

CoreReset ==
  /\ Spend("reset")
  /\ ClearOnReset
  /\ UNCHANGED <<sdVars, shellVars, stepVars>>

(* The active SD slot changes: a card is inserted or pulled.               *)
SwapCard ==
  /\ Spend("swap")
  /\ card' \in Cards \ {card}
  /\ UNCHANGED <<coreVars, disk, shellVars, stepVars, histVars>>

-----------------------------------------------------------------------------
(* One call of the flush step.                                             *)

(* Return to the caller: 1 = work remains.  OSM_SEL_PRE's loop repeats the *)
(* call until it reports clean; then HANDLE_MOUNTING takes over.           *)
Return(work) ==
  /\ pc' = "out"
  /\ mode' = IF mode = "pre" /\ ~work THEN "mount" ELSE mode

(* Seeded fault: a changed card is reported as work remaining.             *)
EnterStepRetries(changed) ==
  \/ /\ changed
     /\ flState' = 0
     /\ Return(TRUE)
     /\ UNCHANGED rd
  \/ /\ ~changed /\ ~ldf
     /\ Return(FALSE)
     /\ UNCHANGED <<rd, flState>>
  \/ /\ ~changed /\ ldf
     /\ pc' = IF flState = 1 THEN "stream" ELSE "idle"
     /\ rd' = 0
     /\ UNCHANGED <<mode, flState>>

(* The first decisions of the step: card changed, nothing loaded, session  *)
(* in progress, or idle.                                                   *)
EnterStep(changed) ==
  \/ /\ changed
     /\ flState' = 0
     /\ Return(FALSE)
     /\ UNCHANGED rd
  \/ /\ ~changed /\ ~ldf
     /\ Return(FALSE)
     /\ UNCHANGED <<rd, flState>>
  \/ /\ ~changed /\ ldf /\ flState = 1
     /\ pc' = "stream"
     /\ UNCHANGED <<mode, rd, flState>>
  \/ /\ ~changed /\ ldf /\ flState = 0
     /\ pc' = "idle"
     /\ rd' = 0
     /\ UNCHANGED <<mode, flState>>

(* HANDLE_IO, polled by the main loop and by the browser: notice a changed *)
(* card, then give the step a time slice with the gate respected.          *)
HandleIO ==
  /\ mode \in {"poll"} \union Browsing /\ pc = "out"
  /\ LET changed == sdChanged \/ sdActive # card IN
       /\ sdChanged' = changed
       /\ sdActive' = IF sdChanged THEN sdActive ELSE card
       /\ EnterStep(changed)
  /\ UNCHANGED <<coreVars, sdVars, ldf, file, pos, bmTmp, snap, lastDirty,
                 gate, sector, byte, budget, histVars>>

(* One round of OSM_SEL_PRE's loop: no card detection in here.             *)
ForceStep ==
  /\ mode = "pre" /\ pc = "out"
  /\ EnterStep(sdChanged)
  /\ UNCHANGED <<coreVars, sdVars, sdActive, sdChanged, ldf, file, pos, bmTmp,
                 snap, lastDirty, gate, sector, byte, budget, histVars>>

(* The bitmap is read a byte at a time, on entry and again at the close.   *)
ReadBitmapByte ==
  /\ pc \in {"idle", "close"} /\ rd < NBytes
  /\ LET here == {s \in Sectors : ByteOf[s] = rd} IN
       bmTmp' = (bmTmp \ here) \union (dirty \intersect here)
  /\ rd' = rd + 1
  /\ UNCHANGED <<coreVars, sdVars, shellVars, pc, passVars, budget, histVars>>

(* Seeded fault: the sector is selected, the handle is not moved there.    *)
FindNextUnsought(todo, from) ==
  IF \E s \in todo : s >= from
    THEN /\ sector' \in {s \in todo : s >= from}
         /\ byte' = 0
         /\ pos' = IF pc = "stream" THEN NextPos(pos) ELSE <<0, 0>>
         /\ flState' = 1
         /\ stale' = FALSE
         /\ Return(TRUE)
         /\ UNCHANGED rd
    ELSE /\ pc' = "close" /\ flState' = 0 /\ rd' = 0
         /\ UNCHANGED <<mode, stale, sector, byte, pos>>

(* Seeded fault: the search does not start at the sector it is told to.    *)
FindNextSkips(todo, from) ==
  \/ \E s \in todo :
       /\ s > from
       /\ sector' = s
       /\ byte' = 0
       /\ pos' = <<s, 0>>
       /\ flState' = 1
       /\ stale' = FALSE
       /\ Return(TRUE)
       /\ UNCHANGED rd
  \/ /\ \A s \in todo : s <= from
     /\ flState' = 0 /\ pc' = "close" /\ rd' = 0
     /\ UNCHANGED <<mode, stale, sector, byte, pos>>

(* _MFS_FINDNEXT: seek to the next sector of the snapshot, or go and close *)
(* the pass.                                                               *)
FindNext(todo, from) ==
  \/ \E s \in todo :
       /\ s >= from
       /\ \A t \in todo : t >= from => s <= t
       /\ sector' = s
       /\ byte' = 0
       /\ pos' = <<s, 0>>
       /\ flState' = 1
       /\ stale' = FALSE
       /\ Return(TRUE)
       /\ UNCHANGED rd
  \/ /\ \A s \in todo : s < from
     /\ sector' = from
     /\ byte' = SectorBytes
     /\ pos' = NextPos(pos)
     /\ flState' = 0
     /\ pc' = "close"
     /\ rd' = 0
     /\ UNCHANGED <<mode, stale>>

(* Seeded fault: the bitmap the gate compares with is not remembered.      *)
IdleDecideForgets ==
  /\ pc = "idle" /\ rd = NBytes
  /\ \/ /\ bmTmp = {} \/ (mode # "pre" /\ bmTmp # lastDirty)
        /\ gate' = GateThreshold
        /\ Return(bmTmp # {})
        /\ UNCHANGED <<rd, pos, snap, flState, sector, byte, stale>>
     \/ /\ bmTmp # {} /\ (mode = "pre" \/ bmTmp = lastDirty)
        /\ snap' = bmTmp
        /\ FindNext(bmTmp, 0)
        /\ UNCHANGED gate
  /\ UNCHANGED <<coreVars, sdVars, sdActive, sdChanged, ldf, file, bmTmp,
                 lastDirty, budget, risk, foreign>>

(* The idle branch, once the bitmap is read: nothing to do, gate closed,   *)
(* or start a pass on a frozen snapshot.                                   *)
IdleDecide ==
  /\ pc = "idle" /\ rd = NBytes
  /\ \/ /\ bmTmp = {}
        /\ gate' = GateThreshold
        /\ Return(FALSE)
        /\ UNCHANGED <<rd, pos, snap, lastDirty, flState, sector, byte, stale>>
     \/ /\ bmTmp # {} /\ mode # "pre" /\ bmTmp # lastDirty
        /\ lastDirty' = bmTmp
        /\ gate' = GateThreshold
        /\ Return(TRUE)
        /\ UNCHANGED <<rd, pos, snap, flState, sector, byte, stale>>
     \/ /\ bmTmp # {} /\ mode # "pre" /\ bmTmp = lastDirty /\ gate > 0
        /\ gate' = gate - 1
        /\ Return(TRUE)
        /\ UNCHANGED <<rd, pos, snap, lastDirty, flState, sector, byte, stale>>
     \/ /\ bmTmp # {} /\ (mode = "pre" \/ (bmTmp = lastDirty /\ gate = 0))
        /\ snap' = bmTmp
        /\ FindNext(bmTmp, 0)
        /\ UNCHANGED <<lastDirty, gate>>
  /\ UNCHANGED <<coreVars, sdVars, sdActive, sdChanged, ldf, file, bmTmp,
                 budget, risk, foreign>>

(* _MFS_WLOOP: one byte of the buffer goes to the file, at the position    *)
(* the handle is at; f32_fwrite refuses to grow the file.  f32_fwrite and  *)
(* the f32_fflush that ends a chunk are one write to the card here.        *)
StreamByte ==
  /\ pc = "stream" /\ pos # EndOfFile
  /\ IF card = CardOf[file]
       THEN /\ disk' = [disk EXCEPT ![file][pos] = buf[Cursor]]
            /\ risk' = risk \ {Cursor}
            /\ UNCHANGED foreign
       ELSE foreign' = TRUE /\ UNCHANGED <<disk, risk>>
  /\ IF byte + 1 = SectorBytes
       THEN FindNext(snap, sector + 1)
       ELSE /\ byte' = byte + 1
            /\ pos' = NextPos(pos)
            /\ IF ChunkEnds(byte + 1) THEN Return(TRUE) ELSE UNCHANGED <<pc, mode>>
            /\ UNCHANGED <<rd, flState, sector, stale>>
  /\ UNCHANGED <<coreVars, card, sdActive, sdChanged, ldf, file, bmTmp, snap,
                 lastDirty, gate, budget>>

(* f32_fwrite reports an error: FATAL stops the Shell for good.  The end of  *)
(* the file stands for every error of the file calls: all end in FATAL.     *)
StreamFatal ==
  /\ pc = "stream" /\ pos = EndOfFile
  /\ mode' = "fatal"
  /\ pc' = "out"
  /\ UNCHANGED <<coreVars, sdVars, sdActive, sdChanged, ldf, file, pos, rd,
                 bmTmp, passVars, budget, histVars>>

(* Seeded fault: the bitmap is cleared without comparing it.               *)
ClosePassBlindly ==
  /\ pc = "close" /\ rd = NBytes
  /\ gate' = GateThreshold
  /\ dirty' = {}
  /\ lastDirty' = {}
  /\ Return(FALSE)
  /\ UNCHANGED <<buf, sdVars, sdActive, sdChanged, ldf, file, pos, rd, bmTmp,
                 snap, flState, sector, byte, budget, histVars>>

(* _MFS_CMPCLR: clear the whole bitmap if it still equals the snapshot.    *)
ClosePass ==
  /\ pc = "close" /\ rd = NBytes
  /\ gate' = GateThreshold
  /\ \/ /\ bmTmp = snap
        /\ dirty' = {}
        /\ lastDirty' = {}
        /\ Return(FALSE)
     \/ /\ bmTmp # snap
        /\ Return(TRUE)
        /\ UNCHANGED <<dirty, lastDirty>>
  /\ UNCHANGED <<buf, sdVars, sdActive, sdChanged, ldf, file, pos, rd, bmTmp,
                 snap, flState, sector, byte, budget, histVars>>

-----------------------------------------------------------------------------
(* The Shell's menu and file browser.                                      *)

(* "mdv1:%s" is selected: OPTM_CB_SEL calls OSM_SEL_PRE first.             *)
SelectMdv ==
  /\ mode = "poll" /\ pc = "out"
  /\ budget["load"] > 0
  /\ mode' = "pre"
  /\ UNCHANGED <<coreVars, sdVars, sdActive, sdChanged, ldf, file, pos,
                 stepVars, budget, histVars>>

(* Another item with a file browser is selected (Main ROM, Back ROM, HD):  *)
(* OSM_SEL_PRE does nothing for it, and HANDLE_MOUNTING opens the browser. *)
(* (Leaving it resets the core: it is counted with the resets.)            *)
SelectOther ==
  /\ mode = "poll" /\ pc = "out"
  /\ Spend("reset")
  /\ mode' = "browseOther"
  /\ sdChanged' = FALSE
  /\ UNCHANGED <<coreVars, sdVars, sdActive, ldf, file, pos, stepVars, histVars>>

(* HANDLE_MOUNTING for the drive: a change noted so far is answered by      *)
(* re-mounting the card before the browser opens.                          *)
OpenBrowser ==
  /\ mode = "mount" /\ pc = "out"
  /\ mode' = "browse"
  /\ sdChanged' = FALSE
  /\ UNCHANGED <<coreVars, sdVars, sdActive, ldf, file, pos, stepVars, budget,
                 histVars>>

(* Run/Stop leaves the drive's browser.                                    *)
Cancel ==
  /\ mode = "browse" /\ pc = "out"
  /\ mode' = "poll"
  /\ UNCHANGED <<coreVars, sdVars, sdActive, sdChanged, ldf, file, pos,
                 stepVars, budget, histVars>>

(* The browser sees SD_CHANGED, resets it and re-mounts the card it finds  *)
(* into the same device handle.  A key pressed in the same round goes first. *)
BrowserRemount ==
  /\ mode \in Browsing /\ pc = "out"
  /\ sdChanged
  /\ sdChanged' = FALSE
  /\ UNCHANGED <<coreVars, sdVars, mode, sdActive, ldf, file, pos, stepVars,
                 budget, histVars>>

(* A file is chosen for the drive: LOAD_IMAGE opens it on the drive's one  *)
(* handle.                                                                 *)
Pick(f) ==
  /\ mode = "browse" /\ pc = "out"
  /\ CardOf[f] = card
  /\ Spend("load")
  /\ mode' = "load"
  /\ file' = f
  /\ pos' = <<0, 0>>
  /\ stale' = (flState = 1)
  /\ UNCHANGED <<coreVars, sdVars, sdActive, sdChanged, ldf, stepVars, risk,
                 foreign>>

(* LOAD_IMAGE's loop: no HANDLE_IO in here, the QL keeps running.          *)
LoadByte ==
  /\ mode = "load" /\ pos # EndOfFile
  /\ buf' = [buf EXCEPT ![pos] = disk[file][pos]]
  /\ risk' = risk \ {pos}
  /\ pos' = NextPos(pos)
  /\ UNCHANGED <<dirty, sdVars, mode, sdActive, sdChanged, ldf, file, stepVars,
                 budget, foreign, stale>>

(* The image is accepted.  Of a file that is too long, the loaded flag is    *)
(* set as well, but the browser stays open; that case is left out.          *)
LoadDone ==
  /\ mode = "load" /\ pos = EndOfFile
  /\ ldf' = TRUE
  /\ mode' = "poll"
  /\ UNCHANGED <<coreVars, sdVars, sdActive, sdChanged, file, pos, stepVars,
                 budget, histVars>>

(* The other item's browser is left, by a pick or by Run/Stop: OSM_SEL_POST *)
(* is called whatever HANDLE_MOUNTING's outcome, and resets the core.      *)
LeaveOther ==
  /\ mode = "browseOther" /\ pc = "out"
  /\ mode' = "poll"
  /\ ClearOnReset
  /\ UNCHANGED <<sdVars, sdActive, sdChanged, ldf, file, pos, stepVars, budget>>

-----------------------------------------------------------------------------
Firmware == \/ HandleIO \/ ForceStep
            \/ ReadBitmapByte \/ IdleDecide
            \/ StreamByte \/ StreamFatal \/ ClosePass
            \/ OpenBrowser \/ LoadByte \/ LoadDone

User == \/ SelectMdv \/ SelectOther \/ Cancel
        \/ BrowserRemount \/ LeaveOther
        \/ \E f \in Files : Pick(f)

Outside == \/ \E c \in Cells : QlWrite(c)
           \/ CoreReset \/ SwapCard

Next == Firmware \/ User \/ Outside

Spec == Init /\ [][Next]_vars

(* The Shell polls for ever: its loops have no way to stop but FATAL.      *)
FairSpec == Spec /\ WF_vars(Firmware)

-----------------------------------------------------------------------------
(* Properties.                                                             *)

Modes == {"poll", "pre", "mount", "load", "fatal"} \union Browsing

\* The type of every variable of the write-back and of its environment.
TypeOK ==
  /\ buf \in [Cells -> Nat]
  /\ dirty \subseteq Sectors
  /\ disk \in [Files -> [Cells -> Nat]]
  /\ card \in Cards
  /\ mode \in Modes
  /\ sdActive \in Cards
  /\ sdChanged \in BOOLEAN
  /\ ldf \in BOOLEAN
  /\ file \in Files \union {NoFile}
  /\ pos \in Cells \union {EndOfFile}
  /\ pc \in {"out", "idle", "stream", "close"}
  /\ rd \in 0 .. NBytes
  /\ bmTmp \subseteq Sectors
  /\ snap \subseteq Sectors
  /\ lastDirty \subseteq Sectors
  /\ gate \in 0 .. GateThreshold
  /\ flState \in {0, 1}
  /\ sector \in 0 .. NSectors
  /\ byte \in 0 .. SectorBytes
  /\ budget \in [Events -> Nat]
  /\ risk \subseteq Cells
  /\ foreign \in BOOLEAN
  /\ stale \in BOOLEAN

(* Cells of the loaded image that differ from its file.                    *)
Unsaved == {c \in Cells : /\ file # NoFile
                          /\ mode = "load" => Before(c, pos)
                          /\ buf[c] # disk[file][c]}

\* Whatever the QL changed and the file does not have yet is flagged dirty,
\* so that a later pass of MDV1_FLUSH_STEP writes it, unless the QL wrote it
\* in a loss window of a pass, the core was reset over it, or a pass went to
\* a card the image is not on.
UnsavedAccounted ==
  \A c \in Unsaved : c[1] \in dirty \/ c \in risk \/ foreign

\* MDV1_FLUSH_STEP puts a byte of the buffer at that very byte's place of the
\* image file, and touches no other: chunks of several calls continue where
\* the handle was left, sectors are sought.
WritesLandInPlace ==
  [][\A f \in Files, c \in Cells :
        disk'[f][c] # disk[f][c] =>
          f = file /\ c = Cursor /\ c[1] \in snap /\ disk'[f][c] = buf[c]]_vars

\* A sector the QL changed does not stay flagged: once the writes cease, the
\* gate opens, a pass writes it and the bitmap is cleared; unless a changed
\* card keeps the step away, or FATAL stopped the Shell.
DirtyIsFlushed ==
  \A s \in Sectors : s \in dirty ~> s \notin dirty \/ sdChanged \/ mode = "fatal"

\* OSM_SEL_PRE's forced loop ends, also when a card was swapped under it
\* ("guarantees this loop terminates", m2m-rom.asm:1018-1020).
ForcedFlushEnds == mode = "pre" ~> mode # "pre"

(* The way through one pass: nothing begun, the bitmap read byte by byte,    *)
(* the session from sector to sector (between two calls, or in one), and the *)
(* bitmap read again.                                                       *)
Position ==
  IF pc = "idle" THEN <<1, rd, 0, 0>>
  ELSE IF pc = "close" THEN <<3, rd, 0, 0>>
  ELSE IF flState = 1 THEN <<2, sector, byte, IF pc = "stream" THEN 1 ELSE 0>>
  ELSE <<0, 0, 0, 0>>

FurtherOn(p, q) ==
  \E i \in 1 .. 4 : p[i] < q[i] /\ \A j \in 1 .. i - 1 : p[j] = q[j]

(* What the pass knows of the bitmap is so still.                           *)
ReadIsCurrent == \A s \in Sectors : ByteOf[s] < rd => (s \in bmTmp <=> s \in dirty)
PassIsCurrent ==
  /\ pc \in {"idle", "close"} => ReadIsCurrent
  /\ pc = "close" \/ (pc # "idle" /\ flState = 1) => snap = dirty

(* The passes that may have to follow this one: one for each write and each  *)
(* reset to come, and one for those that came during this one.              *)
PassesToCome ==
  budget["write"] + budget["reset"] + (IF PassIsCurrent THEN 0 ELSE 1)

\* Each step of the firmware in OSM_SEL_PRE's loop brings the pass further on,
\* or ends one that a write or a reset has overtaken; nothing the QL, the reset
\* or the card slot does sets it back.  A changed card ends the loop.
ForcedFlushAdvances ==
  [][mode = "pre" /\ mode' = "pre" =>
       /\ PassesToCome' <= PassesToCome
       /\ PassesToCome' = PassesToCome =>
            IF Firmware THEN FurtherOn(Position, Position') ELSE Position' = Position]_vars

(* The way to a clean bitmap, from outside in: the writes and loads to come,  *)
(* with a pass each that they may overtake; the gate; the pass; the menu.    *)
OvertakersToCome ==
  2 * (budget["write"] + budget["load"]) + (IF PassIsCurrent THEN 0 ELSE 1)

GateLeft == IF lastDirty # dirty THEN GateThreshold + 1 ELSE gate

MenuPosition ==
  IF mode = "mount" THEN <<0, 0, 0, 0>>
  ELSE IF mode = "load" THEN <<1, pos[1], pos[2], 0>>
  ELSE <<2, 0, 0, 0>>

FlushDue == dirty # {} /\ ~sdChanged /\ mode # "fatal"

\* While something is dirty, each step of the Shell brings its flush nearer: it
\* ends a pass that a write overtook, counts the gate down, gets on in the pass
\* or out of a menu; and only a write or a load sets it back.
FlushAdvances ==
  [][FlushDue /\ FlushDue' =>
       \/ OvertakersToCome' < OvertakersToCome
       \/ /\ OvertakersToCome' = OvertakersToCome
          /\ \/ GateLeft' < GateLeft
             \/ GateLeft' = GateLeft /\ FurtherOn(Position, Position')
             \/ /\ GateLeft' = GateLeft /\ Position' = Position
                /\ IF Firmware THEN FurtherOn(MenuPosition, MenuPosition')
                               ELSE MenuPosition' = MenuPosition]_vars

(* The inductive strengthening of UnsavedAccounted and WritesLandInPlace.   *)

(* Where the CPU and the handle are in each phase of a session.            *)
SessionShape ==
  /\ pc # "out" => ldf /\ mode \in {"poll", "pre"} \union Browsing
  /\ pc = "stream" => flState = 1
  /\ pc = "close" => flState = 0
  /\ flState = 1 => /\ ldf
                    /\ sector \in snap
                    /\ byte \in 0 .. SectorBytes - 1
                    /\ mode # "load" => pos = IF stale THEN EndOfFile ELSE Cursor
                    /\ mode = "load" => stale
  /\ ldf \/ mode = "load" => file # NoFile

(* What a pass has behind it is saved, unless it was hit in a loss window. *)
StreamedIsSaved ==
  \A c \in Unsaved : Behind(c) /\ c[1] \in snap => c \in risk \/ foreign

(* The closing re-read misses nothing but what a loss window hides.        *)
RereadIsFresh ==
  pc = "close" =>
    \A c \in Unsaved :
      ByteOf[c[1]] < rd => c[1] \in bmTmp \/ c \in risk \/ foreign

\* The inductive invariant of the write-back: type, session shape, and the
\* three facts that tie the buffer, the file, the bitmap and the pass together.
IInv == TypeOK /\ SessionShape /\ UnsavedAccounted /\ StreamedIsSaved /\ RereadIsFresh

-----------------------------------------------------------------------------
(* What comments and the README say and the code does not do.              *)

\* README.md:90-92: the LED goes "back to red once they've been written out, so
\* a power cycle no longer discards anything": a clean bitmap, a saved file.
CleanMeansSaved == ldf /\ mode # "load" /\ dirty = {} => Unsaved = {}

\* m2m-rom.asm:411-418: sectors flagged during a pass "just risk being
\* redundantly rewritten, never lost": the pass that clears the bitmap leaves
\* nothing unsaved (checked without resets and swaps).
RewrittenNeverLost == [][ClosePass /\ dirty' = {} => Unsaved' = {}]_vars
=============================================================================
