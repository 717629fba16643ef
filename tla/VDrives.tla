------------------------------ MODULE VDrives ------------------------------
(***************************************************************************)
(* The QL-SD card: a hard disk image behind a virtual drive.               *)
(*                                                                         *)
(* A mounted image is copied into a RAM buffer.  The QL's SD card (the      *)
(* core) asks for sectors; the Shell's HANDLE_IO polls for requests, moves *)
(* the bytes between the core's sector buffer and the image buffer, and    *)
(* acknowledges.  vdrives.vhd watches: an acknowledged write makes the     *)
(* image dirty, and when no write was seen for a while it tells the Shell  *)
(* to start flushing; any write restarts that.  The Shell then copies the  *)
(* whole buffer to the file, some bytes per call of HANDLE_IO.             *)
(*                                                                         *)
(* Actors: the QL and its SD card, vdrives.vhd's clock (Tick, and every    *)
(* register write of the firmware is such an edge), the Shell (one thread),*)
(* its user, and the reset button.  One drive, as globals.vhd has it.      *)
(***************************************************************************)
EXTENDS Integers

CONSTANTS
  NLbas,        (* sectors of an image                                      *)
  BlockBytes,   (* bytes of a sector (512)                                  *)
  IterSize,     (* VD_ITERATION_SIZE (100): bytes flushed per call          *)
  Delay,        (* VD_ANTI_THRASHING_DELAY in clock edges                   *)
  Files,        (* image files                                              *)
  NoFile,       (* the handle before the first mount                        *)
  Original,     (* what each file holds at the start, byte by byte the same *)
  Budget        (* bounds: how often each kind of outside event happens     *)

Lbas   == 0 .. NLbas - 1
Size   == NLbas * BlockBytes      \* FDH_SIZE
Bytes  == 0 .. Size - 1
Events == {"write", "select", "button", "fail"}

ASSUME ParametersAssumption ==
  /\ NLbas \in Nat \ {0}
  /\ BlockBytes \in Nat \ {0}
  /\ IterSize \in Nat \ {0}
  /\ Delay \in Nat
  /\ NoFile \notin Files
  /\ Original \in [Files -> Nat]
  /\ Budget \in [Events -> Nat]

VARIABLES
  (* vdrives.vhd: the write latch, the three cache flags and the countdown, *)
  (* sd_ack, and drive_mounted_reg                                          *)
  cache, ack, mounted,
  (* the core's SD card: its request, sector number and sector buffer, and  *)
  (* whether it holds an image at all; the reset button                     *)
  core, lba, cbuf, present, button,
  (* the Shell: what the user is doing, where HANDLE_IO is, bytes of the    *)
  (* sector moved, VDRIVES_FL_4K/OFS, bytes of this iteration, the handle   *)
  mode, pc, at, cursor, iter, file, pos,
  (* the image buffer and the files on the card                             *)
  buf, disk,
  (* outside events still allowed (a bound of the model)                    *)
  budget,
  (* history: what the QL has put into each image since it was loaded, and  *)
  (* the images whose dirty flag was taken away with writes unsaved         *)
  written, dropped

hwVars    == <<cache, ack, mounted>>
coreVars  == <<core, lba, cbuf, present>>
flushVars == <<cursor, iter, pos>>
imageVars == <<buf, disk, written>>
vars      == <<hwVars, coreVars, button, mode, pc, at, flushVars, file,
               imageVars, budget, dropped>>

Spend(e) == /\ budget[e] > 0
            /\ budget' = [budget EXCEPT ![e] = @ - 1]

(* reset_core_i: the button, or the Shell's M2M$CSR_RESET.                  *)
Reset == button \/ mode = "reset"

-----------------------------------------------------------------------------
(* vdrives.vhd: one edge of the QNICE clock, and what a register write adds.*)

Cleared == [latch |-> FALSE, dirty |-> FALSE, flushing |-> FALSE,
            start |-> FALSE, count |-> Delay]

(* Seeded fault: a write restarts the countdown, not the flushing.          *)
RearmedFlushing(c) == [c EXCEPT !.latch = FALSE, !.start = FALSE, !.count = Delay]

(* Seeded fault: the write latch stays set ("it will keep resetting the     *)
(* counter", vdrives.vhd:369-370).                                          *)
RearmedLatched(c) == [c EXCEPT !.flushing = FALSE, !.start = FALSE, !.count = Delay]

(* A write stops the flushing and restarts the waiting period.              *)
Rearmed(c) == [c EXCEPT !.latch = FALSE, !.flushing = FALSE, !.start = FALSE,
                        !.count = Delay]

(* What every edge does: latch sd_wr, and count down while dirty.           *)
Watched(c, wr) ==
  IF c.dirty /\ c.latch
    THEN Rearmed(c)
    ELSE [c EXCEPT !.latch = @ \/ wr,
                   !.start = @ \/ (c.dirty /\ c.count = 0),
                   !.count = IF c.dirty /\ @ > 0 THEN @ - 1 ELSE @]

Edge == Watched(cache, core = "wr")

(* A write to sd_ack: if it answers a write, the cache is dirty from now on.*)
AckWritten == IF cache.latch THEN [Rearmed(Edge) EXCEPT !.dirty = TRUE] ELSE Edge

CleanWritten == [Edge EXCEPT !.dirty = FALSE, !.flushing = FALSE,
                             !.start = FALSE, !.count = Delay]

FlushingWritten == [Edge EXCEPT !.flushing = TRUE, !.start = FALSE]

(* Under reset the registers stay cleared and take nothing.                 *)
SetCache(c) == cache' = IF Reset THEN Cleared ELSE c
SetAck(b)   == ack' = (b /\ ~Reset)

Tick ==
  /\ SetCache(Edge)
  /\ UNCHANGED <<ack, mounted, coreVars, button, mode, pc, at, flushVars, file,
                 imageVars, budget, dropped>>

-----------------------------------------------------------------------------
(* The core: a request stands until its acknowledge is seen, and is over    *)
(* when the acknowledge is gone.                                            *)

Place(l, i)  == l * BlockBytes + i
Offset(b)    == b - Place(lba, 0)    \* within the sector asked for
Sector(b, l) == [i \in 0 .. BlockBytes - 1 |-> b[Place(l, i)]]

coreRest == <<hwVars, present, button, mode, pc, at, flushVars, file, imageVars,
              dropped>>

QlRead(l) ==
  /\ core = "idle" /\ present /\ ~Reset
  /\ core' = "rd"
  /\ lba' = l
  /\ UNCHANGED <<coreRest, cbuf, budget>>

(* The value is unique per write (the event budget), 1 and up.              *)
QlWrite(l) ==
  /\ core = "idle" /\ present /\ ~Reset
  /\ Spend("write")
  /\ core' = "wr"
  /\ lba' = l
  /\ cbuf' = [i \in 0 .. BlockBytes - 1 |-> budget["write"]]
  /\ UNCHANGED coreRest

SeesAck ==
  /\ core \in {"rd", "wr"} /\ ack
  /\ core' = IF core = "rd" THEN "rd_acked" ELSE "wr_acked"
  /\ UNCHANGED <<coreRest, lba, cbuf, budget>>

SeesAckGone ==
  /\ core \in {"rd_acked", "wr_acked"} /\ ~ack
  /\ core' = "idle"
  /\ UNCHANGED <<coreRest, lba, cbuf, budget>>

(* A core reset: the card forgets its request, vdrives.vhd everything; the  *)
(* image buffer and the core's sector buffer are memories and stay.         *)
ResetCore ==
  /\ core' = "idle"
  /\ cache' = Cleared
  /\ ack' = FALSE
  /\ mounted' = FALSE
  /\ dropped' = IF cache.dirty \/ pc \in {"wr_byte", "wr_ack"}
                  THEN dropped \union {file} ELSE dropped
  /\ UNCHANGED <<lba, cbuf, present>>

Press ==
  /\ ~button /\ Spend("button")
  /\ button' = TRUE
  /\ ResetCore
  /\ UNCHANGED <<mode, pc, at, flushVars, file, imageVars>>

Serving == {"rd_ack", "rd_byte", "rd_done", "wr_byte", "wr_ack", "wr_done"}

(* A press lasts 50 ms at least, longer than serving a request does.        *)
Release ==
  /\ button /\ pc \notin Serving
  /\ button' = FALSE
  /\ UNCHANGED <<hwVars, coreVars, mode, pc, at, flushVars, file, imageVars,
                 budget, dropped>>

-----------------------------------------------------------------------------
(* HANDLE_IO: serve a read request, then a write request, then the flush.   *)

(* The firmware is slower than the crossings: by the time it looks at the    *)
(* requests, or lowers the acknowledge, the core has seen its last one.      *)
Settled == ~(core \in {"rd_acked", "wr_acked"} /\ ~ack)
Seen    == ~(core \in {"rd", "wr"} /\ ack)

PollRead ==
  /\ pc = "out" /\ mode \in {"run", "browse"} /\ Settled
  /\ pc' = IF core = "rd" THEN "rd_ack" ELSE "poll_wr"
  /\ UNCHANGED <<hwVars, coreVars, button, mode, at, flushVars, file, imageVars,
                 budget, dropped>>

AckRead ==
  /\ pc = "rd_ack"
  /\ SetAck(TRUE) /\ SetCache(AckWritten)
  /\ at' = 0
  /\ pc' = "rd_byte"
  /\ UNCHANGED <<mounted, coreVars, button, mode, flushVars, file, imageVars,
                 budget, dropped>>

(* Seeded fault: the sector's window and offset are not selected.           *)
SendByteUnplaced ==
  /\ pc = "rd_byte"
  /\ cbuf' = IF ack THEN [cbuf EXCEPT ![at] = buf[at]] ELSE cbuf
  /\ SetCache(Edge)
  /\ at' = at + 1
  /\ pc' = IF at + 1 = BlockBytes THEN "rd_done" ELSE pc
  /\ UNCHANGED <<ack, mounted, core, lba, present, button, mode, flushVars, file,
                 imageVars, budget, dropped>>

(* _HDR_SEND_LOOP; the core's buffer takes the byte only under sd_ack.      *)
SendByte ==
  /\ pc = "rd_byte"
  /\ cbuf' = IF ack THEN [cbuf EXCEPT ![at] = buf[Place(lba, at)]] ELSE cbuf
  /\ SetCache(Edge)
  /\ at' = at + 1
  /\ pc' = IF at + 1 = BlockBytes THEN "rd_done" ELSE pc
  /\ UNCHANGED <<ack, mounted, core, lba, present, button, mode, flushVars, file,
                 imageVars, budget, dropped>>

AckReadOff ==
  /\ pc = "rd_done" /\ Seen
  /\ SetAck(FALSE) /\ SetCache(AckWritten)
  /\ pc' = "poll_wr"
  /\ UNCHANGED <<mounted, coreVars, button, mode, at, flushVars, file, imageVars,
                 budget, dropped>>

PollWrite ==
  /\ pc = "poll_wr" /\ Settled
  /\ at' = 0
  /\ pc' = IF core = "wr" THEN "wr_byte" ELSE "poll_fl"
  /\ UNCHANGED <<hwVars, coreVars, button, mode, flushVars, file, imageVars,
                 budget, dropped>>

(* _HDW_NEXT_BYTE.  Under reset sd_buff_addr stays 0, and the rest of the    *)
(* sector is filled with that byte.                                         *)
CopyByte ==
  /\ pc = "wr_byte"
  /\ buf' = [buf EXCEPT ![Place(lba, at)] = cbuf[IF Reset THEN 0 ELSE at]]
  /\ SetCache(Edge)
  /\ at' = at + 1
  /\ IF at + 1 = BlockBytes
       THEN /\ pc' = "wr_ack"
            /\ written' = [written EXCEPT ![file] =
                 IF Reset THEN buf'
                 ELSE [b \in Bytes |-> IF Offset(b) \in 0 .. BlockBytes - 1
                                         THEN cbuf[Offset(b)] ELSE @[b]]]
       ELSE UNCHANGED <<pc, written>>
  /\ UNCHANGED <<ack, mounted, coreVars, button, mode, flushVars, file, disk,
                 budget, dropped>>

AckWrite ==
  /\ pc = "wr_ack"
  /\ SetAck(TRUE) /\ SetCache(AckWritten)
  /\ pc' = "wr_done"
  /\ UNCHANGED <<mounted, coreVars, button, mode, at, flushVars, file, imageVars,
                 budget, dropped>>

(* Seeded fault: the acknowledge of a write is not taken back.              *)
AckWriteStays ==
  /\ pc = "wr_done" /\ Seen
  /\ SetCache(AckWritten)
  /\ pc' = "poll_fl"
  /\ UNCHANGED <<ack, mounted, coreVars, button, mode, at, flushVars, file,
                 imageVars, budget, dropped>>

AckWriteOff ==
  /\ pc = "wr_done" /\ Seen
  /\ SetAck(FALSE) /\ SetCache(AckWritten)
  /\ pc' = "poll_fl"
  /\ UNCHANGED <<mounted, coreVars, button, mode, at, flushVars, file, imageVars,
                 budget, dropped>>

(* FLUSH_CACHE: under way, to be started, or neither.  (Only this thread     *)
(* sets dirty and flushing: reading the flags one by one shows no more.)     *)
PollFlush ==
  /\ pc = "poll_fl"
  /\ iter' = 0
  /\ pc' = IF cache.dirty /\ cache.flushing THEN "fl_byte"
           ELSE IF cache.dirty /\ cache.start THEN "fl_start" ELSE "out"
  /\ UNCHANGED <<hwVars, coreVars, button, mode, at, cursor, pos, file,
                 imageVars, budget, dropped>>

(* _FC_PREP, _FC_START                                                      *)
StartFlush ==
  /\ pc = "fl_start"
  /\ cursor' = 0
  /\ pos' = 0
  /\ SetCache(FlushingWritten)
  /\ pc' = "out"
  /\ UNCHANGED <<ack, mounted, coreVars, button, mode, at, iter, file, imageVars,
                 budget, dropped>>

(* Seeded fault: the position is remembered before it is advanced.          *)
FlushByteBehind ==
  /\ pc = "fl_byte" /\ pos < Size
  /\ disk' = [disk EXCEPT ![file][pos] = buf[cursor]]
  /\ pos' = pos + 1
  /\ cursor' = IF iter + 1 = IterSize THEN cursor ELSE cursor + 1
  /\ iter' = iter + 1
  /\ pc' = IF cursor + 1 = Size THEN "fl_clean"
           ELSE IF iter + 1 = IterSize THEN "out" ELSE pc
  /\ UNCHANGED <<hwVars, coreVars, button, mode, at, file, buf, written, budget,
                 dropped>>

(* _FC_FL: f32_fwrite writes where the handle is, and the call ends with    *)
(* the image or with the iteration.                                         *)
FlushByte ==
  /\ pc = "fl_byte" /\ pos < Size
  /\ disk' = [disk EXCEPT ![file][pos] = buf[cursor]]
  /\ pos' = pos + 1
  /\ cursor' = cursor + 1
  /\ iter' = iter + 1
  /\ pc' = IF cursor + 1 = Size THEN "fl_clean"
           ELSE IF iter + 1 = IterSize THEN "out" ELSE pc
  /\ UNCHANGED <<hwVars, coreVars, button, mode, at, file, buf, written, budget,
                 dropped>>

(* _FC_DONE                                                                 *)
MarkClean ==
  /\ pc = "fl_clean"
  /\ SetCache(CleanWritten)
  /\ dropped' = dropped \ {file}
  /\ pc' = "out"
  /\ UNCHANGED <<ack, mounted, coreVars, button, mode, at, flushVars, file,
                 imageVars, budget>>

(* f32_fseek, f32_fwrite or f32_fflush reports an error: FATAL.             *)
FlushFatal ==
  /\ pc \in {"fl_start", "fl_byte", "fl_clean"} /\ Spend("fail")
  /\ mode' = "fatal"
  /\ pc' = "out"
  /\ UNCHANGED <<hwVars, coreVars, button, at, flushVars, file, imageVars, dropped>>

-----------------------------------------------------------------------------
(* The menu.  The QL goes on while it is open.                              *)

menuRest == <<coreVars, button, pc, at, flushVars>>

(* HANDLE_MOUNTING: a drive known as mounted is refused while it is dirty   *)
(* (unmounting one that is clean needs a mounted drive too: the reset after *)
(* every selection leaves none).  Otherwise the file browser opens.         *)
Select ==
  /\ mode = "run" /\ pc = "out" /\ Spend("select")
  /\ mode' = IF mounted /\ cache.dirty THEN "post" ELSE "browse"
  /\ UNCHANGED <<menuRest, hwVars, file, imageVars, dropped>>

(* Another item that resets the core: RAM size, CPU speed, a ROM.           *)
SelectOther ==
  /\ mode = "run" /\ pc = "out" /\ Spend("select")
  /\ mode' = "post"
  /\ UNCHANGED <<menuRest, hwVars, file, imageVars, dropped>>

Cancel ==
  /\ mode = "browse" /\ pc = "out"
  /\ mode' = "post"
  /\ UNCHANGED <<menuRest, hwVars, file, imageVars, budget, dropped>>

(* LOAD_IMAGE reads the file to its end, without HANDLE_IO; VD_STROBE_IM    *)
(* then tells the core.                                                     *)
Pick(f) ==
  /\ mode = "browse" /\ pc = "out"
  /\ mode' = "post"
  /\ file' = f
  /\ buf' = disk[f]
  /\ pos' = Size
  /\ mounted' = (mounted \/ ~Reset)
  /\ present' = (present \/ ~Reset)
  /\ written' = [written EXCEPT ![f] = disk[f]]
  /\ dropped' = (IF cache.dirty THEN dropped \union {file} ELSE dropped) \ {f}
  /\ UNCHANGED <<cache, ack, core, lba, cbuf, button, pc, at, cursor, iter, disk,
                 budget>>

(* OSM_SEL_POST: 333 ms of core reset, whatever became of the selection.    *)
PostReset ==
  /\ mode = "post"
  /\ mode' = "reset"
  /\ ResetCore
  /\ UNCHANGED <<button, pc, at, flushVars, file, imageVars, budget>>

PostDone ==
  /\ mode = "reset"
  /\ mode' = "run"
  /\ UNCHANGED <<menuRest, hwVars, file, imageVars, budget, dropped>>

-----------------------------------------------------------------------------
Init ==
  /\ cache = Cleared
  /\ ack = FALSE
  /\ mounted = FALSE
  /\ core = "idle"
  /\ lba = 0
  /\ cbuf = [i \in 0 .. BlockBytes - 1 |-> 0]
  /\ present = FALSE
  /\ button = FALSE
  /\ mode = "run"
  /\ pc = "out"
  /\ at = 0 /\ cursor = 0 /\ iter = 0 /\ pos = 0
  /\ file = NoFile
  /\ buf = [b \in Bytes |-> 0]
  /\ disk = [f \in Files |-> [b \in Bytes |-> Original[f]]]
  /\ budget = Budget
  /\ written = disk
  /\ dropped = {}

Core == SeesAck \/ SeesAckGone

Firmware == \/ PollRead \/ AckRead \/ SendByte \/ AckReadOff
            \/ PollWrite \/ CopyByte \/ AckWrite \/ AckWriteOff
            \/ PollFlush \/ StartFlush \/ FlushByte \/ MarkClean
            \/ PostReset \/ PostDone

Outside == \/ \E l \in Lbas : QlRead(l) \/ QlWrite(l)
           \/ \E f \in Files : Pick(f)
           \/ Select \/ SelectOther \/ Cancel
           \/ Press \/ Release \/ FlushFatal

Next == Tick \/ Core \/ Firmware \/ Outside

Spec == Init /\ [][Next]_vars

(* The clock ticks, the card reacts, and the Shell polls for ever.          *)
FairSpec == Spec /\ WF_vars(Tick) /\ WF_vars(Core) /\ WF_vars(Firmware)

-----------------------------------------------------------------------------
(* Properties.                                                              *)

Flags == [latch : BOOLEAN, dirty : BOOLEAN, flushing : BOOLEAN, start : BOOLEAN,
          count : 0 .. Delay]

\* The type of every variable.
TypeOK ==
  /\ cache \in Flags
  /\ {ack, mounted, present, button} \subseteq BOOLEAN
  /\ core \in {"idle", "rd", "wr", "rd_acked", "wr_acked"}
  /\ lba \in Lbas
  /\ cbuf \in [0 .. BlockBytes - 1 -> Nat]
  /\ mode \in {"run", "browse", "post", "reset", "fatal"}
  /\ pc \in {"out", "rd_ack", "rd_byte", "rd_done", "poll_wr", "wr_byte", "wr_ack",
             "wr_done", "poll_fl", "fl_start", "fl_byte", "fl_clean"}
  /\ at \in 0 .. BlockBytes
  /\ cursor \in 0 .. Size /\ pos \in 0 .. Size
  /\ iter \in 0 .. IterSize
  /\ file \in Files \union {NoFile}
  /\ buf \in [Bytes -> Nat]
  /\ disk \in [Files -> [Bytes -> Nat]]
  /\ written \in [Files -> [Bytes -> Nat]]
  /\ budget \in [Events -> Nat]
  /\ dropped \subseteq Files

\* An image file holds what the QL wrote, or the drive is dirty (or about to be
\* acknowledged), or a reset or a new mount took the dirty flag away: a flush
\* that a write interrupts starts over, and one that ends while a write waits
\* leaves that write its own dirty flag.
UnsavedAccounted ==
  \A f \in Files :
    \/ f = file /\ (cache.dirty \/ pc = "wr_ack")
    \/ f \in dropped
    \/ disk[f] = written[f]

\* FLUSH_CACHE puts a byte of the buffer at the same place of the mounted file,
\* and only while it runs: calls continue where the handle was left, and a
\* restart seeks to the beginning.
FlushInPlace ==
  [][\A f \in Files, b \in Bytes :
        disk'[f][b] # disk[f][b] =>
          f = file /\ b = cursor /\ pc = "fl_byte" /\ disk'[f][b] = buf[b]]_vars

\* The QL reads back what it wrote, flushed or not, also across resets that
\* lose the dirty flag: when a read's acknowledge goes down its sector buffer
\* holds the image's sector.
ReadsCurrent ==
  pc = "rd_done" /\ core = "rd_acked" => cbuf = Sector(written[file], lba)

\* A request of the core does not stand for ever, whatever the user, the flush
\* and resets do; unless FATAL stopped the Shell.
RequestsServed == core # "idle" ~> core = "idle" \/ mode = "fatal"

\* Once the QL's writes cease, the waiting period ends, the flush starts, is not
\* restarted for ever, and the drive gets clean, unless it stopped in FATAL.
DirtyIsFlushed == cache.dirty ~> ~cache.dirty \/ mode = "fatal"

(* The way of a request: round the Shell's loop to where it is noticed, the  *)
(* sector byte by byte, the acknowledge up and down.                        *)
Withdrawn == core \in {"rd_acked", "wr_acked"} /\ ~ack

Turn ==
  CASE pc = "poll_wr" /\ core \in {"rd", "rd_acked"} -> 1
    [] pc = "poll_fl"                 -> 2
    [] pc \in {"fl_start", "fl_byte"} -> 3
    [] pc = "fl_clean"                -> 4
    [] pc = "out"                     -> 5
    [] pc = "rd_ack" \/ (pc = "poll_wr" /\ core \notin {"rd", "rd_acked"}) -> 6
    [] pc \in {"rd_byte", "wr_byte"}  -> 7
    [] pc \in {"rd_done", "wr_ack"}   -> 8
    [] pc = "wr_done"                 -> 9

Way == << IF Withdrawn THEN 1 ELSE 0,
          Turn,
          IF pc = "fl_byte" THEN iter ELSE IF pc \in {"rd_byte", "wr_byte"} THEN at ELSE 0,
          IF core \in {"rd_acked", "wr_acked"} THEN 1 ELSE 0 >>

FurtherOn(p, q) ==
  \E i \in 1 .. 4 : p[i] < q[i] /\ \A j \in 1 .. i - 1 : p[j] = q[j]

\* No step of the Shell or of the card is idle or goes back while a request
\* stands, flush or not, and nobody else sets one back.
RequestAdvances ==
  [][core # "idle" /\ core' # "idle" /\ mode' # "fatal" =>
       IF Core \/ Firmware THEN FurtherOn(Way, Way') ELSE Way' = Way]_vars

(* Somebody has a step to take.                                             *)
SomebodyMoves ==
  \/ core \in {"rd", "wr"} /\ ack
  \/ Withdrawn
  \/ pc = "out" /\ (mode = "post" \/ (mode \in {"run", "browse"} /\ Settled))
  \/ pc \in {"rd_ack", "rd_byte", "wr_byte", "wr_ack", "poll_fl", "fl_start", "fl_clean"}
  \/ pc \in {"rd_done", "wr_done"} /\ Seen
  \/ pc = "poll_wr" /\ Settled
  \/ pc = "fl_byte" /\ pos < Size

\* The card and the Shell do not wait for each other: while a request stands one
\* of the two has a step to take.
NoRequestStuck == core # "idle" => mode = "fatal" \/ SomebodyMoves

(* The way to a clean drive, from outside in: writes to come, and one that    *)
(* vdrives.vhd has yet to see; the waiting period, the start and the flush;  *)
(* and the Shell's loop, from one look at the flags to the next.            *)
WritesToCome ==
  2 * budget["write"] + (IF core = "wr" \/ cache.latch THEN 1 ELSE 0)

Stage == IF cache.flushing THEN <<2, cursor, 0, 0>>
         ELSE IF cache.start THEN <<1, 0, 0, 0>>
         ELSE <<0, Delay - cache.count, 0, 0>>

Round ==
  CASE pc = "out"              -> <<1, 0, 0, 0>>
    [] pc = "rd_ack"           -> <<2, 0, 0, 0>>
    [] pc = "rd_byte"          -> <<3, at, 0, 0>>
    [] pc = "rd_done"          -> <<4, 0, 0, 0>>
    [] pc = "poll_wr"          -> <<5, 0, 0, 0>>
    [] pc = "wr_byte"          -> <<6, at, 0, 0>>
    [] pc = "wr_ack"           -> <<7, 0, 0, 0>>
    [] pc = "wr_done"          -> <<8, 0, 0, 0>>
    [] pc = "poll_fl"          -> <<9, 0, 0, 0>>
    [] pc = "fl_start"         -> <<10, 0, 0, 0>>
    [] pc = "fl_byte"          -> <<IF cache.flushing THEN 10 ELSE 0, iter, 0, 0>>
    [] pc = "fl_clean"         -> <<11, 0, 0, 0>>

\* A dirty drive gets clean: a write ends, and with every edge of the clock the
\* waiting period gets shorter, and then with every step of the Shell, whatever
\* it serves meanwhile, the flush gets on; only a write sets it back.
FlushGoesOn ==
  [][cache.dirty /\ cache'.dirty /\ mode' # "fatal" =>
       \/ WritesToCome' < WritesToCome
       \/ /\ WritesToCome' = WritesToCome
          /\ IF core = "wr" THEN Core \/ Firmware => FurtherOn(Way, Way')
             ELSE IF cache.latch THEN core' # "wr" /\ ~Tick
             ELSE \/ FurtherOn(Stage, Stage')
                  \/ /\ Stage' = Stage
                     /\ Stage[1] = 0 => ~Tick
                     /\ Stage[1] > 0 =>
                          IF Firmware THEN FurtherOn(Round, Round') ELSE Round' = Round]_vars

\* A dirty drive never waits in vain: a write that is over, or a waiting period,
\* has an edge of the clock to come that changes something, and everything else a
\* step of the card or the Shell.
NoFlushStuck ==
  cache.dirty =>
    \/ mode = "fatal"
    \/ IF core # "wr" /\ (cache.latch \/ Stage[1] = 0) THEN Edge # cache
                                                       ELSE SomebodyMoves

(* The inductive strengthening.                                             *)

(* What a service relies on: the core stands still, unless it is in reset.  *)
ServiceShape ==
  /\ pc # "out" => mode \in {"run", "browse"}
  /\ Reset => cache = Cleared /\ core = "idle" /\ ~ack
  /\ ack => pc \in {"rd_byte", "rd_done", "wr_done"}
  /\ pc = "rd_ack" => Reset \/ core = "rd"
  /\ pc \in {"rd_byte", "rd_done"} => Reset \/ (ack /\ core \in {"rd", "rd_acked"})
  /\ pc \in {"wr_byte", "wr_ack"} => Reset \/ core = "wr"
  /\ pc \in {"rd_byte", "wr_byte"} => at < BlockBytes
  /\ present \/ cache.dirty \/ pc \in Serving \union {"fl_start", "fl_byte", "fl_clean"}
       => file \in Files
  /\ core # "idle" => present

(* The image buffer holds what the QL wrote, and so far as it is copied the  *)
(* sector it is writing; the core's buffer what it is sent.                 *)
BufferShape ==
  /\ file \in Files /\ pc # "wr_byte" => buf = written[file]
  /\ pc = "wr_byte" =>
       \A b \in Bytes : IF Offset(b) \in 0 .. at - 1
                          THEN Reset \/ buf[b] = cbuf[Offset(b)]
                          ELSE buf[b] = written[file][b]
  /\ pc \in {"rd_byte", "rd_done"} /\ ~Reset =>
       \A i \in 0 .. BlockBytes - 1 :
          i < at \/ pc = "rd_done" => cbuf[i] = buf[Place(lba, i)]

(* The sector is in the buffer, in part or whole, and not acknowledged yet. *)
Changing == pc = "wr_ack" \/ (pc = "wr_byte" /\ at > 0)

(* The flush has copied all that lies before its position.                  *)
Flushed == /\ pos = cursor /\ cursor < Size
           /\ \A b \in Bytes : b < cursor => disk[file][b] = buf[b]

(* What a write in progress has set in motion, and where the flush is.      *)
FlushShape ==
  /\ Changing => Reset \/ cache.latch \/ (cache.dirty /\ ~cache.flushing)
  /\ pc \in {"wr_byte", "wr_ack"} /\ Reset => file \in dropped
  /\ pc = "fl_byte" => Flushed /\ iter < IterSize
  /\ pc = "fl_clean" => \A b \in Bytes : disk[file][b] = buf[b]
  /\ cache.flushing /\ mode \in {"run", "browse"} =>
       Flushed \/ Changing \/ pc = "fl_clean"

\* The inductive invariant behind the safety properties.
IInv == TypeOK /\ ServiceShape /\ BufferShape /\ FlushShape /\ UnsavedAccounted

=============================================================================
