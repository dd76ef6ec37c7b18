-------------------------------- MODULE Fdc --------------------------------
(***************************************************************************)
(* The floppy controller (src/src/hardware/fdc.c) with channel 2 of the    *)
(* 8237 (dma.c) and the disk layer behind it: three machines that call     *)
(* each other within one write to a port.                                  *)
(*                                                                         *)
(* A command is a first byte, a number of further ones and the job they    *)
(* describe.  Contents are one value per sector; the DMA channel counts    *)
(* sectors (headers of four bytes in a format), 0 being the one byte a     *)
(* count that has ended leaves.  The guest is a driver that programs the   *)
(* channel, writes the command and waits for the result; it may reset the  *)
(* controller or select the other drive at any time.                       *)
(***************************************************************************)
EXTENDS Naturals

CONSTANTS NumSectors,    \* of a drive
          TrackSectors,  \* drive_spt
          Heads,         \* drive_heads
          BlockSectors,  \* of the disk layer
          Chunked,       \* drives whose blocks are loaded on demand
          Protected,     \* drives that are write-protected
          FdcUses        \* what the driver does, see FdcUse

Drives == {0, 1}
Sectors == 0 .. NumSectors - 1
Ops == {"read", "write", "format", "calibrate", "configure", "sense", "version"}
Transfers == {"read", "write", "format"}

\* bad: the command's bytes contradict each other (head, sectors per track).
Jobs ==
  {j \in [op : Ops, drive : Drives, first : Sectors, count : 1 .. TrackSectors, bad : BOOLEAN] :
     /\ j.first + j.count - 1 \in Sectors
     /\ j.op = "format" => j.count = TrackSectors}

\* jobs: what it asks for; runs: how often; polls: it does not wait for IRQ 6;
\* dor: it writes the digital output register before a command; late: it may
\* unmask the channel after the command; resets, reselects: see below.
FdcUse == [jobs : SUBSET Jobs, runs : Nat, polls : BOOLEAN, dor : BOOLEAN,
           late : BOOLEAN, resets : BOOLEAN, reselects : BOOLEAN]

ASSUME FdcAssumption ==
  /\ {NumSectors, TrackSectors, Heads, BlockSectors} \subseteq Nat \ {0}
  /\ FdcUses \subseteq FdcUse

VARIABLES fuse,    \* an element of FdcUses, chosen at the start
          fdc,     \* controller, channel, memory and drives
          driver

fdcVars == <<fuse, fdc, driver>>

(***************************************************************************)
(* fdc is a record.  Of struct fdc: sel (selected_drive), msr, cmd (byte 0 *)
(* of command_buffer), pos, size, left (of the response), ok (its status), *)
(* at, lba (where it is), wlen (write_length), fpos, fend, fill (of a      *)
(* format), buf (dmabuf).  Of the 8259: line, irr of IRQ 6.  Of the        *)
(* channel: masked, req, toMem, addr, count.  mem is the guest's memory.   *)
(* Of the disk layer: content, cached, slot; a drive that is not chunked   *)
(* is one with raw file access.  fatal: the program has ended.  Not in the *)
(* code: formats, how many have begun, and deferred, that the one of the   *)
(* last command had to wait for a block.                                   *)
(***************************************************************************)

\* fdc_raise_irq(), fdc_lower_irq(): an edge on a line that stays high.
RaiseIrq6(f) == [f EXCEPT !.irr = @ \/ ~f.line, !.line = TRUE]
LowerIrq6(f) == [f EXCEPT !.irr = FALSE, !.line = FALSE]

\* reset_cmd_fifo(), reset_out_fifo().
ResetCmdFifo(f) == [f EXCEPT !.pos = 0, !.size = 0]
ResetOutFifo(f, n, ok) ==
  [f EXCEPT !.left = n, !.ok = ok,
            !.msr = IF n = 0 THEN @ \ {"cb", "dio"} ELSE @ \cup {"cb", "dio"}]

\* The result phase, with msr as it is (abort_command, a format that is done)
\* and set first (fdc_write_cb(), fdc_dma_complete()).
Result(f, ok) == RaiseIrq6(ResetCmdFifo(ResetOutFifo(f, 7, ok)))
Abort(f) == Result(f, FALSE)
Done(f) == Result([f EXCEPT !.msr = {"rqm"}, !.at[f.sel] = (@ + 1) % NumSectors], TRUE)

\* fdc_seek(), to a sector of the disk.
Seek(f, d, s) == [f EXCEPT !.at[d] = s, !.lba[d] = s]

(***************************************************************************)
(* The disk layer.                                                         *)
(***************************************************************************)
Touched(first, n) == {s \in Sectors : s >= first /\ s < first + n}
BlockNo(s) == s \div BlockSectors

Loaded(f, d) == IF d \in Chunked THEN {s \in Sectors : BlockNo(s) \in f.cached[d]} ELSE Sectors

\* What a pass over the blocks reads to dmabuf and writes from it.
CopiedIn(f, d, first, S) ==
  [f EXCEPT !.buf = [i \in DOMAIN @ |-> IF first + i \in S THEN f.content[d][first + i] ELSE @[i]]]
CopiedOut(f, d, first, S) ==
  [f EXCEPT !.content[d] = [s \in Sectors |-> IF s \in S THEN f.buf[s - first] ELSE @[s]]]

\* The request is kept in the one slot, whatever that held, and its blocks loaded.
Deferred(f, op, d, first, n) ==
  [f EXCEPT !.slot = [busy |-> TRUE, op |-> op, drive |-> d, first |-> first, count |-> n],
            !.cached[d] = @ \cup {BlockNo(s) : s \in Touched(first, n)}]

(***************************************************************************)
(* The end of a transfer.                                                  *)
(***************************************************************************)
\* fdc_handle_format(): the sectors the headers in dmabuf name are written
\* until one has to wait for its block.  Anything but a header is fatal.
HandleFormat(f) ==
  LET todo    == f.fpos .. f.fend - 1
      place   == [i \in todo |-> f.buf[i][3]]
      waiting == {i \in todo : place[i] \notin Loaded(f, f.sel)}
      next    == CHOOSE i \in waiting : \A k \in waiting : i <= k
      last    == IF waiting = {} THEN f.fend - 1 ELSE next
      written == {place[i] : i \in {k \in todo : waiting # {} => k < next}}
      g == [Seek(f, f.sel, place[last]) EXCEPT
              !.content[f.sel] = [s \in Sectors |-> IF s \in written THEN f.fill ELSE @[s]],
              !.fpos = last + 1]
      headers == \A i \in todo : f.buf[i][1] = "header"
  IN CASE ~headers -> [f EXCEPT !.fatal = TRUE]
       [] headers /\ todo = {} -> Result(f, TRUE)
       [] headers /\ todo # {} /\ waiting = {} -> Result(g, TRUE)
       [] OTHER -> Deferred([g EXCEPT !.msr = {"cb"}, !.deferred = TRUE],
                            "format", f.sel, place[next], 1)

\* The write of a command, to the drive and the place that are selected now.
\* For no bytes at the beginning of a block the number of blocks wraps.
DriveWrite(f) ==
  LET d == f.sel
      S == Touched(f.lba[d], f.wlen)
      g == CopiedOut(f, d, f.lba[d], S \cap Loaded(f, d))
  IN CASE S = {} /\ d \in Chunked /\ f.lba[d] % BlockSectors = 0 -> [f EXCEPT !.fatal = TRUE]
       [] S # {} /\ ~(S \subseteq Loaded(f, d)) ->
            Deferred([g EXCEPT !.msr = @ \cup {"cb"}], "write", d, f.lba[d], f.wlen)
       [] OTHER -> Done(g)

\* fdc_dma_complete(): the command byte says what was transferred.
DmaComplete(f) ==
  CASE f.cmd = "format" -> HandleFormat(f)
    [] f.cmd = "write"  -> DriveWrite(f)
    [] f.cmd = "read"   -> Done(f)
    [] OTHER -> f

(***************************************************************************)
(* The DMA channel.                                                        *)
(***************************************************************************)
Torn == <<"torn", 0, 0>>

\* Memory and dmabuf after the transfer; of a single byte, one that is spoilt.
Copied(f) ==
  LET n == IF f.count = 0 THEN 1 ELSE f.count
      value(v) == IF f.count = 0 THEN Torn ELSE v
      g == IF f.toMem
             THEN [f EXCEPT !.mem = [a \in DOMAIN @ |->
                      IF a >= f.addr /\ a < f.addr + n THEN value(f.buf[a - f.addr]) ELSE @[a]]]
             ELSE [f EXCEPT !.buf = [i \in DOMAIN @ |->
                      IF i < n /\ f.addr + i \in DOMAIN f.mem
                             THEN value(f.mem[f.addr + i]) ELSE @[i]]]
  IN [g EXCEPT !.req = FALSE, !.addr = @ + f.count, !.count = 0]

\* dma_run_transfers().
RunTransfers(f) == IF f.req /\ ~f.masked THEN DmaComplete(Copied(f)) ELSE f

\* Mutant: a request is lost if the channel is masked.
RaiseDreqUnmasked(f) == IF f.masked THEN f ELSE RunTransfers([f EXCEPT !.req = TRUE])

\* dma_raise_dreq().
RaiseDreq(f) == RunTransfers([f EXCEPT !.req = TRUE])

(***************************************************************************)
(* Commands.                                                               *)
(***************************************************************************)
CommandSize ==
  [read |-> 9, write |-> 9, format |-> 6, calibrate |-> 2, configure |-> 4, sense |-> 1,
   version |-> 1]

\* fdc_read_cb() goes on in fdc_dma_complete().
ExecuteRead(f, j) ==
  LET d == j.drive
      S == Touched(j.first, j.count)
      g == CopiedIn(Seek([f EXCEPT !.sel = d], d, j.first), d, j.first, S \cap Loaded(f, d))
      busy == [g EXCEPT !.msr = @ \cup {"cb"}]
  IN CASE j.bad -> Abort([f EXCEPT !.sel = d])
       [] ~j.bad /\ S \subseteq Loaded(f, d) -> RaiseDreq(busy)
       [] OTHER -> Deferred(busy, "read", d, j.first, j.count)

ExecuteWrite(f, j) ==
  LET g == [f EXCEPT !.sel = j.drive]
      sought == Seek(g, j.drive, j.first)
  IN CASE j.bad -> Abort(g)
       [] ~j.bad /\ j.drive \in Protected -> Abort(sought)
       [] OTHER -> RaiseDreq([sought EXCEPT !.wlen = j.count])

\* The FIFO is not reset, and format_dma_pos is not set.
ExecuteFormat(f, j, n) ==
  LET g == [f EXCEPT !.sel = j.drive, !.formats = @ + 1]
  IN IF j.bad \/ j.drive \in Protected THEN Abort(g)
     ELSE RaiseDreq([g EXCEPT !.fend = j.count, !.fill = <<"fill", n, 0>>])

Execute(f, j, n) ==
  CASE f.cmd = "read"      -> ResetCmdFifo(ExecuteRead(f, j))
    [] f.cmd = "write"     -> ResetCmdFifo(ExecuteWrite(f, j))
    [] f.cmd = "format"    -> ExecuteFormat(f, j, n)
    [] f.cmd = "calibrate" -> ResetCmdFifo(RaiseIrq6(Seek(f, j.drive, 0)))
    [] f.cmd = "configure" -> ResetCmdFifo([f EXCEPT !.msr = {"rqm"}])

\* The first byte; two commands have no other.
BeginCommand(f, op) ==
  CASE op = "sense"   -> ResetCmdFifo(RaiseIrq6(ResetOutFifo(f, 2, TRUE)))
    [] op = "version" -> ResetCmdFifo(ResetOutFifo(f, 1, TRUE))
    [] OTHER -> [f EXCEPT !.size = CommandSize[op]]

\* A write to port 3F5.
WriteFifo(f, j, n) ==
  LET g == [f EXCEPT !.pos = @ + 1, !.cmd = IF f.pos = 0 THEN j.op ELSE @]
  IN CASE g.pos = f.size -> Execute(g, j, n)
       [] f.size = 0 -> BeginCommand(g, j.op)
       [] OTHER -> g

\* A read of port 3F5.
ReadFifo(f) == IF f.left = 1 THEN ResetOutFifo(f, 0, f.ok) ELSE [f EXCEPT !.left = @ - 1]

\* Port 3F2 with the interrupt gate open, and with the reset bit at 0 and at 1
\* again: neither the request for DMA, nor the disk layer's transfer, nor the
\* response is given up.
WriteDor(f, d) == [LowerIrq6(f) EXCEPT !.sel = d]

\* Mutant: the bytes of a command that has begun are kept.
ResetControllerOnly(f, d) ==
  LET home(s) == s - (s % (Heads * TrackSectors))
  IN RaiseIrq6([WriteDor(f, d) EXCEPT
                  !.msr = {"rqm"}, !.at = [e \in Drives |-> home(@[e])],
                  !.lba = [e \in Drives |-> home(f.at[e])]])

ResetController(f, d) ==
  LET home(s) == s - (s % (Heads * TrackSectors))
  IN RaiseIrq6([ResetCmdFifo(WriteDor(f, d)) EXCEPT
                  !.msr = {"rqm"}, !.at = [e \in Drives |-> home(@[e])],
                  !.lba = [e \in Drives |-> home(f.at[e])]])

(***************************************************************************)
(* The driver.                                                             *)
(***************************************************************************)
Refused(j) == j.bad \/ (j.op \in {"write", "format"} /\ j.drive \in Protected)

\* What the driver's memory holds when a job begins: data, or the headers.
Source(j, n) ==
  [a \in DOMAIN fdc.mem |->
     CASE j.op = "write" /\ a < j.count -> <<"data", n, a>>
       [] j.op = "format" /\ a < j.count -> <<"header", 0, j.first + a>>
       [] OTHER -> fdc.mem[a]]

Programmed(f, j, n) ==
  IF j.op \in Transfers
  THEN [f EXCEPT !.masked = TRUE, !.toMem = (j.op = "read"), !.addr = 0, !.count = j.count,
                 !.mem = Source(j, n)]
  ELSE f

\* The channel is masked and programmed.
Prepare(j) ==
  /\ driver.stage = "idle" /\ "dio" \notin fdc.msr /\ driver.jobs < fuse.runs
  /\ fdc' = [Programmed(IF fuse.dor THEN WriteDor(fdc, j.drive) ELSE fdc, j, driver.jobs + 1)
                EXCEPT !.deferred = FALSE]
  /\ driver' = [driver EXCEPT !.stage = "ready", !.job = j, !.bytes = 0, !.seen = FALSE,
                              !.jobs = @ + 1,
                              !.before = [content |-> fdc'.content, mem |-> fdc'.mem]]
  /\ UNCHANGED fuse

\* The transfer that waits runs now.
Unmask ==
  /\ driver.stage \in {"ready", "sent"} /\ fdc.masked /\ driver.job.op \in Transfers
  /\ fdc' = RunTransfers([fdc EXCEPT !.masked = FALSE])
  /\ UNCHANGED <<fuse, driver>>

WriteCommandByte ==
  /\ driver.stage = "ready" /\ "rqm" \in fdc.msr /\ "dio" \notin fdc.msr
  /\ driver.bytes = 0 => "cb" \notin fdc.msr
  /\ driver.job.op \in Transfers => fuse.late \/ ~fdc.masked
  /\ fdc' = WriteFifo(fdc, driver.job, driver.jobs)
  /\ LET last == driver.bytes + 1 = CommandSize[driver.job.op]
         waits == driver.job.op # "configure" /\ ~(driver.job.op = "calibrate" /\ fuse.polls)
     IN driver' = [driver EXCEPT !.bytes = @ + 1,
                                 !.stage = CASE last /\ waits -> "sent"
                                             [] last /\ ~waits -> "idle"
                                             [] OTHER -> @]
  /\ UNCHANGED fuse

TakeIrq6 ==
  /\ fdc.irr /\ ~fuse.polls
  /\ fdc' = [fdc EXCEPT !.irr = FALSE]
  /\ driver' = [driver EXCEPT !.seen = TRUE,
                              !.stage = IF @ = "sent" /\ driver.job.op = "calibrate" THEN "idle" ELSE @]
  /\ UNCHANGED fuse

ReadResultByte ==
  /\ driver.stage \in {"sent", "idle"} /\ {"rqm", "dio"} \subseteq fdc.msr
  /\ driver.stage = "sent" /\ driver.job.op \in Transfers => fuse.polls \/ driver.seen
  /\ fdc' = ReadFifo(fdc)
  /\ driver' = [driver EXCEPT !.stage = IF fdc.left = 1 THEN "idle" ELSE @]
  /\ UNCHANGED fuse

Pending == fdc.req \/ fdc.slot.busy

\* A driver that has waited too long.
Reset ==
  /\ fuse.resets /\ driver.stage \in {"ready", "sent"}
  /\ fdc' = ResetController(fdc, driver.job.drive)
  /\ driver' = [driver EXCEPT !.stage = "idle", !.disturbed = @ \/ Pending]
  /\ UNCHANGED fuse

\* The motor of the other drive is turned on or off.
Reselect(d) ==
  /\ fuse.reselects /\ driver.stage \in {"ready", "sent"}
  /\ fdc' = WriteDor(fdc, d)
  /\ driver' = [driver EXCEPT !.disturbed = @ \/ Pending]
  /\ UNCHANGED fuse

(***************************************************************************)
(* drive_check_complete(), which comes when the CPU is back in             *)
(* pc_execute().                                                           *)
(***************************************************************************)
Junk == <<"junk", 0, 0>>

\* Mutant: a read is over when its blocks are loaded.
SecondPassSkipped(f, v) ==
  CASE f.slot.op = "read"  -> RaiseDreq(f)
    [] f.slot.op = "write" ->
         Done(CopiedOut(f, f.slot.drive, f.slot.first, Touched(f.slot.first, f.slot.count)))
    [] f.slot.op = "format" -> HandleFormat([f EXCEPT !.content[f.slot.drive][f.slot.first] = v])

\* The second pass and the callback.  A format's buffer was a variable of a
\* function that has returned: v is what is found there.
SecondPass(f, v) ==
  LET s == f.slot
      S == Touched(s.first, s.count)
  IN CASE s.op = "read"   -> RaiseDreq(CopiedIn(f, s.drive, s.first, S))
       [] s.op = "write"  -> Done(CopiedOut(f, s.drive, s.first, S))
       [] s.op = "format" -> HandleFormat([f EXCEPT !.content[s.drive][s.first] = v])

\* The slot is released after the callback, whatever that has begun.
Complete ==
  /\ fdc.slot.busy
  /\ \E v \in {fdc.fill, Junk} : fdc' = [SecondPass(fdc, v) EXCEPT !.slot.busy = FALSE]
  /\ UNCHANGED <<fuse, driver>>

FdcInit ==
  /\ fuse \in FdcUses
  /\ fdc = [sel |-> 0, msr |-> {"rqm"}, cmd |-> "none", pos |-> 0, size |-> 0, left |-> 0,
            ok |-> TRUE, at |-> [d \in Drives |-> 0], lba |-> [d \in Drives |-> 0],
            wlen |-> 0, fpos |-> 0, fend |-> 0, fill |-> Junk,
            buf |-> [i \in 0 .. TrackSectors - 1 |-> Junk], line |-> FALSE, irr |-> FALSE,
            masked |-> TRUE, req |-> FALSE, toMem |-> FALSE, addr |-> 0, count |-> 0,
            mem |-> [a \in 0 .. TrackSectors |-> Junk],
            content |-> [d \in Drives |-> [s \in Sectors |-> <<"image", d, s>>]],
            cached |-> [d \in Drives |-> {}],
            slot |-> [busy |-> FALSE, op |-> "read", drive |-> 0, first |-> 0, count |-> 1],
            fatal |-> FALSE, formats |-> 0, deferred |-> FALSE]
  /\ driver = [stage |-> "idle", job |-> CHOOSE j \in Jobs : TRUE, bytes |-> 0, seen |-> FALSE,
               jobs |-> 0, disturbed |-> FALSE,
               before |-> [content |-> fdc.content, mem |-> fdc.mem]]

FdcNext ==
  /\ ~fdc.fatal
  /\ \/ \E j \in fuse.jobs : Prepare(j)
     \/ Unmask \/ WriteCommandByte \/ TakeIrq6 \/ ReadResultByte
     \/ Reset \/ \E d \in Drives : Reselect(d)
     \/ Complete

\* The driver goes on with a command it has begun, and the disk layer is asked.
FdcFairness ==
  /\ WF_fdcVars(Complete) /\ WF_fdcVars(Unmask) /\ WF_fdcVars(WriteCommandByte)
  /\ WF_fdcVars(TakeIrq6) /\ WF_fdcVars(ReadResultByte)

FdcSpec == FdcInit /\ [][FdcNext]_fdcVars /\ FdcFairness

-----------------------------------------------------------------------------
Values == {"image", "data", "header", "fill", "torn", "junk"} \X Nat \X Nat

FdcTypeOK ==
  /\ fuse \in FdcUses
  /\ fdc.sel \in Drives /\ fdc.msr \subseteq {"rqm", "cb", "dio"}
  /\ fdc.cmd \in Ops \cup {"none"} /\ fdc.pos <= fdc.size /\ fdc.size \in 0 .. 9
  /\ fdc.left \in 0 .. 7
  /\ fdc.at \in [Drives -> Sectors] /\ fdc.lba \in [Drives -> Sectors]
  /\ fdc.fpos \in 0 .. TrackSectors /\ {fdc.wlen, fdc.fend, fdc.count} \subseteq 0 .. TrackSectors
  /\ {fdc.buf[i] : i \in DOMAIN fdc.buf} \cup {fdc.mem[a] : a \in DOMAIN fdc.mem} \subseteq Values
  /\ \A d \in Drives, s \in Sectors : fdc.content[d][s] \in Values
  /\ {fdc.irr, fdc.line, fdc.masked, fdc.req} \subseteq BOOLEAN
  /\ driver.stage \in {"idle", "ready", "sent"} /\ driver.job \in Jobs

Answered == driver.stage = "sent" /\ "dio" \in fdc.msr /\ fdc.left = 7

\* The contents of drives and memory after the job.
Wanted ==
  LET j == driver.job
      b == driver.before
      S == Touched(j.first, j.count)
      write(value(_)) == [b EXCEPT !.content[j.drive] =
                            [s \in Sectors |-> IF s \in S THEN value(s - j.first) ELSE @[s]]]
  IN CASE j.op = "read" ->
            [b EXCEPT !.mem = [a \in DOMAIN @ |->
               IF a < j.count THEN b.content[j.drive][j.first + a] ELSE @[a]]]
       [] j.op = "write" -> write(LAMBDA i : b.mem[i])
       [] j.op = "format" -> write(LAMBDA i : <<"fill", driver.jobs, 0>>)
       [] OTHER -> b

\* A format writes nothing if it is not the first, whose position in the list of
\* headers is kept, nor what it should if it had to wait for a block.
Moved ==
  \/ [content |-> fdc.content, mem |-> fdc.mem] = Wanted
  \/ driver.job.op = "format" /\ (fdc.formats > 1 \/ fdc.deferred)

\* A result is there only for a command of which every byte was sent, its status
\* is that of this command, and nothing the driver does ends the program.  A
\* transfer that reports success has moved its sectors between the right drive
\* and memory, and has touched nothing else, whether blocks had to be loaded, in
\* whichever order command and channel were made ready, and after resets; but not
\* once a reset or the selection of the other drive found a transfer pending.
AnswersFit ==
  ~driver.disturbed =>
    /\ "dio" \in fdc.msr => driver.stage = "sent"
    /\ Answered => fdc.ok = ~Refused(driver.job)
    /\ Answered /\ fdc.ok => Moved
    /\ ~fdc.fatal

\* Every command is answered: the driver sees its interrupt, or the result by
\* polling.  If it waits for interrupts it must write the digital output
\* register before every command and not after it, since such a write, and no
\* other step, lowers the line; and a format that had to wait for a block is
\* never answered.
CommandsAnswered ==
  (fuse.polls \/ (fuse.dor /\ ~fuse.reselects)) /\ driver.stage = "sent"
    ~> driver.stage = "idle" \/ fdc.deferred
=============================================================================
