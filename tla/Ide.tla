--------------------------------- MODULE Ide ---------------------------------
(***************************************************************************)
(* The hard disks of src/hardware/ide.c: two channels with their task      *)
(* files, the PIO commands, the commands without data, bus-master DMA and  *)
(* software reset, over the disk layer, whose blocks are loaded on demand  *)
(* and whose one slot remembers the transfer that is to be completed.  A   *)
(* channel is driven by a guest that polls or waits for its interrupt.     *)
(*                                                                         *)
(* A sector's data is one value.  MAX_MULTIPLE_SECTORS is 1, so every      *)
(* block of a PIO transfer is one sector.  Left out: the packet commands,  *)
(* the error and feature registers, the bits of the bus-master status, and *)
(* failures of the disk layer, which ends the program instead.             *)
(***************************************************************************)
EXTENDS Integers, Sequences, FiniteSets

CONSTANTS
    Channels, Primary,          \* ide[0] and ide[1], ide[0]
    Type,                       \* type[] of the two drives of every channel
    RawDrives,                  \* never asynchronous
    Byte, SectorSize,           \* 256 and 512 in the code
    NumSectors, BlockSectors,   \* of a disk, of a block of the disk layer
    Heads, SectorsPerTrack,
    SectorAccesses,             \* accesses to the data port for a sector
    Uses                        \* ways the guest uses the channels: see Use

Drives == Channels \X {0, 1}
TypeOf(d) == Type[d[1]][d[2]]
Disks == {d \in Drives : TypeOf(d) = "disk"}

Sectors == 0 .. NumSectors - 1
BlockOf(s) == s \div BlockSectors
Blocks == {BlockOf(s) : s \in Sectors}

\* What a sector holds at first, and what the guest writes to it: each differs from what
\* belongs to any other sector of any drive.
Original(d, s) == <<"original", d, s>>
Written(d, s)  == <<"written", d, s>>
Junk == <<"junk", <<Primary, 0>>, 0>>
Values == {"original", "written", "junk"} \X Drives \X Nat

PioReads  == {"read", "read multiple"}
PioWrites == {"write", "write multiple"}
DmaOps    == {"read dma", "write dma"}
NonData   == {"calibrate", "verify", "init parameters", "check power", "idle",
              "set features", "set multiple", "read max", "unsupported"}
Ops == PioReads \cup PioWrites \cup DmaOps \cup NonData \cup {"identify"}

Modes == {"chs", "lba28", "lba48"}

\* The sectors that a mode can address.  An LBA48 address has three more bytes; but the
\* fourth is read from where it is not stored (see Offset), and such addresses are left out.
Reach(mode) ==
    CASE mode = "chs"   -> Byte * Byte * Heads * SectorsPerTrack
      [] mode = "lba28" -> 16 * Byte * Byte * Byte
      [] mode = "lba48" -> Byte * Byte * Byte

\* A task file can name up to Byte sectors, an LBA48 one up to Byte * Byte; but from Byte on
\* the count's upper byte gets into the address (see Offset), and such commands are left out.
Job == {j \in [op : Ops, mode : Modes, drive : {0, 1}, first : Sectors, count : 1 .. NumSectors] :
           /\ j.first + j.count <= NumSectors
           /\ j.first + j.count <= Reach(j.mode)
           /\ j.count <= IF j.mode = "lba48" THEN Byte - 1 ELSE Byte}
NoJob == [op |-> "none", mode |-> "lba28", drive |-> 0, first |-> 0, count |-> 1]

\* poll: the guest reads the status register when it likes and not when interrupted.
\* overlap: it uses both channels at once.  reset: it may give a command up by a software
\* reset.  abandon: and by another command, when data are due.  machine: it may be reset.
\* mask: it sets and clears nIEN.  hasty: it gives commands without looking at BSY, as the
\* Bochs BIOS does.
AllHabits == {"poll", "overlap", "reset", "abandon", "machine", "mask", "hasty"}
Use == [jobs : SUBSET Job, habits : SUBSET AllHabits, maxJobs : Nat]

ASSUME IdeAssumption ==
    /\ Primary \in Channels
    /\ Type \in [Channels -> [{0, 1} -> {"none", "disk", "cdrom"}]]
    /\ RawDrives \subseteq Disks
    /\ {Byte, SectorSize, NumSectors, BlockSectors, Heads, SectorsPerTrack, SectorAccesses}
          \subseteq Nat \ {0}
    /\ Heads <= 16 /\ SectorsPerTrack < Byte      \* 16 and 63 for every disk: drive.c
    /\ Uses \subseteq Use

VARIABLES
    chan,       \* struct ide_controller of every channel
    store,      \* data and loaded blocks of every disk
    slot,       \* transfer_in_progress, and whose callback is called for what
    guest,      \* what the guest does with every channel
    fatal,      \* the IDE_FATAL that was reached, "beyond the disk", or "no"
    use, jobs

vars == <<chan, store, slot, guest, fatal, use, jobs>>

-----------------------------------------------------------------------------
(* Task file.  The registers are 16 bits wide, two bytes of which the low   *)
(* one was written last.                                                    *)

Low(r) == r % Byte
Upper(r) == r \div Byte

\* a number shifted right by i bytes, and its i-th byte
Shifted(p, i) ==
    CASE i = 0 -> p
      [] i = 1 -> Upper(p)
      [] i = 2 -> Upper(Upper(p))
      [] i = 3 -> Upper(Upper(Upper(p)))
      [] i = 4 -> Upper(Upper(Upper(Upper(p))))
      [] i = 5 -> Upper(Upper(Upper(Upper(Upper(p)))))
Digit(p, i) == Low(Shifted(p, i))

\* ide_get_sector_count(): zero is the largest count
SectorCount(x, lba48) ==
    IF lba48 THEN IF x.count = 0 THEN Byte * Byte ELSE x.count
             ELSE IF Low(x.count) = 0 THEN Byte ELSE Low(x.count)

\* ide_get_sector_offset().  Its LBA48 address has the upper byte of the count where
\* ide_set_sector_offset() stores the upper byte of the sector number.
Offset(x, lba48) ==
    CASE lba48 ->
           Low(x.number) + Byte * (Low(x.low) + Byte * (Low(x.high)
           + Byte * (Upper(x.count) + Byte * (Upper(x.low) + Byte * Upper(x.high)))))
      [] ~lba48 /\ x.lba ->
           Low(x.number) + Byte * (Low(x.low) + Byte * (Low(x.high) + Byte * x.head))
      [] ~lba48 /\ ~x.lba ->
           SectorsPerTrack * (Heads * (Low(x.low) + Byte * Low(x.high)) + x.head)
           + Low(x.number) - 1

\* mutant: sectors of a track are numbered from 0
WithOffsetFromZero(x, lba48, p) ==
    CASE lba48 ->
           [x EXCEPT !.number = Digit(p, 0) + Digit(p, 3) * Byte,
                     !.low    = Digit(p, 1) + Digit(p, 4) * Byte,
                     !.high   = Digit(p, 2) + Digit(p, 5) * Byte]
      [] ~lba48 /\ x.lba ->
           [x EXCEPT !.number = Digit(p, 0), !.low = Digit(p, 1), !.high = Digit(p, 2),
                     !.head = Shifted(p, 3) % 16]
      [] ~lba48 /\ ~x.lba ->
           LET cylinder == p \div (Heads * SectorsPerTrack)
           IN  [x EXCEPT !.low = Digit(cylinder, 0), !.high = Digit(cylinder, 1),
                         !.head = ((p \div SectorsPerTrack) % Heads) % 16,
                         !.number = p % SectorsPerTrack]

\* ide_set_sector_offset()
WithOffset(x, lba48, p) ==
    CASE lba48 ->
           [x EXCEPT !.number = Digit(p, 0) + Digit(p, 3) * Byte,
                     !.low    = Digit(p, 1) + Digit(p, 4) * Byte,
                     !.high   = Digit(p, 2) + Digit(p, 5) * Byte]
      [] ~lba48 /\ x.lba ->
           [x EXCEPT !.number = Digit(p, 0), !.low = Digit(p, 1), !.high = Digit(p, 2),
                     !.head = Shifted(p, 3) % 16]
      [] ~lba48 /\ ~x.lba ->
           LET cylinder == p \div (Heads * SectorsPerTrack)
           IN  [x EXCEPT !.low = Digit(cylinder, 0), !.high = Digit(cylinder, 1),
                         !.head = ((p \div SectorsPerTrack) % Heads) % 16,
                         !.number = (p % SectorsPerTrack) + 1]

\* mutant: the count is not kept to its width
AdvancedUnbounded(x) ==
    LET counted == [x EXCEPT !.count = @ - 1]
    IN  WithOffset(counted, x.lba48, Offset(counted, x.lba48) + 1)

\* one sector done: count and address registers move on, the count first
Advanced(x) ==
    LET counted == [x EXCEPT !.count = (@ - 1) % (Byte * Byte)]
    IN  WithOffset(counted, x.lba48, Offset(counted, x.lba48) + 1)

SectorsLeft(x) == IF x.lba48 THEN x.count # 0 ELSE Low(x.count) # 0

-----------------------------------------------------------------------------
(* What the handlers do to a channel.                                       *)

Raised(x) == [x EXCEPT !.irq = TRUE]
Interrupting(x) == x.irq /\ ~x.nien

Aborted(x) ==
    [x EXCEPT !.status = {"DRDY", "DSC", "ERR"}, !.position = 0, !.irq = TRUE]

\* mutant: no interrupt when the data have come
SectorReadySilent(x, value) ==
    [Advanced(x) EXCEPT !.status = {"DRDY", "DSC", "DRQ"}, !.buffer = value,
                        !.length = SectorAccesses, !.position = 0]

\* ide_read_sectors_callback()
SectorReady(x, value) ==
    [Advanced(x) EXCEPT !.status = {"DRDY", "DSC", "DRQ"}, !.buffer = value,
                        !.length = SectorAccesses, !.position = 0, !.irq = TRUE]

\* ide_write_sectors()
SectorAwaited(x) ==
    [x EXCEPT !.status = {"DRDY", "DSC", "DRQ"}, !.length = SectorAccesses, !.position = 0]

\* mutant: the last sector is not waited for
SectorWrittenOneLess(x) ==
    LET y == Advanced(x)
    IN  IF SectorsLeft(Advanced(y)) THEN SectorAwaited(y)
        ELSE [y EXCEPT !.status = {"DRDY", "DSC"}]

\* drive_write_callback()
SectorWritten(x) ==
    LET y == Advanced(x)
    IN  IF SectorsLeft(y) THEN SectorAwaited(y) ELSE [y EXCEPT !.status = {"DRDY", "DSC"}]

\* ide_set_signature()
Signed(x, type) ==
    [x EXCEPT !.number = 1, !.count = 1,
              !.low  = IF type = "disk" THEN 0 ELSE Byte - 1,
              !.high = IF type = "disk" THEN 0 ELSE Byte - 1]

-----------------------------------------------------------------------------
Running == fatal = "no"

\* how the guest learns what has become of a command
Waiting == IF "poll" \in use.habits THEN "poll" ELSE "interrupt"

-----------------------------------------------------------------------------
(* The disk layer, as the controller calls it (Drive has it in full).       *)

Selected(c, x) == <<c, x.selected>>
Cached(d, S) == {BlockOf(s) : s \in S} \subseteq store[d].cached

\* Beyond the disk, the drivers of drive.c use block pointers that do not exist.
Reaches(d, S) == d \in Disks /\ S \subseteq Sectors
GoBeyond == fatal' = "beyond the disk" /\ UNCHANGED <<chan, store, slot>>

\* a request that has to load blocks takes the slot, whatever it held
Pending(c, op, x, S) ==
    /\ slot' = [busy |-> TRUE, op |-> op, drive |-> Selected(c, x), first |-> Offset(x, x.lba48)]
    /\ store' = [store EXCEPT ![Selected(c, x)].cached = @ \cup {BlockOf(s) : s \in S}]
    /\ UNCHANGED fatal

Awaiting(x) == [x EXCEPT !.status = {"DRDY", "DSC", "BSY"}]

\* ide_read_sectors() for channel c, whose state has become x
ReadSectors(c, x) ==
    LET d == Selected(c, x)
        s == Offset(x, x.lba48)
    IN  \/ ~Reaches(d, {s}) /\ GoBeyond
        \/ /\ Reaches(d, {s}) /\ Cached(d, {s})
           /\ chan' = [chan EXCEPT ![c] = SectorReady(x, store[d].data[s])]
           /\ UNCHANGED <<store, slot, fatal>>
        \/ /\ Reaches(d, {s}) /\ ~Cached(d, {s})
           /\ Pending(c, "read", x, {s})
           /\ chan' = [chan EXCEPT ![c] = Awaiting(x)]

\* the end of ide_pio_write_callback()
WriteSector(c, x) ==
    LET d == Selected(c, x)
        s == Offset(x, x.lba48)
    IN  \/ ~Reaches(d, {s}) /\ GoBeyond
        \/ /\ Reaches(d, {s}) /\ Cached(d, {s})
           /\ store' = [store EXCEPT ![d].data[s] = x.buffer]
           /\ chan' = [chan EXCEPT ![c] = SectorWritten(x)]
           /\ UNCHANGED <<slot, fatal>>
        \/ /\ Reaches(d, {s}) /\ ~Cached(d, {s})
           /\ Pending(c, "write", x, {s})
           /\ chan' = [chan EXCEPT ![c] = Awaiting(x)]

-----------------------------------------------------------------------------
(* Bus master.  The descriptor table has one or two entries, and describes   *)
(* the memory that holds what a command transfers.                           *)

NoTable == [drive |-> <<Primary, 0>>, first |-> 0, sizes |-> <<0, 0>>]

\* The sectors that ide_read_dma_handler() and ide_write_dma_handler() move:
\* bytes_in_buffer is not reduced by what an entry moved, so each entry is cut to the
\* whole request and the table's end is the only end.
DmaRange(x) ==
    LET count  == SectorCount(x, x.lba48)
        Cut(e) == IF e < count THEN e ELSE count
    IN  Offset(x, x.lba48)
        .. Offset(x, x.lba48) + Cut(x.table.sizes[1]) + Cut(x.table.sizes[2]) - 1

\* the k-th sector of the guest's memory that the table describes
InMemory(x, k) == Written(x.table.drive, x.table.first + k)

\* ide_read_dma_handler() and ide_write_dma_handler(): the sectors, read or written one by
\* one, must be loaded
DmaHandler(c, x) ==
    LET d == Selected(c, x)
        S == DmaRange(x)
        from == Offset(x, x.lba48)
    IN  \/ /\ ~Reaches(d, S)
           /\ fatal' = "beyond the disk"
           /\ UNCHANGED <<chan, store, guest>>
        \/ /\ Reaches(d, S) /\ ~Cached(d, S)
           /\ fatal' = "expected sync response"
           /\ UNCHANGED <<chan, store, guest>>
        \/ /\ Reaches(d, S) /\ Cached(d, S)
           /\ IF x.command = "write dma"
              THEN store' = [store EXCEPT ![d].data =
                      [s \in Sectors |-> IF s \in S THEN InMemory(x, s - from) ELSE @[s]]]
              ELSE UNCHANGED store
           /\ guest' = [guest EXCEPT
                 ![c].stage = IF @ = "start" THEN Waiting ELSE @,
                 ![c].data = [k \in 1 .. Cardinality(S) |->
                                 IF x.command = "write dma" THEN InMemory(x, k - 1)
                                 ELSE store[d].data[from + k - 1]]]
           /\ chan' = [chan EXCEPT ![c] =
                 [WithOffset(x, x.lba48, from + SectorCount(x, x.lba48)) EXCEPT
                     !.status = {"DRDY", "DSC"}, !.irq = TRUE]]
           /\ UNCHANGED fatal

-----------------------------------------------------------------------------
(* The guest's side.                                                        *)

Free == [stage |-> "idle", job |-> NoJob, data |-> <<>>, error |-> FALSE]

At(c, stage) == Running /\ guest[c].stage = stage

\* the registers of sector p as the ATA standard has them, upper bytes included
Encoded(mode, p) ==
    LET cylinder == p \div (Heads * SectorsPerTrack)
    IN  CASE mode = "chs" ->
               [number |-> (p % SectorsPerTrack) + 1, low |-> Digit(cylinder, 0),
                high |-> Digit(cylinder, 1), head |-> (p \div SectorsPerTrack) % Heads]
          [] mode = "lba28" ->
               [number |-> Digit(p, 0), low |-> Digit(p, 1), high |-> Digit(p, 2),
                head |-> Shifted(p, 3) % 16]
          [] mode = "lba48" ->
               [number |-> Digit(p, 3) * Byte + Digit(p, 0),
                low |-> Digit(p, 4) * Byte + Digit(p, 1),
                high |-> Digit(p, 5) * Byte + Digit(p, 2), head |-> 0]

\* A guest that has work for a channel writes the task file: ide_write() of 1F2 to 1F6.
\* Each write shifts a byte into its register; an LBA48 command takes two.
SetUp(c, j) ==
    LET wide == j.mode = "lba48"
        x    == chan[c]
        to   == Encoded(j.mode, j.first)
        Put(old, new) == IF wide THEN new ELSE Low(old) * Byte + Low(new)
    IN  /\ \/ At(c, "idle")
           \/ At(c, "data") /\ "abandon" \in use.habits
           \/ At(c, Waiting) /\ "hasty" \in use.habits
        /\ "BSY" \in x.status => "hasty" \in use.habits
        /\ "overlap" \in use.habits \/ \A e \in Channels \ {c} : guest[e].stage = "idle"
        /\ j \in use.jobs
        /\ Type[c][j.drive] = "disk" \/ (Type[c][j.drive] = "cdrom" /\ j.op \notin DmaOps)
        /\ jobs < use.maxJobs
        /\ jobs' = jobs + 1
        /\ chan' = [chan EXCEPT ![c] =
              [x EXCEPT !.selected = j.drive, !.lba = j.mode # "chs",
                        !.head = to.head,
                        !.number = Put(@, to.number), !.low = Put(@, to.low),
                        !.high = Put(@, to.high), !.count = Put(@, j.count % (Byte * Byte))]]
        /\ guest' = [guest EXCEPT ![c] =
              [stage |-> "command", job |-> j, data |-> <<>>, error |-> FALSE]]
        /\ UNCHANGED <<store, slot, fatal, use>>

\* ide_write() of 1F7: what every command that is not ignored does first
Accepted(c) ==
    [chan[c] EXCEPT !.irq = FALSE, !.status = @ \ {"ERR"}, !.command = guest[c].job.op]

Commanded(c, ops) ==
    /\ At(c, "command")
    /\ guest[c].job.op \in ops
    /\ "BSY" \notin chan[c].status
    /\ UNCHANGED <<use, jobs>>

Then(c, stage) == guest' = [guest EXCEPT ![c].stage = stage]

\* a command written while BSY is set is lost, but the interrupt is acknowledged
CommandIgnored(c) ==
    /\ At(c, "command")
    /\ "BSY" \in chan[c].status
    /\ chan' = [chan EXCEPT ![c].irq = FALSE]
    /\ Then(c, Waiting)
    /\ UNCHANGED <<store, slot, fatal, use, jobs>>

Rejects(c, op) ==
    \/ TypeOf(Selected(c, chan[c])) # "disk"
    \/ op \in {"read multiple", "write multiple"} /\ chan[c].multiple = 0

CommandRead(c) ==
    LET x == [Accepted(c) EXCEPT !.lba48 = guest[c].job.mode = "lba48"] IN
    /\ Commanded(c, PioReads)
    /\ IF Rejects(c, guest[c].job.op)
       THEN /\ chan' = [chan EXCEPT ![c] = Aborted(Accepted(c))]
            /\ UNCHANGED <<store, slot, fatal>>
       ELSE ReadSectors(c, x)
    /\ Then(c, Waiting)

\* the first block of a write is not announced by an interrupt
CommandWrite(c) ==
    LET x == [Accepted(c) EXCEPT !.lba48 = guest[c].job.mode = "lba48"] IN
    /\ Commanded(c, PioWrites)
    /\ chan' = [chan EXCEPT ![c] = IF Rejects(c, guest[c].job.op) THEN Aborted(Accepted(c))
                                   ELSE SectorAwaited(x)]
    /\ Then(c, "poll")
    /\ UNCHANGED <<store, slot, fatal>>

\* ide_read_dma(), ide_write_dma()
CommandDma(c) ==
    /\ Commanded(c, DmaOps)
    /\ chan' = [chan EXCEPT ![c] =
          [Accepted(c) EXCEPT !.lba48 = guest[c].job.mode = "lba48",
                              !.status = {"DSC", "DRQ", "DRDY"}]]
    /\ Then(c, "start")
    /\ UNCHANGED <<store, slot, fatal>>

CommandIdentify(c) ==
    LET x == Accepted(c) IN
    /\ Commanded(c, {"identify"})
    /\ chan' = [chan EXCEPT ![c] =
          IF TypeOf(Selected(c, x)) = "disk"
          THEN [x EXCEPT !.status = {"DRDY", "DRQ", "DSC"}, !.buffer = Junk, !.irq = TRUE,
                         !.length = SectorAccesses, !.position = 0]
          ELSE Aborted(Signed(x, TypeOf(Selected(c, x))))]
    /\ Then(c, Waiting)
    /\ UNCHANGED <<store, slot, fatal>>

Ready(x, status) == [x EXCEPT !.status = status, !.irq = TRUE]

\* The commands without data, but READ VERIFY.  INITIALIZE DRIVE PARAMETERS stores a
\* geometry that nothing uses, for it selects the slave instead of setting translated[].
Performed(x, type, op) ==
    CASE op = "calibrate" ->
           LET y == IF type = "disk" THEN x ELSE Aborted(x)
           IN  Ready([y EXCEPT !.low = 0, !.high = 0], {"DRDY", "DSC"})
      [] op = "check power" -> Ready([x EXCEPT !.count = Byte - 1], {"DRDY"})
      [] op = "idle"        -> Ready(x, {"DRDY"})
      [] op = "set features" -> Ready(x, {"DRDY", "DSC"})
      [] op = "unsupported"  -> Aborted(x)
      [] op = "init parameters" ->
           IF type # "disk" THEN Aborted(x)
           ELSE Ready([x EXCEPT !.selected = IF x.head = 0 THEN @ ELSE 1], {"DRDY", "DSC"})
      [] op = "set multiple" ->
           IF type # "disk" \/ Low(x.count) > 1 THEN Aborted(x)
           ELSE Ready([x EXCEPT !.multiple = Low(x.count)], {"DRDY"})
      [] op = "read max" ->
           IF type # "disk" THEN WithOffset(Aborted(x), FALSE, NumSectors - 1)
           ELSE WithOffset(x, FALSE, NumSectors - 1)

CommandNonData(c) ==
    LET x == Accepted(c) IN
    /\ Commanded(c, NonData \ {"verify"})
    /\ chan' = [chan EXCEPT ![c] =
          Performed(x, TypeOf(Selected(c, x)), guest[c].job.op)]
    /\ Then(c, IF guest[c].job.op = "read max" THEN "poll" ELSE Waiting)
    /\ UNCHANGED <<store, slot, fatal>>

\* READ VERIFY SECTORS reports in the status of the primary channel, whichever it was
\* given to
CommandVerify(c) ==
    LET x == Accepted(c)
        wide == guest[c].job.mode = "lba48"
        y == Raised(WithOffset(x, wide, Offset(x, wide) + Low(x.count) - 1))
    IN  /\ Commanded(c, {"verify"})
        /\ chan' = IF TypeOf(Selected(c, x)) # "disk"
                   THEN [chan EXCEPT ![c] = Aborted(x)]
                   ELSE [[chan EXCEPT ![c] = y] EXCEPT ![Primary].status = {"DRDY"}]
        /\ Then(c, Waiting)
        /\ UNCHANGED <<store, slot, fatal>>

\* a second entry of zero stands for a table of one entry
Tables(c) ==
    LET j == guest[c].job
    IN  {[drive |-> <<c, j.drive>>, first |-> j.first, sizes |-> <<k, j.count - k>>] :
            k \in 1 .. j.count}

\* mutant: the handler is called whether the prefetch was synchronous or not
StartDmaAtOnce(c, table) ==
    LET x == [chan[c] EXCEPT !.table = table] IN
    /\ At(c, "start")
    /\ DmaHandler(c, x)
    /\ UNCHANGED <<slot, use, jobs>>

\* ide_write_prdt() starts the bus master, which the guest has stopped before.  The size
\* of the prefetch is the number of sectors, which drive_prefetch() takes for bytes.
StartDma(c, table) ==
    LET x == [chan[c] EXCEPT !.table = table]
        from == Offset(x, x.lba48)
        S == from .. from + ((SectorCount(x, x.lba48) - 1) \div SectorSize)
    IN  /\ At(c, "start")
        /\ \/ /\ ~Reaches(Selected(c, x), S)
              /\ GoBeyond
              /\ UNCHANGED guest
           \/ /\ Reaches(Selected(c, x), S) /\ Cached(Selected(c, x), S)
              /\ DmaHandler(c, x)
              /\ UNCHANGED slot
           \/ /\ Reaches(Selected(c, x), S) /\ ~Cached(Selected(c, x), S)
              /\ Pending(c, "prefetch", x, S)
              /\ chan' = [chan EXCEPT ![c] = [x EXCEPT !.status = @ \cup {"BSY"}]]
              /\ Then(c, Waiting)
        /\ UNCHANGED <<use, jobs>>

\* ide_read() of 1F7 acknowledges the interrupt, unless the selected drive is missing
ReadStatus(c) ==
    LET x == chan[c]
        answers == TypeOf(Selected(c, x)) # "none" \/ x.srst
        status  == IF answers THEN x.status ELSE {}
        due     == "DRQ" \in status /\ guest[c].job.op \in PioReads \cup PioWrites \cup {"identify"}
    IN  /\ At(c, "poll") \/ (At(c, "interrupt") /\ Interrupting(x))
        /\ chan' = [chan EXCEPT ![c].irq = @ /\ ~answers]
        /\ guest' = [guest EXCEPT
              ![c].stage = IF "BSY" \in status THEN @ ELSE IF due THEN "data" ELSE "over",
              ![c].error = "DRDY" \notin status \/ "ERR" \in status]
        /\ UNCHANGED <<store, slot, fatal, use, jobs>>

LastAccess(x) == x.position + 1 >= x.length

\* an access to the data port that neither empties nor fills the buffer
DataAccess(c) ==
    /\ At(c, "data")
    /\ ~LastAccess(chan[c])
    /\ chan' = [chan EXCEPT ![c].position = @ + 1]
    /\ UNCHANGED <<store, slot, guest, fatal, use, jobs>>

\* the last one of a sector, and ide_pio_read_callback()
DataRead(c) ==
    LET x == [chan[c] EXCEPT !.position = 0, !.status = @ \ {"DRQ"}] IN
    /\ At(c, "data") /\ guest[c].job.op \in PioReads \cup {"identify"}
    /\ LastAccess(chan[c])
    /\ guest' = [guest EXCEPT ![c].data = Append(@, x.buffer),
                              ![c].stage = IF x.command = "identify" THEN "poll" ELSE Waiting]
    /\ \/ /\ x.command = "identify"
          /\ chan' = [chan EXCEPT ![c] = x]
          /\ UNCHANGED <<store, slot, fatal>>
       \/ /\ x.command \in PioReads /\ SectorsLeft(x)
          /\ ReadSectors(c, Raised(x))
       \/ /\ x.command \in PioReads /\ ~SectorsLeft(x)
          /\ chan' = [chan EXCEPT ![c] = [Raised(x) EXCEPT !.status = {"DRDY", "DSC"}]]
          /\ UNCHANGED <<store, slot, fatal>>
       \/ /\ x.command \notin PioReads \cup {"identify"}
          /\ fatal' = "unknown command"
          /\ UNCHANGED <<chan, store, slot>>
    /\ UNCHANGED <<use, jobs>>

\* and ide_pio_write_callback(), which raises the interrupt before it writes
DataWrite(c) ==
    LET value == Written(<<c, guest[c].job.drive>>, guest[c].job.first + Len(guest[c].data))
        x == [chan[c] EXCEPT !.position = 0, !.buffer = value]
    IN  /\ At(c, "data") /\ guest[c].job.op \in PioWrites
        /\ LastAccess(chan[c])
        /\ guest' = [guest EXCEPT ![c].data = Append(@, value), ![c].stage = Waiting]
        /\ \/ /\ x.command \in PioWrites
              /\ WriteSector(c, Raised(x))
           \/ /\ x.command \notin PioWrites
              /\ fatal' = "unknown command"
              /\ UNCHANGED <<chan, store, slot>>
        /\ UNCHANGED <<use, jobs>>

\* the guest has seen that the command is over, and stops the bus master
Finish(c) ==
    /\ At(c, "over")
    /\ guest' = [guest EXCEPT ![c] = Free]
    /\ UNCHANGED <<chan, store, slot, fatal, use, jobs>>

-----------------------------------------------------------------------------
(* Completion and reset.                                                    *)

\* drive_check_complete() and the callback
Complete(c) ==
    LET x == chan[c]
        d == slot.drive
    IN  /\ Running /\ slot.busy /\ d[1] = c
        /\ \/ /\ slot.op = "read"
              /\ chan' = [chan EXCEPT ![c] = SectorReady(x, store[d].data[slot.first])]
              /\ UNCHANGED <<store, guest, fatal>>
           \/ /\ slot.op = "write"
              /\ store' = [store EXCEPT ![d].data[slot.first] = x.buffer]
              /\ chan' = [chan EXCEPT ![c] = SectorWritten(x)]
              /\ UNCHANGED <<guest, fatal>>
           \/ /\ slot.op = "prefetch"
              /\ DmaHandler(c, x)
        /\ slot' = [slot EXCEPT !.busy = FALSE]
        /\ UNCHANGED <<use, jobs>>

\* ide_write() of 3F6, SRST is set
SetReset(c) ==
    /\ Running /\ "reset" \in use.habits
    /\ guest[c].stage \notin {"idle", "reset"}
    /\ chan' = [chan EXCEPT ![c].srst = TRUE, ![c].status = @ \cup {"BSY"}]
    /\ Then(c, "reset")
    /\ UNCHANGED <<store, slot, fatal, use, jobs>>

\* mutant: the pending transfer is not cancelled
ClearResetKeepsTransfer(c) ==
    LET x == chan[c] IN
    /\ At(c, "reset")
    /\ chan' = [chan EXCEPT ![c] =
          [Signed(x, TypeOf(Selected(c, x))) EXCEPT
              !.srst = FALSE, !.status = {"DRDY"}, !.selected = 0]]
    /\ guest' = [guest EXCEPT ![c] = Free]
    /\ UNCHANGED <<slot, store, fatal, use, jobs>>

\* and cleared: the transfer that is pending is cancelled, whichever channel's it is
ClearReset(c) ==
    LET x == chan[c] IN
    /\ At(c, "reset")
    /\ chan' = [chan EXCEPT ![c] =
          [Signed(x, TypeOf(Selected(c, x))) EXCEPT
              !.srst = FALSE, !.status = {"DRDY"}, !.selected = 0]]
    /\ slot' = [slot EXCEPT !.busy = FALSE]
    /\ guest' = [guest EXCEPT ![c] = Free]
    /\ UNCHANGED <<store, fatal, use, jobs>>

\* nIEN
ToggleMask(c) ==
    /\ Running /\ "mask" \in use.habits
    /\ chan' = [chan EXCEPT ![c].nien = ~@]
    /\ UNCHANGED <<store, slot, guest, fatal, use, jobs>>

\* ide_reset() on a reset of the machine, whose guest starts anew
Reset ==
    /\ Running /\ "machine" \in use.habits
    /\ jobs < use.maxJobs
    /\ jobs' = jobs + 1
    /\ chan' = [c \in Channels |-> [chan[c] EXCEPT !.selected = 0]]
    /\ guest' = [c \in Channels |-> Free]
    /\ UNCHANGED <<store, slot, fatal, use>>

-----------------------------------------------------------------------------
Init ==
    /\ use \in Uses
    /\ jobs = 0
    /\ fatal = "no"
    /\ chan = [c \in Channels |->
          [selected |-> 0, lba |-> FALSE, lba48 |-> FALSE, head |-> 0,
           number |-> 0, low |-> 0, high |-> 0, count |-> 0,
           status |-> {}, command |-> "none", position |-> 0, length |-> 0,
           buffer |-> Junk, multiple |-> 0, table |-> NoTable,
           irq |-> FALSE, srst |-> FALSE, nien |-> FALSE]]
    /\ store = [d \in Disks |->
          [data |-> [s \in Sectors |-> Original(d, s)],
           cached |-> IF d \in RawDrives THEN Blocks ELSE {}]]
    /\ slot = [busy |-> FALSE, op |-> "read", drive |-> <<Primary, 0>>, first |-> 0]
    /\ guest = [c \in Channels |-> Free]

Command(c) ==
    \/ CommandIgnored(c)
    \/ CommandRead(c)
    \/ CommandWrite(c)
    \/ CommandDma(c)
    \/ CommandIdentify(c)
    \/ CommandNonData(c)
    \/ CommandVerify(c)

\* what a guest does in any case once it has begun a command
GuestStep(c) ==
    \/ Command(c)
    \/ \E table \in Tables(c) : StartDma(c, table)
    \/ ReadStatus(c)
    \/ DataAccess(c)
    \/ DataRead(c)
    \/ DataWrite(c)
    \/ Finish(c)
    \/ ClearReset(c)

Next ==
    \/ \E c \in Channels :
          \/ \E j \in use.jobs : SetUp(c, j)
          \/ GuestStep(c)
          \/ Complete(c)
          \/ SetReset(c)
          \/ ToggleMask(c)
    \/ Reset

Spec == Init /\ [][Next]_vars

\* the guest's drivers run and pc_execute() is called repeatedly
FairSpec ==
    /\ Spec
    /\ WF_vars(\E c \in Channels : Complete(c))
    /\ \A c \in Channels : WF_vars(GuestStep(c))

-----------------------------------------------------------------------------
(* Properties.                                                              *)

Register == 0 .. Byte * Byte - 1

Table == [drive : Drives, first : Nat, sizes : Nat \X Nat]

Channel == [selected : {0, 1}, lba : BOOLEAN, lba48 : BOOLEAN, head : 0 .. 15,
            number : Register, low : Register, high : Register, count : Register,
            status : SUBSET {"BSY", "DRDY", "DSC", "DRQ", "ERR"},
            command : Ops \cup {"none"}, position : Nat, length : Nat,
            buffer : Values, multiple : {0, 1}, table : Table,
            irq : BOOLEAN, srst : BOOLEAN, nien : BOOLEAN]

Stages == {"idle", "command", "start", "poll", "interrupt", "data", "over", "reset"}

TypeOK ==
    /\ chan \in [Channels -> Channel]
    /\ store \in [Disks -> [data : [Sectors -> Values], cached : SUBSET Blocks]]
    /\ slot \in [busy : BOOLEAN, op : {"read", "write", "prefetch"}, drive : Drives, first : Sectors]
    /\ slot.busy => slot.drive \in Disks
    /\ guest \in [Channels -> [stage : Stages, job : Job \cup {NoJob},
                               data : Seq(Values), error : BOOLEAN]]
    /\ fatal \in {"no", "beyond the disk", "expected sync response", "unknown command"}
    /\ use \in Uses
    /\ jobs \in Nat

Without(habits) == use.habits \cap habits = {}

\* a READ VERIFY on the secondary channel clears BSY and DRQ of the primary one
Disturbed == ~Without({"overlap", "machine"}) /\ \E j \in use.jobs : j.op = "verify"

\* A DMA transfer that is pending when the machine is reset is completed with what the
\* reset has made of the channel: the master selected.
Misdirected == ~Without({"machine"}) /\ \E j \in use.jobs : j.op \in DmaOps

\* Every sector holds what belongs to it: whatever is interrupted by resets, other
\* commands or the other channel, no write lands on another sector or another drive.  (A
\* guest that writes the task file of a busy channel changes where the next block goes, and
\* so does one that takes a busy channel for free because its BSY was cleared.)
DataInPlace ==
    Without({"hasty"}) /\ ~Disturbed /\ ~Misdirected =>
        \A d \in Disks, s \in Sectors : store[d].data[s] \in {Original(d, s), Written(d, s)}

\* A command that the guest sees end without an error has moved all its sectors, in
\* order: those read are the disk's, those written are on it.
AllMoved ==
    ~Disturbed /\ Without({"hasty"}) =>
        \A c \in Channels :
            LET j == guest[c].job IN
            guest[c].stage = "over" /\ ~guest[c].error /\ j.op \in PioReads \cup PioWrites \cup DmaOps =>
                /\ Len(guest[c].data) = j.count
                /\ \A k \in 1 .. j.count :
                      guest[c].data[k] = store[<<c, j.drive>>].data[j.first + k - 1]

\* The callback that is pending belongs to a channel that is busy with that transfer: a
\* completion never comes upon a channel that has gone on to something else, nor, unless
\* the machine was reset or the guest did not look at BSY, upon another drive selected.
\* And a busy channel has a transfer pending or is held in reset, unless the other channel
\* has taken or cancelled its transfer, at the same time or, after a reset of the machine
\* that did not wait for it, later: BSY goes away by itself.
CompletionAwaited ==
    /\ slot.busy /\ ~Disturbed =>
        LET x == chan[slot.drive[1]] IN
        /\ "BSY" \in x.status
        /\ x.command \in CASE slot.op = "read"  -> PioReads
                           [] slot.op = "write" -> PioWrites
                           [] slot.op = "prefetch" -> DmaOps
        /\ Without({"machine", "hasty"}) => Selected(slot.drive[1], x) = slot.drive
    /\ Running /\ Without({"overlap", "machine"}) =>
        \A c \in Channels :
            "BSY" \in chan[c].status => chan[c].srst \/ (slot.busy /\ slot.drive[1] = c)

\* The program is ended only by DMA on more sectors than a block has left, and, for a
\* guest that does not look at BSY, where data are moved for a command that has none; and
\* no transfer leaves the disk.
OnlyKnownFatal ==
    /\ fatal = "unknown command" => ~Without({"hasty"})
    /\ Without({"hasty"}) /\ ~Disturbed /\ ~Misdirected =>
          /\ fatal # "beyond the disk"
          /\ fatal = "expected sync response" =>
                \E c \in Channels :
                    LET j == guest[c].job IN
                    j.op \in DmaOps /\ BlockOf(j.first) # BlockOf(j.first + j.count - 1)

\* Every command comes to an end for a guest that polls, and for one that waits for
\* interrupts if it writes only to drives that are never asynchronous.
InterruptsSuffice ==
    \A j \in use.jobs :
        /\ j.op # "read max"
        /\ j.op \in PioWrites => \A c \in Channels : <<c, j.drive>> \notin Disks \ RawDrives

CommandsEnd ==
    Without({"overlap", "machine", "mask", "hasty", "abandon"}) /\ ("poll" \in use.habits \/ InterruptsSuffice) =>
        \A c \in Channels : guest[c].stage # "idle" ~> guest[c].stage = "idle" \/ ~Running

\* ide.c:1604, 1671: "Expected sync response for prefetched data".
PrefetchedIsSync == fatal # "expected sync response"
=============================================================================
