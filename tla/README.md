# Halfix in TLA+

Specifications of parts of Halfix, an x86 PC emulator in C (`src/src/`), with TLC
configurations that check them on small instances and TLAPS proofs of what holds
for every instance. Every definition is taken from the code; where a comment of
the code says something else, a run shows the difference (see *Disagreements*).

Paths below are relative to `src/src/`.

## The system

Halfix is one thread. `main.c` calls `pc_execute()` (`pc.c`) repeatedly; that asks
the devices for the next deadline, lets the interpreter run for that many cycles
(`cpu_run()`), and asks again. Devices are called from port and memory accesses of
the running guest, from the deadline computation, and from completion callbacks of
the disk layer. There are no locks and no preemption: what is hard is the *order* of
these calls, the state that survives from one call to the next, and the single-bit
signals by which parts that know nothing of each other communicate.

| Component | State | Operations | Talks to | Hard, and what makes it correct |
|---|---|---|---|---|
| 8259 pair, `hardware/pic.c` | two controllers (IMR, IRR, ISR, pins, latched input, priority base, modes, initialization progress) | raise and lower a line, acknowledge, ICW1-4, OCW1-3 | CPU's INTR, I/O APIC (every line is passed on), all devices | the input acknowledged was latched by an earlier update; the slave reaches the master by a pulse on an edge-triggered input. No interrupt nested in itself, order of priority, no request stranded, no spurious answer |
| I/O APIC, `hardware/ioapic.c` | pins, IRR, redirection entries | raise and lower, remote EOI, write an entry | local APIC, 8259s (ExtINT) | level and edge, remote IRR, masking in between. No dead pin, no edge kept back |
| Local APIC, `hardware/apic.c` | IRR, ISR, TMR, task priority, "I have signalled", timer | receive, EOI, task priority, IPI, timer, acknowledge | CPU's INTR, I/O APIC | the INTR line has two drivers and the APIC signals only once. No deliverable request without a signal |
| Disk layer, `drive.c` | block cache of a drive, one transfer slot for all | read, write, prefetch, completion, cancellation, savestate | IDE, floppy, `pc_execute()` | two-pass transfers, the shared slot, a callback that starts a transfer. Sectors read are sectors written, each caller is answered for what it asked |
| IDE, ATAPI, `hardware/ide.c` | two channels, task files, buffers, bus-master registers | commands, data port, software reset, DMA | disk layer, 8259s, PCI, memory | BSY, DRQ and the IRQ against a transfer that ends later |
| Floppy and DMA, `hardware/fdc.c`, `dma.c` | command FIFO, result phase, eight DMA channels | commands, transfers, terminal count, reset | disk layer, memory, 8259s | three machines that call each other in one step. A result belongs to the command that was sent, and "success" means that its sectors were moved |
| Timers: `pit.c`, `cmos.c`, `acpi.c`, APIC timer | counters as functions of the cycle count | program, poll, next deadline | scheduler, 8259s | expiry is inferred from two polls: ticks missed, counted twice or early |
| Scheduler, `pc.c` and `cpu_run()` | cycle counters, HLT, interrupt shadow, skipped time | one `pc_execute()` | timers, CPU, disk layer | the inner loop is cut short from within an instruction. The clock counts each instruction once, a halted CPU wakes up |
| Keyboard controller, `kbd.c` | two queues, output buffer and its owner | commands, refill, mouse and key events | 8259s | two devices share one buffer: order of bytes, whose byte it is, an interrupt for each |
| Savestates, `state.c` | object tree of keys | save, restore | every device, disk layer | what is restored is what was saved |
| MMU, TLB, translated code: `cpu/mmu.c`, `smc.c`, `trace.c`, `access.c` | TLB, trace cache, code map | translate, flush, invalidate, store | CPU, DMA | a translation or a trace that outlives what it was made from |
| Decoder, `cpu/decoder.c` | prefixes, trace being built | decode a trace | MMU (fetch across pages), trace cache | two decoders that must agree on each instruction's length at the end of a page |
| Interpreter, `cpu/ops/*.c`, `opcodes.c`, `seg.c`, `fpu.c` | registers, lazy flags | some thousand instructions | all | a fault in the middle of an instruction must leave it restartable |
| PCI, VGA, NE2000, `io.c` | registers, dispatch tables | port and memory accesses | 8259s, displays | data rather than control |
| Front ends, configuration, host utilities | - | - | - | input and output |

`PROJECT.json` lists every component with what is modelled of it, and under
`hazards` the places in the code where something can go wrong that a test would
hardly reach, each with the properties that cover it.

## Modules

| Module | What it is |
|---|---|
| `Pic` | the 8259 pair and the INTR line |
| `Apic` | I/O APIC, local APIC and the INTR line they share with the 8259s |
| `Timers` | the scheduler, `cpu_run()`'s cycle accounting, and four timers |
| `Disk` | abstract: what `include/drive.h` promises a controller |
| `Drive` | the disk layer; implements `Disk` |
| `Ide` | the two IDE channels with hard disks, and the guest that drives them |
| `Fdc` | the floppy controller, DMA channel 2 and the disk layer as they call each other |
| `Kbd` | the keyboard controller, and a driver that reads by interrupt or by polling |
| `Decode` | the lengths of instructions, traces and page ends |
| `Instr` | the memory accesses and register updates of one instruction, and page faults in it |
| `CodeMemory`, `CodeCache` | TLB, trace cache, self-modifying code and devices that write to memory |
| `MCPic`, `MCApic`, `MCTimers`, `MCDrive`, `MCIde` | instances for TLC of one module each |
| `MCCode` | `Instr` in one half of the behaviours, `CodeCache` in the other |
| `MCParts` | `Decode`, `Kbd` or `Fdc`, one of them in a behaviour |
| `PicProofs`, `ApicProofs`, `TimersProofs`, `DriveProofs`, `IdeProofs`, `FdcProofs` | theorems about the module of that name and their proofs |
| `PartsProofs` | theorems about `Decode`, `Kbd` and `MCParts` and their proofs |
| `CodeProofs` | theorems about `Instr`, `CodeCache` and `MCCode` and their proofs |

`MCCode` and `MCParts` put modules that share no state into one state space: a
behaviour is one of a single module, chosen at the start, and every property names the
module it is about.

Most models have a constant (`Uses`, `KbdUses`, `FdcUses`): a set of records that say
what the environment does in a behaviour (which commands the guest writes, whether
devices withdraw requests, whether callers of the disk layer overlap) and how often.
`Init` picks one and it never changes. Thus one configuration covers several
disciplines of use, and a property that the code guarantees only under one of them
names it (`PlainUse`, `FixedPriority`, `Without(...)`, `fuse.dor`). The counters
`raises`, `inits`, `requests`, `jobs` and `events` bound the environment and stand for
nothing in the code. `Decode` and `Instr` have a set of families of instructions in that
place.

### Pic

A controller is a record: `imr irr isr pin` are sets of inputs where the code has
bits, `hp` is the input latched by the last `pic_internal_update()` that found one,
`base` is `priority_base`, `special aeoi raeoi` are bits of `ocw[3]`, `icw[4]` and
`rotate_on_aeoi`, and `todo` the initialization words still expected. `intr` is
`cpu.intr_line_state`.

* `NestedCandidate` and `SpecialCandidate` say which input `pic_internal_update()`
  finds: `Rank` is what its bit rotation `rol()` computes. `UpdateMaster` raises
  INTR, `UpdateSlave` pulses the master's cascade input and so updates the master in
  the same step.
* `RaiseIrq`, `LowerIrq` are `pic_raise_irq()` and `pic_lower_irq()`; `PulseIrq` is
  a caller that lowers and raises within one call, as PIT, keyboard controller and
  FPU do. `MasterBehind` is the lowering of the cascade input when the slave's IRR
  is empty.
* `GetInterrupt` is `pic_get_interrupt()`, called by `cpu_run()` when INTR is high
  and interrupts are enabled. A latched input that is no longer requested yields the
  spurious vector and changes nothing but INTR.
* `WriteIcw1`, `WriteIcw`, `WriteOcw1`, `WriteEoi`, `WriteSetPriority`,
  `WriteRotateInAutoEoi`, `WriteOcw3` are the branches of `pic_writeb()`; `Reset` is
  `pic_reset()`. Those that run no update in the code run none here.

Vectors, `read_isr` and `elcr` are left out: they select what a port read returns and
nothing reads them otherwise. Handing the line on to the I/O APIC is `Apic`'s
`RaiseIrq`.

### Apic

256-bit registers are sets of vectors. `Send` is
`apic_send_highest_priority_interrupt()` at the end of a handler, with
`apic.line` the field `intr_line_state` ("I have signalled") and `intr` the CPU's
line. `IoUpdate` is `ioapic_update()`: it sends all that is pending and unmasked, and
forgets edges but not levels; a vector already requested is dropped by
`apic_receive_bus_message()`. `RaiseIrq` has one disjunct per branch of
`ioapic_raise_irq()`. `WriteRedirection` writes back the remote IRR bit, as the code
does. Reading the processor priority register (`ReadProcessorPriority`) calls
`apic_get_interrupt()`, with its effects. Of the 8259s only `PicSignals`, `PicIcw1` and
their half of `GetInterrupt` appear: they are what they do to the shared line.

Left out: error registers, `processor_priority` (stored and never read), the timer's
counter (its message is a `LocalMessage`; the counter is in `Timers`), logical
destinations (one CPU), ExtINT, and NMI, SMI, INIT, which end the program in the code
(`APIC_FATAL`).

### Timers

`world` holds the devices and the requests not yet taken, `cpu` the accounting of
`cpu_run()`: `cycles`, `offset`, `toRun`, `refill` are the code's counters
(`cpu.cycles`, `cycle_offset`, `cycles_to_run`, `refill_counter`), and `at` is where the
loop is. All times are relative to now (an age, or the cycles left), so that the state
space is finite without a bound on the clock.

* `StartSlice` is `pc_execute()` up to `cpu_run()`: the poll of every device
  (`Polled`, `devices_get_next()`), the least of their waits, and time skipped by a
  halted CPU. `EnterLoop`, `TakeInterrupt`, `RunOn` and `EndSlice` are `cpu_run()`;
  `EndSliceInPlace` is its return from within.
* `LoopExit`, `Guarded`, `Cancelled`, `Halted` are the four ways an instruction cuts the
  inner loop short: `cpu_request_fast_return()`, the interrupt shadow of STI and MOV SS,
  `cpu_cancel_execution_cycle()`, HLT.
* `PitPolled`, `RtcPolled`, `ApicPolled`, `AcpiPolled` and the four waits are
  `pit_next()`, `cmos_next()`, `apic_next()`, `acpi_next()`: each infers from the clock
  what has expired since the poll before.
* `Write*` are the guest's writes to the devices, `Hlt`, `Cli`, `Popf`, `Sti`,
  `LoadStackSegment`, `ReturnFromHandler` the instructions that touch interrupts.

`elapsed`, `owed`, `gap` and `phase` are history: the instructions executed and skipped
in the slice, the balance between the PIT's interrupts and its periods, and the length of the
last second.

### Disk and Drive

`Disk` is a disk with a caller: `Serve` answers at once (`DRIVE_RESULT_SYNC`), `Accept`
leaves the request outstanding and may move any part of it already
(`DRIVE_RESULT_ASYNC`), `Answer` completes it, `AnswerThenServe` and
`AnswerThenAccept` complete a write whose callback writes again, `Cancel` forgets it.
`Fill` is the caller changing its own buffer. `answers` counts the callbacks, so an answer
cannot pass for a cancellation, and each step that a polite caller does not take is
guarded by its habit.

`Drive` has the image file, the cached and the modified blocks of each drive
(`store`), `argument_position` and `argument_length` (`arg`), and the slot that *all*
drives share: `transfer_in_progress`, `global_cb`, `global_cb_arg1` (`slot`).

* `StartChunked` is `drive_internal_read()`, `_write()`, `_prefetch()`: a first pass
  over the blocks (`Checked`) reads or writes those cached and fetches the others. If
  none had to be fetched the answer is synchronous; otherwise slot and arguments are
  set, whatever they held.
* `drive_read_file()` depends on the build. With `ENABLE_ZLIB` (`makefile.js --zlib`) it
  returns the block, or ends the program (`StartLost`) if the file cannot be opened, read or
  inflated; without, which is the default, it returns NULL, the request is answered
  `DRIVE_RESULT_ASYNC` all the same, and the second pass ends the program. A use has the
  build (`zlib`) and the blocks that cannot be read (`lost`). The raw driver needs neither.
  `Ide` and `Fdc` are models of a machine whose blocks can be loaded.
* `CheckComplete` is `drive_check_complete()` with the callback: the second pass over
  the same range, or the end. `CheckCompleteChain` is the same with the callback of
  `fdc_handle_format()`, which starts another write *before* `transfer_in_progress`
  is cleared.
* `Cancel` is a software reset of one IDE channel. It clears the slot, whoever holds
  it. `ReadRaw` and `WriteRaw` are the raw driver.

Contents are one value per sector, ranges lie within the image, and the caller's
buffer has a place for every sector: byte offsets and their widths are not modelled.

### Ide

`chan` is `struct ide_controller` of both channels: the task file (`number low high
count` are 16 bits wide, the byte written last in the lower half, as the code keeps
them), `status` as the set of its bits, the buffer with its position and length, `irq`
(the channel's own request; `Interrupting` is what reaches the 8259s), `srst` and `nien`.
`store` is each disk's sectors and loaded blocks, `slot` the disk layer's transfer slot,
in the form the controller sees (`Drive` has the layer itself; a request here is at most
one block, or a prefetch, and always awaits its completion).

* `Offset` and `WithOffset` are `ide_get_sector_offset()` and its inverse, with their
  different ideas of where an LBA48 address has its upper bytes. `Advanced` is the
  step of count and address after a block.
* `ReadSectors`, `WriteSector`, `SectorReady`, `SectorWritten` are `ide_read_sectors()`,
  `ide_pio_write_callback()` and the two callbacks; when the block is loaded, the
  callback runs within the same step, as `DRIVE_RESULT_SYNC` makes it.
* `Command*` are the branches of a write to 1F7, `Performed` the ones without data;
  `StartDma` is `ide_write_prdt()` and `DmaHandler` its two handlers, called at once or by
  `Complete`.
* A request that is not within the disk (`Reaches`) makes the drivers of `drive.c` use block
  pointers that do not exist. The code does not look; the model ends with
  `fatal = "beyond the disk"`, and `OnlyKnownFatal` says for whom that cannot be.
* `SetReset` and `ClearReset` are the two edges of SRST; `Reset` is a reset of the machine,
  which forgets only the selected drives and cancels nothing.

The guest is a driver per channel: `stage` says what it does next. It writes a task file
(`SetUp`) and the command, waits by polling or for its interrupt, moves data while
`ReadStatus` shows DRQ, and ends when neither BSY nor DRQ is set. `Uses` names its habits:
`overlap` (both channels at once), `reset`, `abandon` (another command where data were
due), `machine`, `mask`, `hasty` (it does not look at BSY; the code has a special case for
such a guest). The properties say for which of them they hold. Three exemptions are flaws
of the code: `Disturbed`, since READ VERIFY on the secondary channel clears BSY and DRQ of
the *primary* one; `Misdirected`, since a DMA transfer that is pending when the machine is
reset is completed with the master selected; and `InterruptsSuffice`, since the completion
of an asynchronous write raises no interrupt and READ NATIVE MAX never does.

A sector's data is one value. What a sector holds at first (`Original`) and what is written
to it (`Written`) name the drive and the sector, so that data on the wrong drive are seen as
well as data on the wrong sector. The guest's DMA tables have one or two entries and
describe exactly the request in whole sectors (`Tables`). LBA48 counts stay below 256,
whose upper byte the code mistakes for a part of the address, and LBA48 addresses below
2^24, whose fourth byte it reads from there (`Job`, `Reach`). ATAPI packet commands are left
out: the CD-ROM drive is there to refuse what disks do. `IdeAssumption` asks for at most 16
heads and fewer than `Byte` sectors per track; `drive.c` has 16 and 63 for every disk.

### Fdc

`fdc` is the controller with its IRQ 6, channel 2 of the 8237, the memory it moves to
and from, and the drives with the disk layer's slot. A command is its first byte, the
number of the bytes that follow and the job they describe; a sector's contents are one
value, and the channel counts sectors (in a format, the four bytes of a header).

* `WriteFifo` is a write to port 3F5: it collects bytes, and the last one runs
  `Execute`. `ExecuteRead`, `ExecuteWrite`, `ExecuteFormat` are the branches that use the
  disk layer and DMA; `BeginCommand` has the commands that are answered at once.
* `RaiseDreq` and `RunTransfers` are `dma_raise_dreq()` and `dma_run_transfers()`: a
  transfer runs in the write that makes it possible, the last command byte or the
  unmasking, and calls `DmaComplete` (`fdc_dma_complete()`) before that write returns.
* `Deferred` is an asynchronous answer of the disk layer, `Complete` is
  `drive_check_complete()` with the second pass and the callback; the slot is released
  after the callback. A format's sector buffer is on a stack frame that is gone by then:
  what is written is chosen from two values.
* `ResetController` and `WriteDor` are port 3F2; the driver (`Prepare`, `Unmask`,
  `WriteCommandByte`, `TakeIrq6`, `ReadResultByte`, `Reset`, `Reselect`) is the guest.

`AnswersFit` and `CommandsAnswered` name what the code does not keep: a reset or the
selection of another drive while a transfer is pending (`disturbed`), every format
after the first, a format that had to wait for a block (`deferred`), and drivers that
wait for IRQ 6 without writing the digital output register before each command.

### Kbd

`kbd` is `struct kbd` with the requests the 8259s hold of IRQs 1 and 12. A byte is its
device and its number; what it says is left out. `RaiseKbdIrq`, `Refill`, `AddByte` are
`kbd_raise_irq()`, `kbd_refill_output()`, `kbd_queue_add()`; `ControllerQuery`,
`EnablePort`, `TwoByteCommand` are writes to port 64, `WriteData` with
`KeyboardCommand`, `MouseCommand` and the parameters writes to port 60, by how many
bytes they queue and what they set. `Key`, `Move`, `Click` are the host's events;
`TakeKbdInterrupt`, `ReadStatus`, `ReadData` the guest's driver. The queues hold
`QueueSize` bytes for the code's 256; one that wraps looks empty, as in the code.

### Decode

A *family* is the opcodes of a `decode_*()` function that have the same row in
`optable[]` or `optable0F[]`. It has the lengths the row gives
(`find_instruction_length()`, `ScanLength`) and those the function reads
(`DecodedLength`); the two are separate tables in the code, and `Short` and `Long` list the
families whose rows differ. A trace starts at a distance to the end of its page
(`Rooms`); `OffPage` is the test of `cpu_decode()` that sends an instruction to the
byte-wise fetch, which may fault (`FetchFault`). `Segments` is `seg_prefix[]`, `Full` the
length a trace may have. The rows are written in tables of a few opcodes (`OneByte`,
`TwoByte`), and `Row` finds a family's in them. `TooLong` is the test of `decode_prefix()`,
which leaves the first prefix out of the length it limits to 15.

### Instr

`Ops` gives each of about 170 families of instructions as the list of its effects in
the order of the code: loads, stores, probes, checks that may raise an exception,
assignments, with the access each translation is asked for and what the handler does
when it has faulted. `pte` and `tags` are the guest's page table and the TLB tags of the
locations the instruction touches; `PageFault` delivers an exception, and `Repair` is
the guest's handler, which makes the page accessible, may take another one away, and
returns. A page is read-only, writable, missing, or one of 4 MB that the guest protects and
`cpu_mmu_translate()` lets everything through to (`"open"`, `Allows`). An operand may be
across two pages (`split`): it is then accessed in two halves, the second in the page
`"beyond"`, as `access.c` goes through it byte by byte (`Forward`). Values are left out: a
register is changed or not, a location is stored to or not.

### CodeMemory and CodeCache

A page is divided into chunks, the 128 bytes a bit of `smc_has_code[]` stands for. `FillTlb`
is `cpu_mmu_translate()` up to the TLB entry, with the flush of a full TLB; `FlushAll`,
`FlushNonGlobal`, `Invlpg` are the three flushes with the list of entries they keep.
`Hit` and `Miss` are `cpu_get_trace()`; `StoreFast` and `StoreSlow` a store that looks for
code (`access.c`, `smc.c`) or does not; `IdeWrites` and `IsaWrites` the DMA of IDE and the
8237. A cached or running trace that no longer is what memory holds has in `stale` how
the write went unnoticed: `CodeFresh` says which of those causes cannot be, and the
others (`ahead`, `alias`, `dropped`, `lastChunk`, `crossing`, `isa`) are all reached.

### How a mapped line is read

`PROJECT.json` maps every definition that models code to the lines it stands for.
Definitions about the environment (`Fill`, `EndService`, `Prepare`) are mapped to the
code that is called, or marked external.

## Runs

| Run | Instance | Shows |
|---|---|---|
| `pic` | three inputs per controller, cascade in the middle, devices on the four others; six uses | `NoReentry`: an input in service is never signalled again, on either chip. `NestingOrder`, `HighestFirst`: what is taken outranks what it interrupts, and was first among what could be taken. `NoLostRequest`: under plain use nothing is stranded and nothing answered spuriously. `StrandingSteps`: under *any* use only the listed steps leave a request without INTR. `AllServed`: under plain use every unmasked request is acknowledged |
| `apic` | lines 0 and 2 on one pin and line 1; three vectors in two classes; eight uses | `NoLostInterrupt`, `TakenOutranks`, `LevelInFlight` (remote IRR is set only while an EOI can clear it), `RequestTaken` |
| `timers` | sixteen cycles a second, slices of five, timers slower than the CPU; twelve uses | `ClockInStep`: the cycle count is what was executed and skipped. `OnlyMaskedTimerStalls`: a run of zero cycles, which the code takes for 2^32, is asked for only behind a masked, late APIC timer. `TicksKept`: of a CPU that runs, the PIT's interrupts are one ahead of its periods to one behind, and an APIC timer is late by a slice at most. `SecondsNotShort`: the CMOS clock does not gain, but for rounding and a cycle that a halted CPU skips backwards. `HaltWakes`: a CPU halted with interrupts enabled and a timer armed wakes up |
| `drive` | two chunked and two raw drives, three sectors in blocks of two; seven uses, one of the build without `ENABLE_ZLIB` and one with a block that cannot be read | `ImplementsDisk`: cache, two passes and the shared slot do what `Disk` says. `SlotAwaited`: the pending callback is one somebody waits for. `Answered`: polite callers are answered, or the program ends over a block that cannot be loaded |
| `ide` | two channels, three disks (one raw) and a CD-ROM drive, eight sectors in blocks of three; ten uses | `DataInPlace`: no write lands on another sector or drive. `AllMoved`: a command seen to end without error has moved every sector, in order. `CompletionAwaited`: the pending callback is one its channel waits for, and BSY goes away by itself. `OnlyKnownFatal`: which commands can reach an `IDE_FATAL`. `CommandsEnd`: each command ends |
| `code` | every family of instructions with two faults and two rounds of REP; two linear and two physical pages of two chunks, three TLB entries, two traces; two uses | Of `Instr`: `Precise` (a fault leaves the registers as they were, and ends the instruction, but for the listed families), `NotTorn` (none faults after it has overwritten an operand it reads again), `StoresChecked` (a store is to a page that may be written, but for two families and for 4 MB pages, which are let through unchecked). Of `CodeCache`: `CodeFresh`, `CodeGuarded`, `MappingsFollowed` |
| `parts` | `Decode`: traces of two instructions, eleven distances to the page's end, ten lists of prefixes, eight operands. `Kbd`: queues of five bytes, four uses. `Fdc`: two drives of four sectors, blocks of three, six uses | `InPage`, `FetchNeeded`, `SegmentsDropped`; `BytesInOrder`, `OwnerShown`, `NotStranded`; `AnswersFit`, `CommandsAnswered` |
| `pic_lost`, `apic_peek`, `drive_overlap`, `ide_prefetch`, `pit_early` | the instances above, one use each | the five disagreements below |

Invariants that are proved for every instance and follow from no run's bounds are not
repeated in a run: the types of `Pic`, `Apic`, `Timers` and `Drive`, and of `Drive`
`ModifiedCovers`, `AbortCauses`, `CompletionLoads` and `ImageKept`. `TypesOK` of `code` and
of `parts` is the conjunction of the types of the modules composed there.

Why the bounds are enough:

* Three inputs on a controller let one request come before and one after the cascade
  in every rotation; nesting needs two requests, a stranded third needs a third, and
  `maxRaises` is 2 to 4. One ICW1 per controller suffices to interrupt a request at
  each point.
* In `Apic`, two classes with two vectors in one of them separate "same class" from
  "higher class"; two lines on one pin reach the shared-pin cases of IRQ 0; three or
  four messages fill IRR and ISR and leave one to be dropped. Priorities 256 and 63
  are one that overflows the 8-bit register and one that blocks two vectors.
* In `Timers`, 16 cycles a second against 11 and 12 counts make every conversion round,
  and differently from count to count; a PIT period (11 cycles and a fraction) is longer
  than a slice and a one-shot of 5 counts about one and a half, an APIC period of 2 is shorter than
  a slice and one of 5 as long; the widths `Wide` and `AcpiWrap` are small enough to
  wrap. No clock divides them, as in the program, so that a counter turns over in the middle
  of a cycle. The age of a counter is kept below `PitTurn`, `AcpiTurn`: cycles in which it
  makes whole turns, which exist for any clocks (`Turns`).
* In `Drive`, three sectors in blocks of two give a block boundary, a request across
  it and a last block that is not whole; two chunked drives compete for the slot; three
  requests allow one to overwrite, one to be overwritten and one to follow.
* In `Ide`, eight sectors in blocks of three have two boundaries and a last block that is not
  whole, so that a transfer starts loaded and goes on unloaded. A byte has four values
  (`Byte`): a count of four is written as zero, and every address of an LBA48 command
  uses more than one register; with two heads and two sectors per track a transfer
  crosses tracks and cylinders. Two accesses per sector leave a buffer half moved. Two or
  three jobs (`maxJobs`) are one to be given up, one to follow and one on the other
  channel. `SectorSize` of eight keeps a prefetch, taken for bytes, within its first
  sector, as 512 does with any count of an LBA28 command.
* In `CodeCache`, two linear pages on two physical ones give aliases and
  exchanges; a TLB of three entries is filled by the two and a duplicate; the second chunk is
  the page's last, where the loop of the invalidation ends early. In `Instr` a second fault can
  strike the instruction that was repaired once, and two rounds are the first and a later one
  of REP. Nothing in a family depends on more.
* In `Decode`, distances up to 20 cover an instruction that ends before the page's last
  byte, with it and after it, for lengths of up to 15 and those that are longer; two of the
  ten lists of prefixes have as many as pass `decode_prefix()` after a first one it does not
  count; `MAX_TRACE_SIZE` of three ends some traces for want of space. In `Kbd`, mouse
  packets of three and an answer of two bytes overflow a queue of five. In `Fdc`, four
  sectors with a boundary after the third let a transfer lie in one block, in two, or be
  cached in half; the driver gives two or three commands, so one can be disturbed and
  another follow.

Deadlock is checked in `timers` and `pit_early` only: the other models stop when their
environment's bound is used up, and the program itself waits for its guest.

### Fairness

`Pic` and `Apic` assume weak fairness of `GetInterrupt` and of the EOI: `cpu_run()`
looks at INTR before every stretch of instructions, an operating system does not keep
interrupts disabled for ever, and its handlers end with an EOI. Nothing is assumed of
devices or of other guest commands, and the liveness properties hold only for uses in
which the guest leaves the controllers alone otherwise. `Drive` assumes weak fairness
of `CheckComplete`: `drive_check_complete()` is the first thing `pc_execute()` does,
and that is called in an endless loop.

`Timers` assumes that this loop goes on (`StartSlice`, `EnterLoop`, `TakeInterrupt`,
`EndSlice`), and nothing of the guest: `HaltWakes` is about a guest that does nothing.

`Ide` assumes weak fairness of `Complete`, for the same reason as `Drive`, and of each
channel's `GuestStep`: a driver that has begun a command goes on with it. Nothing is
assumed of `SetUp`, resets or masking. `CommandsEnd` then needs the code: that the status
leaves BSY, that DRQ comes with an interrupt, and that the count reaches zero. `Fdc` is the
same with `Complete`, `Unmask`, `WriteCommandByte`, `TakeIrq6` and `ReadResultByte`.

### Disagreements between code and comments

1. `pic.c:13`, "If ISR is empty and interrupt is not masked, then raise INTR line":
   after a spurious acknowledgement ISR is empty, another request may be pending, and
   INTR stays low (`pic_lost`, `EmptyIsrSignals`).
2. `apic.c:181`, the interrupt waits for the CPU to acknowledge it: a guest's read of
   the processor priority register acknowledges it, too (`apic_peek`,
   `OnlyCpuAcknowledges`).
3. `ide.c:1361`, "wait for the read callback to be called": with both channels waiting,
   the first one's callback is never called (`drive_overlap`, `CallbackCalled`).
4. `ide.c:1605`, "Expected sync response for prefetched data": the prefetch is given a
   sector count where bytes are due, so only the first block is loaded, and DMA that
   crosses into another block ends the program (`ide_prefetch`, `PrefetchedIsSync`).
5. `pit.c:145`, "OUT line is set high after count goes from one to zero": the first poll
   after a count is loaded finds it above the 0 remembered from the loading and raises
   IRQ 0 at once (`pit_early`, `NeverEarly`).

What the code does that no comment promises otherwise is visible in the definitions and
in the exceptions the properties name:

* `Ide`: READ VERIFY reports in the primary channel's status (`ide.c:1848`);
  INITIALIZE DRIVE PARAMETERS selects the slave (1866) and uses no new geometry; a completion
  clears BSY of a channel held in reset; the last block of an asynchronous write is not
  announced by an interrupt (1456), nor is the completion of F8; the two LBA48 address
  functions disagree (374, 419); and `bytes_in_buffer` is never reduced, so that a descriptor
  table longer than its command moves more than was asked (1615).
* `Timers`: a masked periodic APIC timer found late by exactly a period makes
  `cpu_run()` execute 2^32 instructions; the CMOS clock gains where register A selects
  no rate (`cmos.c:178`); a PIT poll that sees the count at 0 hides a tick;
  a CPU that halts behind a late, masked APIC timer may skip -1 cycles (`pc.c:461`).
* `Decode`: rows of the length table that are short (0F 18, 0F 38, 0F C2 and C4 to C6) or
  long (`Long`); a segment prefix survives a refused LOCK prefix (`decoder.c:668`).
  `decode_prefix()` measures an instruction as if its first prefix were not there
  (`decoder.c:586`): one that begins with 66 or 67 may be refused though it has 15 bytes, or
  accepted with as many as 21 (67 in 16-bit code brings an SIB byte and a displacement),
  more than the four bits of the length hold.
* `Instr`: the families of `Imprecise`, `RunsOn` and `StoresChecked`; in particular
  FPU_ABORT() goes on after a delivered exception (`fpu.c:706`). x87 stores change the FPU's
  pointers, the status word or, for FSTENV and FSAVE, the tag word before the access that may
  fault, so that the instruction, started again, may report an x87 exception of its own making
  (`fpu.c:347`, `570`, `1417`). The R/W and U/S bits of a 4 MB page are not looked at
  (`mmu.c:159`): programs read and write the supervisor's, and write read-only ones.
* `CodeCache`: writes that leave a stale trace through an alias, by the 8237, by IDE DMA
  to a page's last 128 bytes or to the page its rounding misses, by a running trace
  that has dropped itself, and by a store that begins ahead of the running trace and reaches
  its first bytes: that drops the trace without ending it (`smc.c:74`).
* `Kbd`: a byte of the other device that comes while one waits turns the status; a
  button is reported though reporting is off.
* `Fdc`: only the first format after power-on writes (`format_dma_pos` is never reset),
  and one that waits for a block is never answered; only a write to port 3F2 lowers
  IRQ 6; a reset gives up neither the DMA request nor the disk transfer.

## Theorems

| Module | Theorem | Says |
|---|---|---|
| `PicProofs` | `TypeCorrect`, `NeverReentered`, `NestingOrdered` | `Spec => []TypeOK`, `Spec => []NoReentry`, `Spec => []NestingOrder` |
| `PicProofs` | `FirstTaken`, `NothingStranded`, `OnlyTheseStrand` | `HighestFirst`, `NoLostRequest`, `StrandingSteps` |
| `ApicProofs` | `TypeCorrect`, `NothingLost`, `TakenInOrder`, `LevelAnswered` | `TypeOK`, `NoLostInterrupt`, `TakenOutranks`, `LevelInFlight` |
| `TimersProofs` | `TypeCorrect`, `AccountsForAll`, `WaitsAreReal` | `TypeOK`, `ClockInStep`, `OnlyMaskedTimerStalls` |
| `TimersProofs` | `SecondsLast`, `TicksCounted` | `SecondsNotShort`, `TicksKept` |
| `DriveProofs` | `TypeCorrect`, `CallbackAwaited`, `ModifiedSaved`, `AbortsExplained`, `CompletionLoaded`, `ImageUntouched` | `TypeOK`, `SlotAwaited`, `ModifiedCovers`, `AbortCauses`, `CompletionLoads`, `ImageKept` |
| `DriveProofs` | `Implements` | `Spec => ImplementsDisk`: `Drive` implements `Disk` |
| `IdeProofs` | `TypeCorrect`, `CompletionIsAwaited` | `TypeOK`, `CompletionAwaited` |
| `IdeProofs` | `CommandsMoveAll`, `DataStayInPlace`, `FatalIsKnown` | `AllMoved`, `DataInPlace`, `OnlyKnownFatal` |
| `FdcProofs` | `FdcTypeCorrect`, `AnswersCorrect` | `FdcTypeOK`, `AnswersFit` |
| `PartsProofs` | `KbdTypeCorrect`, `ReadInOrder`, `StatusShowsOwner`, `InterruptToCome` | `KbdTypeOK`, `BytesInOrder`, `OwnerShown`, `NotStranded` |
| `PartsProofs` | `DecodeTypeCorrect`, `TracesInPage`, `FetchesNeeded`, `SegmentsEnd` | `TypeOK` of `Decode`, `InPage`, `FetchNeeded`, `SegmentsDropped` |
| `PartsProofs` | `PartsTypeCorrect` | `PartSpec => []TypesOK` |
| `CodeProofs` | `TypeCorrect`, `StoresLook`, `OthersNoticed`, `FlushesSuffice` | `CacheTypeOK`, `CodeGuarded`, `CodeFresh`, `MappingsFollowed` |
| `CodeProofs` | `InstrTypeCorrect`, `StoresAllowed`, `ExceptionsPrecise`, `OperandsKept` | `TypeOK` of `Instr`, `StoresChecked`, `Precise`, `NotTorn` |
| `CodeProofs` | `CodeTypeCorrect` | `CodeSpec => []TypesOK` |

They hold for any number of lines, vectors, sectors, drives, pages, queue sizes, rates
and any uses allowed by the `ASSUME` of each model (`PicAssumption`, `ApicAssumption`,
`TimersAssumption`, `DriveAssumption`, `IdeAssumption`, `FdcAssumption`, `KbdAssumption`,
`CodeCacheAssumption`, `DecodeAssumption`, `BoundsAssumption`); the bounds of the runs play no
part. `Decode` and `Instr` are about tables that are part of the model; what is general there
is the use made of them: any prefixes, operands, distances and lengths of a trace, any page
table, any number of faults and of iterations.

* **8259s.** `IInv == TypeOK /\ NoReentry` is inductive. The argument is about the
  latch: an update latches an input only if it is not in service (`CandidateFree`);
  only an acknowledgement puts an input into service, and it lowers INTR, or removes
  the cascade request, in the same step; everything else can only shrink the ISR
  (`FewerInService`). The two halves of `NoReentry` are needed together because a slave
  update changes the master.

  `NestingOrder` is inductive once no chip being in special mask mode is part of it
  (`Ordered`): a new latch is above what is in service because that is how it was
  chosen (`LatchedAbove`), and with fixed priorities only an acknowledgement or ICW1 can
  take it below. `HighestFirst` needs `First`: while INTR is up, a latched input that is
  still requested is the one an update would latch now. Withdrawing any other request
  keeps that, and withdrawing the latched one makes the acknowledgement spurious
  (`LoweredFirst`). `NoLostRequest` needs `AllPassed`, for both chips: a latch that is
  passed on is the one an update would choose, one that is not has nothing to choose. The
  step to see is the acknowledgement, which updates neither chip: the input taken was the
  first, so once it is in service nothing outranks it (`TopAcknowledged`). That one input
  is first if any can be signalled is the only use of well-foundedness (`FirstExists`).
  `StrandingSteps` needs no more than types: an update signals whatever there is to signal,
  and what can be signalled does not grow when a line falls (`LoweredSignal`).
* **APICs.** `IInv == TypeOK /\ NoLostInterrupt /\ TakenOutranks`. Every handler that
  can make a request deliverable ends in `Send`, which signals unless a signal is
  already up (`SendSound`); a signal that is up was sent for a request that outranks
  the ISR, and until the acknowledgement IRR only grows and ISR only shrinks
  (`Outranks`). That a signal up at the APIC is also on the line needs the first
  conjunct for every other writer of the line, and fails with ICW1. `LevelAnswered` has
  an invariant of its own (`LevelInv`) for plain use: the TMR bit of a vector that is
  requested or in service is the mode of the entry that sent it (`ModesFit`), so the EOI
  of a level interrupt reaches the I/O APIC and clears remote IRR.
* **Timers.** `Clocked` says where `cpu_run()`'s counters stand at each point of its loop:
  in front of an instruction, executed plus `toRun` plus `refill` is at most the slice
  plus one, and interrupts are blocked at the top of the loop only before the first
  instruction. Every way out of the inner loop keeps that sum or cuts it. `Timely` is
  needed because a guard makes a slice a cycle longer than the wait it was computed
  from, so skipped time may be a cycle short of none; with it every wait but the APIC's
  is at least a cycle (`PitWaits`, `RtcWaits`, `AcpiWaits`), and the APIC's is zero only
  for a late, masked, periodic timer (`ApicWaits`). The assumption that no clock is
  faster than the CPU is what makes a count of one last a cycle.

  `SecondsNotShort` has the invariant `SecondsInv`: what the clock has counted of the second
  that is going on (`Counted`: the age of the period, and the periods before it while the
  periodic interrupt is on) is not more than has passed (`KeepsUp`). Without it a change of
  rate could not be judged, for each write to register A or B starts a period again and
  throws away what was counted. A second ends when its periods are over, and `f` periods of
  `TicksPerSecond \div f` cycles are a second but for the remainder (`Periods`). The proof
  attempt found the exception of one cycle: an interrupt guard makes a slice one longer than
  the wait, a masked APIC timer is then late, and a CPU that halts there skips -1 cycles
  (`GoesBack`). The use `Reversed` of the run is that case.

  `TicksKept` has the invariant `TicksInv`, for uses in which the CPU neither halts nor blocks
  interrupts. `Unguarded`: no slice is then longer than it was asked for. `Punctual`: an
  APIC timer that has not expired by the last poll expires within the slice. `PitFits` is
  about the PIT, which infers from two counts whether a period has ended between them:
  `InPhase` says that the count a poll reads is that of the time since it was loaded, `Within`
  that none or one period has ended since the last poll, and that the balance `owed` was within
  one then, and `Horizon` in `Polls` that the next poll comes before a second one can. The
  proof attempt found an exception: once `cpu_run()` has been asked for no cycles nothing
  is polled any more, and ticks are missed without bound.
* **Disk layer.** `IInv` adds to the properties that the blocks of the pending transfer are
  cached if blocks are loaded at all (so only a build without `ENABLE_ZLIB` fails in the
  second pass), that it belongs to a chunked drive in use, and that a raw drive written in
  place has no cache. A pass over the blocks is summed up by `CheckedIs`: loading never
  changes the *content* of a drive, and a write changes exactly the sectors that were
  cached. The refinement maps a store to its content; each action is then one of `Disk`,
  with the cached part of the request as the part that `Accept` transfers. The awaited
  request is recovered from slot and arguments by `Pending`, which is why the shared slot
  cannot answer with another's arguments. A completion counts as `Answer` only with all of
  the request moved (`Answers`, `CalledIs`).
* **Disks.** The invariant is `Inv == TypeOK /\ Control /\ Data`, in three layers, each
  inductive over the ones before it.

  `TypeOK` is arithmetic: `ide_set_sector_offset()` takes an address apart into bytes, or into
  cylinder, head and sector, and each part fits its register (`Division`, `Nested`,
  `QuotientBound`). This is where the 16 heads and the sectors of a track below 256 are needed.

  `Control` is `CompletionAwaited` with what it rests on: where a guest moves data, starts
  the bus master or has seen the end, its channel is not busy, and it starts the bus master
  only for a DMA command (`StageFits`); guests that do not overlap are active one at a time
  (`OneAtATime`); jobs are those of the use (`JobsUsed`). Without `StageFits` the property is
  not inductive: a bus master started for another command would take the slot for a channel
  that never set out to use it.

  `Data` says how far each job has come. `Stands(x, j, k)`: the registers name the `k`-th
  sector of job `j` and what is left from there. `Progress` gives for each kind of command
  and each status what `k` is, what the guest has got (`Reading`) and what is on the disk
  (`Writing`, `Stored`), `Moved` the end. `PendingFits` ties the slot to it: the sector that a
  completion will use is the one the registers name, and it is loaded by then. The lemmas
  that carry it are that `Offset` undoes `WithOffset` in each of the three modes, for
  every address in `Reach`, and that the count register, which holds 0 for the largest
  count, counts down to 0 (`CountedDown`, `CountLeft`). A step keeps the progress of a
  channel if it leaves its work alone (`SameWork`, `Local`), so that what the other channel
  does need not be looked at: the two can only meet in the slot, and there the loser keeps
  BSY and never moves on. `DataInPlace` and `OnlyKnownFatal` are then statements about one
  step from a state with the invariant (`InPlaceStep`, `FatalStep`): a write goes to
  the sector named, which is within the job, and DMA that meets an unloaded block is that
  of a job that crosses one (`Crosses`).
* **Floppy controller.** `Inv == Types /\ (~driver.disturbed => OnCourse(fdc, driver))`.
  `Types` holds whatever the driver does. With the ranges it has how the FIFO stands
  (`Fifo`, `InStep`): a command is collected only while no result waits, and the driver's
  count of its bytes is the controller's wherever it may write the next. Without that the
  ranges are not inductive, for the position would run past the size. A step of DMA or of
  the disk layer leaves the FIFO alone, answers, or shuts the driver out (`FifoStep`,
  `FifoKept`).

  `OnCourse` says of a command that was sent that it is in one of three phases
  (`Underway`). `Due`: all but the channel's transfer is done, and `dmabuf`, memory, drives
  and channel are what that transfer needs. `Loading`: the slot holds this very request,
  and no sector outside it has changed. `Ended`: nothing is pending, and if there is a
  result it is the right one. The steps between them are those of three machines that call
  each other within one write: the last byte of a command, unmasking and the completion may
  each run the transfer (`Transferred`, `Requested`, `SecondPassIs`), and a read whose blocks
  have come requests its transfer while the slot is still held, so that this moment has
  a predicate of its own (`ReadDue`). `Fresh`, that the position in the list of headers is 0
  until a format begins, is what the first format owes its success to. The proof attempt
  found guards of the CASE in `HandleFormat` that overlapped; they now exclude each other.
* **Keyboard controller.** `Numbers` ties the numbers of a device's bytes together: those
  in its queue are the last that were sent, in order; the one before them (`Gone`) was
  delivered, or lost when the queue wrapped. `Waits`: if a byte is queued one is in
  the buffer. `Raised`: while a byte waits and no handler runs there is a request, since
  whichever byte came last raised one and only the handler's read lowers it.
* **Code.** `Marks`: every chunk of a cached trace has its bit in `smc_has_code[]` and the
  trace begins in the first, so a store that looks for code finds it. `Listed`: every valid
  translation is on the list a flush walks, whatever else is on it. With those
  `CodeFresh` and `MappingsFollowed` are kept by each step.
* **Decoder.** Three steps lead from the tables to the traces. Each row of the length table
  is compared with what its function reads (`RowFits`, table by table); the families where
  they differ, and by how much, are the only ones the properties may except. `Sizes` then
  adds the operand's bytes, for which a ModR/M byte and the prefixes 66 and 67 are enough,
  and `Lengths` the prefixes themselves: the length scanned is at least that decoded, but for
  `Short`, and at most it, but for `Long`. The machine needs
  `BetweenPages`: between two instructions nothing is fetched, bytes of the page are left, and
  the trace has room for two more. The invariant is `DecodeInv`. The attempt found that
  `FetchNeeded` had excused every instruction that is too long, where only the refused ones
  need it; that 18 was not the longest length that is accepted; and arms of two CASEs
  that overlapped, of which TLC takes the first and TLA+ leaves the choice open.
* **Instructions.** What is required of a handler is a discipline on its list of effects,
  without page tables or faults (`Good`): where it may raise an exception (`CanStop`) it has
  changed only registers `Imprecise` names (`Ordered`), and stored to nothing that it loads
  (`Untorn`); a store asks for a write or is one of the two named (`Checks`;
  `StoresChecked` excepts these and the 4 MB pages, where asking does not help); a handler that
  goes on after an exception is in `RunsOn` (`Ends`); REP goes back to an effect in front
  (`Loops`). An access may not raise an exception if an earlier one of the same effects
  asked for as much of the same place (`Settled`): that is what the probe of a
  read-modify-write is for. `TablesGood` goes through the handlers.

  That a good handler has the properties is the machine's part (`InstrInv`). `Probed`: of an
  access that has been made the translation is still there, in both pages of an operand
  across two, so a settled access does not fault (`SettledReaches`); it holds because only
  the guest's repair takes translations away, and that starts the instruction again.
  `Registers` and `Stores` say that what is changed and stored is due to effects in front of
  the current one, in this iteration, and `Faulted` that the instruction stands where it may
  stop. `Precise` and `NotTorn` are then the discipline at that place.

Every invariant of the passing runs is a theorem. Only model-checked are the liveness
properties (`AllServed`, `RequestTaken`, `HaltWakes`, `Answered`, `CommandsEnd`,
`CommandsAnswered`: liveness under fairness is out of the prover's reach) and the five
disagreements, each of which is a behaviour TLC shows.

## Not modelled

* PCI's configuration registers, VGA and the displays, port and MMIO dispatch, the NE2000
  card, `state.c`, configuration and front ends: see the notes in `PROJECT.json`. They
  decode registers, transform data or are input and output. `ne2000_poll()` is called
  from nowhere, so the card never receives and its ring never moves.
* Of the modelled parts: ATAPI packets, ATA error and feature registers, bus-master status
  bits, ExtINT and the I/O APIC's link back to the 8259s, `Pic` and `Apic` over one
  composed INTR line, vectors of the 8259s, byte-wise register access, savestates, offsets
  of more than 32 bits, the Emscripten build of the disk layer (its blocks arrive from a
  network callback), the alarm and calendar of the CMOS clock, PIT latches and channels 1
  and 2, the rounding of clock conversions in doubles (they are exact here), the flip-flop of
  the DMA controllers, page table walks, what instructions
  compute, media changes.

## What could come next

1. `Pic` and `Apic` composed over one INTR line, with the cascade pulse that reaches I/O
   APIC pin 2 and ExtINT.
2. ATAPI packet commands with their own buffer and byte counts.
3. Lazy flags (`cpu/eflags.c`) and the priority rotation on bits (`rol()` against `Rank`)
   as pure functions against a reference.
