----------------------------- MODULE FdcProofs -----------------------------
(***************************************************************************)
(* Theorems about Fdc, for drives, tracks, blocks and drivers of any kind: *)
(* a command's answer is its own and says what has become of its sectors.  *)
(***************************************************************************)
EXTENDS Fdc, WellFoundedInduction, TLAPS

\* Values that are in memory and on drives; what a header names is a sector.
Cells == {v \in Values : v[1] = "header" => v[3] \in Sectors}
Contents == [Drives -> [Sectors -> Cells]]
Memory == [0 .. TrackSectors -> Cells]
Slots == [busy : BOOLEAN, op : Transfers, drive : Drives, first : Sectors,
          count : 0 .. TrackSectors]

Controller ==
  [sel : Drives, msr : SUBSET {"rqm", "cb", "dio"}, cmd : Ops \cup {"none"}, pos : Nat,
   size : 0 .. 9, left : 0 .. 7, ok : BOOLEAN, at : [Drives -> Sectors],
   lba : [Drives -> Sectors], wlen : 0 .. TrackSectors, fpos : 0 .. TrackSectors,
   fend : 0 .. TrackSectors, fill : Cells, buf : [0 .. TrackSectors - 1 -> Cells],
   line : BOOLEAN, irr : BOOLEAN, masked : BOOLEAN, req : BOOLEAN, toMem : BOOLEAN,
   addr : Nat, count : 0 .. TrackSectors, mem : Memory, content : Contents,
   cached : [Drives -> SUBSET Nat], slot : Slots, fatal : BOOLEAN, formats : Nat,
   deferred : BOOLEAN]

Before == [content : Contents, mem : Memory]

DriverRecord ==
  [stage : {"idle", "ready", "sent"}, job : Jobs, bytes : Nat, seen : BOOLEAN, jobs : Nat,
   disturbed : BOOLEAN, before : Before]

\* The commands of more than one byte.
LongCommands == Ops \ {"sense", "version"}

\* A command has begun or it has not, and none has while a result waits.
Fifo(f) ==
  /\ "dio" \in f.msr => f.left >= 1 /\ f.size = 0
  /\ f.pos <= f.size /\ (f.pos = 0 <=> f.size = 0)
  /\ f.size > 0 => f.cmd \in LongCommands /\ f.size = CommandSize[f.cmd]

\* The FIFO holds what the driver has written, if it may write more.
InStep(f, d) ==
  /\ d.stage = "idle" => f.size = 0
  /\ d.stage = "sent" /\ d.job.op = "calibrate" => f.size = 0
  /\ d.stage = "ready" /\ "rqm" \in f.msr /\ "dio" \notin f.msr =>
       /\ f.pos = d.bytes
       /\ d.bytes > 0 => f.cmd = d.job.op /\ f.pos < f.size

Types ==
  /\ fuse \in FdcUses /\ fdc \in Controller /\ driver \in DriverRecord
  /\ Fifo(fdc) /\ InStep(fdc, driver)

-----------------------------------------------------------------------------
\* What is wanted of the n-th job from what was before.
Wished(j, n, b) ==
  LET S == Touched(j.first, j.count)
  IN CASE j.op = "read" ->
            [b EXCEPT !.mem = [a \in DOMAIN @ |->
               IF a < j.count THEN b.content[j.drive][j.first + a] ELSE @[a]]]
       [] j.op = "write" ->
            [b EXCEPT !.content[j.drive] =
               [s \in Sectors |-> IF s \in S THEN b.mem[s - j.first] ELSE @[s]]]
       [] j.op = "format" ->
            [b EXCEPT !.content[j.drive] =
               [s \in Sectors |-> IF s \in S THEN <<"fill", n, 0>> ELSE @[s]]]
       [] OTHER -> b

HasMoved(f, j, n, b) ==
  \/ [content |-> f.content, mem |-> f.mem] = Wished(j, n, b)
  \/ j.op = "format" /\ (f.formats > 1 \/ f.deferred)

\* The channel is set for the job, and nothing has happened yet.
Set(f, j) == f.addr = 0 /\ f.count = j.count /\ f.toMem = (j.op = "read")
Headed(f, j) == j.op = "format" => \A a \in 0 .. j.count - 1 : f.mem[a] = <<"header", 0, j.first + a>>
Unmoved(f, b) == f.content = b.content /\ f.mem = b.mem

\* The controller is at work on a job.
AtWork(f, j) ==
  /\ j.op \in Transfers /\ ~Refused(j) /\ f.cmd = j.op /\ f.sel = j.drive
  /\ "dio" \notin f.msr /\ ~f.fatal

\* All that is left to do is the channel's transfer.
Due(f, j, n, b) ==
  /\ AtWork(f, j) /\ f.req /\ ~f.slot.busy
  /\ Set(f, j) /\ Headed(f, j) /\ Unmoved(f, b)
  /\ j.op = "read" => \A i \in 0 .. j.count - 1 : f.buf[i] = b.content[j.drive][j.first + i]
  /\ j.op = "write" => f.lba[j.drive] = j.first /\ f.wlen = j.count
  /\ j.op = "format" => /\ f.fend = j.count /\ f.fill = <<"fill", n, 0>>
                        /\ f.formats >= 1 /\ (f.formats = 1 => f.fpos = 0)

\* Blocks are being loaded: for a read before the channel's transfer, or after it.
Loading(f, j, n, b) ==
  /\ AtWork(f, j) /\ ~f.req /\ f.slot.busy /\ f.slot.op = j.op
  /\ j.op # "format" => f.slot.drive = j.drive /\ f.slot.first = j.first /\ f.slot.count = j.count
  /\ j.op = "read" => Set(f, j) /\ Unmoved(f, b)
  /\ j.op = "write" =>
       /\ f.mem = b.mem /\ \A i \in 0 .. j.count - 1 : f.buf[i] = b.mem[i]
       /\ \A d \in Drives, s \in Sectors :
            d # j.drive \/ s \notin Touched(j.first, j.count) =>
              f.content[d][s] = b.content[d][s]
  /\ j.op = "format" =>
       f.deferred /\ f.formats >= 1 /\ \A i \in f.fpos .. f.fend - 1 : f.buf[i][1] = "header"

\* There is nothing left to do.
Quiescent(f) == ~f.req /\ ~f.slot.busy /\ ~f.fatal

Ended(f, j, n, b) ==
  /\ Quiescent(f)
  /\ "dio" \in f.msr =>
       /\ j.op # "calibrate"
       /\ f.left = 7 => /\ j.op \in Transfers /\ f.ok = ~Refused(j)
                        /\ f.ok => HasMoved(f, j, n, b)

Underway(f, j, n, b) == Due(f, j, n, b) \/ Loading(f, j, n, b) \/ Ended(f, j, n, b)

\* The position in the list of headers is that of the first format, until one begins.
Fresh(f) == f.formats = 0 => f.fpos = 0

\* What has become of the driver's job.
OnCourse(f, d) ==
  /\ Fresh(f)
  /\ d.stage = "idle" => Quiescent(f) /\ "dio" \notin f.msr
  /\ d.stage = "ready" => /\ Quiescent(f) /\ "dio" \notin f.msr
                          /\ d.job.op \in Transfers => Set(f, d.job) /\ Headed(f, d.job)
                          /\ Unmoved(f, d.before)
  /\ d.stage = "sent" => Underway(f, d.job, d.jobs, d.before)

Inv == Types /\ (~driver.disturbed => OnCourse(fdc, driver))

-----------------------------------------------------------------------------
LEMMA Constants ==
    /\ NumSectors \in Nat /\ NumSectors >= 1 /\ TrackSectors \in Nat /\ TrackSectors >= 1
    /\ Heads \in Nat /\ Heads >= 1 /\ BlockSectors \in Nat /\ BlockSectors >= 1
<1>1. {NumSectors, TrackSectors, Heads, BlockSectors} \subseteq Nat \ {0}
  BY FdcAssumption
<1> QED  BY <1>1

LEMMA JobIs ==
    ASSUME NEW j \in Jobs
    PROVE  /\ j.op \in Ops /\ j.drive \in Drives /\ j.first \in Sectors /\ j.bad \in BOOLEAN
           /\ j.count \in 1 .. TrackSectors
           /\ \A i \in 0 .. j.count - 1 : j.first + i \in Sectors
           /\ j.op = "format" => j.count = TrackSectors
BY Constants DEF Jobs, Sectors

\* What memory is filled with.
LEMMA DataAreCells ==
    ASSUME NEW n \in Nat, NEW a \in Nat
    PROVE  <<"data", n, a>> \in Cells /\ <<"fill", n, 0>> \in Cells
BY DEF Cells, Values

LEMMA HeadersAreCells ==
    ASSUME NEW s \in Sectors
    PROVE  <<"header", 0, s>> \in Cells
BY Constants DEF Cells, Values, Sectors

LEMMA OthersAreCells ==
    /\ Junk \in Cells /\ Torn \in Cells
    /\ \A d \in Drives, s \in Sectors : <<"image", d, s>> \in Cells
<1>1. Junk \in Cells
  BY DEF Cells, Values, Junk
<1>2. Torn \in Cells
  BY DEF Cells, Values, Torn
<1>3. \A d \in Drives, s \in Sectors : <<"image", d, s>> \in Cells
  BY Constants DEF Cells, Values, Drives, Sectors
<1> QED  BY <1>1, <1>2, <1>3

LEMMA HeaderNames ==
    ASSUME NEW v \in Cells, v[1] = "header"
    PROVE  v[3] \in Sectors
BY DEF Cells

\* Of some numbers, one is the least.
LEMMA LeastExists ==
    ASSUME NEW S \in SUBSET Nat, S # {}
    PROVE  \E k \in S : \A i \in S : k <= i
<1> DEFINE R == OpToRel(<, Nat)
<1>1. \E x \in S : \A y \in S : ~(<<y, x>> \in R)
  <2>1. IsWellFoundedOn(R, Nat)
    BY NatLessThanWellFounded
  <2> HIDE DEF R
  <2> QED  BY <2>1, WFMin
<1>2. PICK x \in S : \A y \in S : ~(<<y, x>> \in R)
  BY <1>1
<1>3. ASSUME NEW y \in S  PROVE  x <= y
  <2>1. ~(y < x)
    BY <1>2 DEF OpToRel
  <2> QED  BY <2>1
<1> QED  BY <1>3

-----------------------------------------------------------------------------
\* What a step of the controller leaves alone: the job it was given, the channel and
\* what is stored.
SameTask(f, g) ==
    /\ g.sel = f.sel /\ g.cmd = f.cmd /\ g.wlen = f.wlen /\ g.fpos = f.fpos /\ g.fend = f.fend
    /\ g.fill = f.fill /\ g.formats = f.formats /\ g.deferred = f.deferred
    /\ g.fatal = f.fatal
SameChannel(f, g) ==
    /\ g.masked = f.masked /\ g.req = f.req /\ g.toMem = f.toMem /\ g.addr = f.addr
    /\ g.count = f.count
SameData(f, g) == g.content = f.content /\ g.mem = f.mem /\ g.buf = f.buf
SameFifo(f, g) ==
    g.pos = f.pos /\ g.size = f.size /\ g.cmd = f.cmd /\ g.left = f.left
Answers(g) == "dio" \in g.msr /\ g.pos = 0 /\ g.size = 0 /\ g.left = 7

\* A step of DMA or of the disk layer leaves the FIFO as it was, or it answers, or it
\* keeps the driver from the FIFO.
FifoStep(f, g) ==
    \/ SameFifo(f, g) /\ g.msr \in {f.msr, f.msr \cup {"cb"}, {"cb"}}
    \/ Answers(g)

LEMMA FifoKept ==
    ASSUME NEW f, NEW g, NEW d \in DriverRecord, Fifo(f), InStep(f, d), FifoStep(f, g)
    PROVE  Fifo(g) /\ InStep(g, d)
<1>1. Fifo(g)
  BY DEF Fifo, FifoStep, SameFifo, Answers
<1>2. InStep(g, d)
  BY DEF Fifo, InStep, FifoStep, SameFifo, Answers
<1> QED  BY <1>1, <1>2

LEMMA ResetCmdFifoIs ==
    ASSUME NEW f \in Controller
    PROVE  LET g == ResetCmdFifo(f)
           IN  /\ g \in Controller /\ g.pos = 0 /\ g.size = 0
               /\ g.msr = f.msr /\ g.left = f.left /\ g.ok = f.ok /\ g.lba = f.lba
               /\ g.slot = f.slot /\ SameTask(f, g) /\ SameChannel(f, g) /\ SameData(f, g)
<1>1. ResetCmdFifo(f) \in Controller
  <2>1. 0 \in Nat /\ 0 \in 0 .. 9
    OBVIOUS
  <2> QED  BY <2>1, Zenon DEF Controller, ResetCmdFifo
<1>2. LET g == ResetCmdFifo(f)
      IN  /\ g.pos = 0 /\ g.size = 0 /\ g.msr = f.msr /\ g.left = f.left /\ g.ok = f.ok
          /\ g.lba = f.lba /\ g.slot = f.slot /\ g.cmd = f.cmd
  BY DEF Controller, ResetCmdFifo
<1>3. LET g == ResetCmdFifo(f) IN SameTask(f, g) /\ SameChannel(f, g) /\ SameData(f, g)
  BY DEF Controller, ResetCmdFifo, SameTask, SameChannel, SameData
<1> QED  BY <1>1, <1>2, <1>3

LEMMA ResetOutFifoIs ==
    ASSUME NEW f \in Controller, NEW n \in Nat, 1 <= n, n <= 7, NEW ok \in BOOLEAN
    PROVE  LET g == ResetOutFifo(f, n, ok)
           IN  /\ g \in Controller /\ g.left = n /\ g.ok = ok /\ g.msr = f.msr \cup {"cb", "dio"}
               /\ g.pos = f.pos /\ g.size = f.size /\ g.lba = f.lba
               /\ g.slot = f.slot /\ SameTask(f, g) /\ SameChannel(f, g) /\ SameData(f, g)
<1>1. ResetOutFifo(f, n, ok) = [f EXCEPT !.left = n, !.ok = ok, !.msr = @ \cup {"cb", "dio"}]
  <2>1. n # 0
    OBVIOUS
  <2> QED  BY <2>1 DEF ResetOutFifo
<1> DEFINE m == f.msr \cup {"cb", "dio"}
           g == [f EXCEPT !.left = n, !.ok = ok, !.msr = m]
<1>2. m \in SUBSET {"rqm", "cb", "dio"} /\ n \in 0 .. 7
  BY DEF Controller
<1> HIDE DEF m
<1>3. g \in Controller
  BY <1>2 DEF Controller
<1>4. /\ g.left = n /\ g.ok = ok /\ g.msr = m
      /\ g.pos = f.pos /\ g.size = f.size /\ g.lba = f.lba /\ g.slot = f.slot
  BY DEF Controller
<1>5. SameTask(f, g) /\ SameChannel(f, g) /\ SameData(f, g)
  BY DEF Controller, SameTask, SameChannel, SameData
<1> QED  BY <1>1, <1>3, <1>4, <1>5 DEF m

LEMMA RaiseIrq6Is ==
    ASSUME NEW f \in Controller
    PROVE  LET g == RaiseIrq6(f)
           IN  /\ g \in Controller /\ SameFifo(f, g) /\ g.msr = f.msr /\ g.ok = f.ok
               /\ g.lba = f.lba /\ g.slot = f.slot
               /\ SameTask(f, g) /\ SameChannel(f, g) /\ SameData(f, g)
<1>1. RaiseIrq6(f) \in Controller
  BY ZenonT(60) DEF Controller, RaiseIrq6
<1> QED  BY <1>1 DEF Controller, RaiseIrq6, SameFifo, SameTask, SameChannel, SameData

LEMMA LowerIrq6Is ==
    ASSUME NEW f \in Controller
    PROVE  LET g == LowerIrq6(f)
           IN  /\ g \in Controller /\ SameFifo(f, g) /\ g.msr = f.msr /\ g.ok = f.ok
               /\ g.lba = f.lba /\ g.slot = f.slot
               /\ SameTask(f, g) /\ SameChannel(f, g) /\ SameData(f, g)
<1>1. LowerIrq6(f) \in Controller
  BY DEF Controller, LowerIrq6
<1> QED  BY <1>1 DEF Controller, LowerIrq6, SameFifo, SameTask, SameChannel, SameData

LEMMA ResultIs ==
    ASSUME NEW f \in Controller, NEW ok \in BOOLEAN
    PROVE  LET g == Result(f, ok)
           IN  /\ g \in Controller /\ Answers(g) /\ g.ok = ok /\ g.msr = f.msr \cup {"cb", "dio"}
               /\ g.lba = f.lba /\ g.slot = f.slot
               /\ SameTask(f, g) /\ SameChannel(f, g) /\ SameData(f, g)
<1> DEFINE x == ResetOutFifo(f, 7, ok)
           y == ResetCmdFifo(x)
<1>1. /\ x \in Controller /\ x.left = 7 /\ x.ok = ok /\ x.msr = f.msr \cup {"cb", "dio"}
      /\ x.lba = f.lba /\ x.slot = f.slot
      /\ SameTask(f, x) /\ SameChannel(f, x) /\ SameData(f, x)
  <2>1. x \in Controller
    BY ResetOutFifoIs
  <2>2. x.left = 7
    BY ResetOutFifoIs
  <2>3. x.ok = ok
    BY ResetOutFifoIs
  <2>4. x.lba = f.lba /\ x.slot = f.slot /\ x.msr = f.msr \cup {"cb", "dio"}
    BY ResetOutFifoIs
  <2>5. SameTask(f, x) /\ SameChannel(f, x) /\ SameData(f, x)
    BY ResetOutFifoIs
  <2> QED  BY <2>1, <2>2, <2>3, <2>4, <2>5
<1>2. /\ y \in Controller /\ y.pos = 0 /\ y.size = 0 /\ y.left = x.left /\ y.ok = x.ok
      /\ y.msr = x.msr /\ y.lba = x.lba /\ y.slot = x.slot
      /\ SameTask(x, y) /\ SameChannel(x, y) /\ SameData(x, y)
  BY <1>1, ResetCmdFifoIs
<1>3. Result(f, ok) = RaiseIrq6(y)
  BY DEF Result
<1> HIDE DEF x, y
<1> QED  BY <1>1, <1>2, <1>3, RaiseIrq6Is DEF Answers, SameFifo, SameTask, SameChannel, SameData

LEMMA DoneIs ==
    ASSUME NEW f \in Controller
    PROVE  LET g == Done(f)
           IN  /\ g \in Controller /\ Answers(g) /\ g.ok = TRUE
               /\ g.lba = f.lba /\ g.slot = f.slot
               /\ SameTask(f, g) /\ SameChannel(f, g) /\ SameData(f, g)
<1> DEFINE x == [f EXCEPT !.msr = {"rqm"}, !.at[f.sel] = (@ + 1) % NumSectors]
<1>1. (f.at[f.sel] + 1) % NumSectors \in Sectors
  BY Constants, SMTT(40) DEF Controller, Sectors
<1>2. x \in Controller /\ x.lba = f.lba /\ x.slot = f.slot
  BY <1>1 DEF Controller
<1>3. SameTask(f, x) /\ SameChannel(f, x) /\ SameData(f, x)
  BY DEF Controller, SameTask, SameChannel, SameData
<1>4. Done(f) = Result(x, TRUE)
  BY DEF Done
<1> HIDE DEF x
<1>5. LET g == Result(x, TRUE)
      IN  /\ g \in Controller /\ Answers(g) /\ g.ok = TRUE /\ g.lba = x.lba /\ g.slot = x.slot
          /\ SameTask(x, g) /\ SameChannel(x, g) /\ SameData(x, g)
  BY <1>2, ResultIs
<1> QED  BY <1>2, <1>3, <1>4, <1>5 DEF SameTask, SameChannel, SameData

LEMMA SeekIs ==
    ASSUME NEW f \in Controller, NEW d \in Drives, NEW s \in Sectors
    PROVE  LET g == Seek(f, d, s)
           IN  /\ g \in Controller /\ SameFifo(f, g) /\ g.msr = f.msr /\ g.ok = f.ok
               /\ g.lba = [f.lba EXCEPT ![d] = s] /\ g.slot = f.slot
               /\ SameTask(f, g) /\ SameChannel(f, g) /\ SameData(f, g)
<1>1. Seek(f, d, s) \in Controller
  BY DEF Controller, Seek
<1> QED  BY <1>1 DEF Controller, Seek, SameFifo, SameTask, SameChannel, SameData

\* A pass over the blocks.
LEMMA CopiedInIs ==
    ASSUME NEW f \in Controller, NEW d \in Drives, NEW first \in Sectors, NEW S \in SUBSET Sectors
    PROVE  LET g == CopiedIn(f, d, first, S)
           IN  /\ g \in Controller /\ SameFifo(f, g) /\ g.msr = f.msr /\ g.lba = f.lba
               /\ g.slot = f.slot /\ SameTask(f, g) /\ SameChannel(f, g)
               /\ g.content = f.content /\ g.mem = f.mem
               /\ \A i \in 0 .. TrackSectors - 1 :
                    first + i \in S => g.buf[i] = f.content[d][first + i]
<1> DEFINE B == [i \in DOMAIN f.buf |-> IF first + i \in S THEN f.content[d][first + i] ELSE f.buf[i]]
           g == [f EXCEPT !.buf = B]
<1>1. CopiedIn(f, d, first, S) = g
  BY DEF CopiedIn
<1>2. DOMAIN f.buf = 0 .. TrackSectors - 1
  BY DEF Controller
<1>3. B \in [0 .. TrackSectors - 1 -> Cells]
  <2>1. f.content[d] \in [Sectors -> Cells] /\ f.buf \in [0 .. TrackSectors - 1 -> Cells]
    BY DEF Controller, Contents
  <2> QED  BY <1>2, <2>1
<1>4. \A i \in 0 .. TrackSectors - 1 : first + i \in S => B[i] = f.content[d][first + i]
  BY <1>2
<1> HIDE DEF B
<1>5. g \in Controller /\ g.buf = B
  BY <1>3 DEF Controller
<1>6. SameFifo(f, g) /\ g.msr = f.msr /\ g.lba = f.lba /\ g.slot = f.slot
  BY DEF Controller, SameFifo
<1>7. SameTask(f, g) /\ SameChannel(f, g) /\ g.content = f.content /\ g.mem = f.mem
  BY DEF Controller, SameTask, SameChannel
<1> QED  BY <1>1, <1>4, <1>5, <1>6, <1>7

LEMMA CopiedOutIs ==
    ASSUME NEW f \in Controller, NEW d \in Drives, NEW first \in Sectors, NEW S \in SUBSET Sectors,
           \A s \in S : s - first \in 0 .. TrackSectors - 1
    PROVE  LET g == CopiedOut(f, d, first, S)
           IN  /\ g \in Controller /\ SameFifo(f, g) /\ g.msr = f.msr /\ g.lba = f.lba
               /\ g.slot = f.slot /\ SameTask(f, g) /\ SameChannel(f, g)
               /\ g.buf = f.buf /\ g.mem = f.mem
               /\ g.content = [f.content EXCEPT ![d] =
                    [s \in Sectors |-> IF s \in S THEN f.buf[s - first] ELSE f.content[d][s]]]
<1> DEFINE C == [s \in Sectors |-> IF s \in S THEN f.buf[s - first] ELSE f.content[d][s]]
           g == [f EXCEPT !.content = [@ EXCEPT ![d] = C]]
<1>1. CopiedOut(f, d, first, S) = g
  BY DEF CopiedOut
<1>2. C \in [Sectors -> Cells]
  <2>1. f.content[d] \in [Sectors -> Cells] /\ f.buf \in [0 .. TrackSectors - 1 -> Cells]
    BY DEF Controller, Contents
  <2> QED  BY <2>1
<1> HIDE DEF C
<1>3. [f.content EXCEPT ![d] = C] \in Contents
  BY <1>2 DEF Controller, Contents
<1>4. g \in Controller /\ g.content = [f.content EXCEPT ![d] = C]
  BY <1>3 DEF Controller
<1>5. SameFifo(f, g) /\ g.msr = f.msr /\ g.lba = f.lba /\ g.slot = f.slot
  BY DEF Controller, SameFifo
<1>6. SameTask(f, g) /\ SameChannel(f, g) /\ g.buf = f.buf /\ g.mem = f.mem
  BY DEF Controller, SameTask, SameChannel
<1> QED  BY <1>1, <1>4, <1>5, <1>6 DEF C

LEMMA DeferredIs ==
    ASSUME NEW f \in Controller, NEW op \in Transfers, NEW d \in Drives, NEW first \in Sectors,
           NEW n \in 0 .. TrackSectors
    PROVE  LET g == Deferred(f, op, d, first, n)
           IN  /\ g \in Controller /\ SameFifo(f, g) /\ g.msr = f.msr /\ g.lba = f.lba
               /\ g.slot = [busy |-> TRUE, op |-> op, drive |-> d, first |-> first, count |-> n]
               /\ SameTask(f, g) /\ SameChannel(f, g) /\ SameData(f, g)
<1> DEFINE r == [busy |-> TRUE, op |-> op, drive |-> d, first |-> first, count |-> n]
           B == {BlockNo(s) : s \in Touched(first, n)}
           K == [f.cached EXCEPT ![d] = @ \cup B]
           g == [f EXCEPT !.slot = r, !.cached = K]
<1>1. Deferred(f, op, d, first, n) = g
  BY DEF Deferred
<1>2. r \in Slots
  BY DEF Slots
<1>3. K \in [Drives -> SUBSET Nat]
  <2>1. B \in SUBSET Nat
    <3>1. \A s \in Sectors : BlockNo(s) \in Nat
      BY Constants DEF BlockNo, Sectors
    <3> QED  BY <3>1 DEF Touched
  <2> HIDE DEF B
  <2> QED  BY <2>1 DEF Controller
<1> HIDE DEF r, K
<1>4. g \in Controller /\ g.slot = r
  BY <1>2, <1>3 DEF Controller
<1>5. SameFifo(f, g) /\ g.msr = f.msr /\ g.lba = f.lba
  BY DEF Controller, SameFifo
<1>6. SameTask(f, g) /\ SameChannel(f, g) /\ SameData(f, g)
  BY DEF Controller, SameTask, SameChannel, SameData
<1> QED  BY <1>1, <1>4, <1>5, <1>6 DEF r

\* Some sectors are formatted.
Formatted(f, p, W, q) ==
    [Seek(f, f.sel, p) EXCEPT
       !.content[f.sel] = [s \in Sectors |-> IF s \in W THEN f.fill ELSE @[s]],
       !.fpos = q]

LEMMA FormattedIs ==
    ASSUME NEW f \in Controller, NEW p \in Sectors, NEW W, NEW q \in 0 .. TrackSectors
    PROVE  LET g == Formatted(f, p, W, q)
           IN  /\ g \in Controller /\ SameFifo(f, g) /\ g.msr = f.msr /\ g.slot = f.slot
               /\ SameChannel(f, g) /\ g.mem = f.mem /\ g.buf = f.buf /\ g.fpos = q
               /\ SameTask([f EXCEPT !.fpos = q], g)
               /\ g.content = [f.content EXCEPT ![f.sel] =
                    [s \in Sectors |-> IF s \in W THEN f.fill ELSE f.content[f.sel][s]]]
<1> DEFINE h == Seek(f, f.sel, p)
           C == [s \in Sectors |-> IF s \in W THEN f.fill ELSE f.content[f.sel][s]]
           D == [f.content EXCEPT ![f.sel] = C]
           g == [h EXCEPT !.content = D, !.fpos = q]
<1>1. /\ h \in Controller /\ SameFifo(f, h) /\ h.msr = f.msr /\ h.slot = f.slot
      /\ SameTask(f, h) /\ SameChannel(f, h) /\ SameData(f, h)
  <2>1. f.sel \in Drives
    BY DEF Controller
  <2> QED  BY <2>1, SeekIs
<1>2. Formatted(f, p, W, q) = g
  BY <1>1 DEF Formatted, SameData
<1>3. C \in [Sectors -> Cells]
  BY DEF Controller, Contents
<1> HIDE DEF C, h
<1>4. D \in Contents
  BY <1>3 DEF Controller, Contents
<1> HIDE DEF D
<1>5. g \in Controller /\ g.content = D /\ g.fpos = q
  BY <1>1, <1>4 DEF Controller
<1>6. SameFifo(h, g) /\ g.msr = h.msr /\ g.slot = h.slot /\ g.mem = h.mem /\ g.buf = h.buf
  BY <1>1 DEF Controller, SameFifo
<1>7. SameChannel(h, g)
  BY <1>1 DEF Controller, SameChannel
<1>8. SameTask([h EXCEPT !.fpos = q], g)
  BY <1>1 DEF Controller, SameTask
<1>9. SameTask([f EXCEPT !.fpos = q], g)
  BY <1>1, <1>8 DEF Controller, SameTask
<1> QED
  <2>1. SameFifo(f, g) /\ SameChannel(f, g) /\ g.msr = f.msr /\ g.slot = f.slot
        /\ g.mem = f.mem /\ g.buf = f.buf
    BY <1>1, <1>6, <1>7 DEF SameFifo, SameChannel, SameData
  <2> QED  BY <1>2, <1>5, <1>9, <2>1 DEF D, C, h

\* The headers that are left.
ToFormat(f) == f.fpos .. f.fend - 1
AllHeaders(f) == \A i \in ToFormat(f) : f.buf[i][1] = "header"
Named(f) == {f.buf[i][3] : i \in ToFormat(f)}

\* fdc_handle_format() goes through them all, or as far as to a block that must be loaded.
FormatStep(f, g) ==
    /\ g.fatal = f.fatal
    /\ \/ /\ g.slot.busy /\ g.slot.op = "format" /\ g.deferred /\ g.msr = {"cb"}
          /\ g.fpos >= f.fpos
       \/ /\ Answers(g) /\ g.ok = TRUE /\ g.slot = f.slot /\ g.deferred = f.deferred
          /\ ToFormat(f) # {} =>
               g.content = [f.content EXCEPT ![f.sel] =
                 [s \in Sectors |-> IF s \in Named(f) THEN f.fill ELSE f.content[f.sel][s]]]

LEMMA HandleFormatIs ==
    ASSUME NEW f \in Controller
    PROVE  LET g == HandleFormat(f)
           IN  /\ g \in Controller /\ FifoStep(f, g) /\ SameChannel(f, g)
               /\ g.mem = f.mem /\ g.buf = f.buf /\ g.sel = f.sel /\ g.cmd = f.cmd
               /\ g.fend = f.fend /\ g.formats = f.formats
               /\ AllHeaders(f) => FormatStep(f, g)
<1> DEFINE todo == f.fpos .. f.fend - 1
           place == [i \in todo |-> f.buf[i][3]]
           waiting == {i \in todo : place[i] \notin Loaded(f, f.sel)}
           next == CHOOSE i \in waiting : \A k \in waiting : i <= k
           last == IF waiting = {} THEN f.fend - 1 ELSE next
           written == {place[i] : i \in {k \in todo : waiting # {} => k < next}}
           p == place[last]
           q == last + 1
           h == Formatted(f, p, written, q)
           w == [h EXCEPT !.msr = {"cb"}, !.deferred = TRUE]
           g == HandleFormat(f)
           failed == [f EXCEPT !.fatal = TRUE]
           waits == Deferred(w, "format", f.sel, place[next], 1)
           ends == Result(h, TRUE)
           none == Result(f, TRUE)
<1>0. /\ ~AllHeaders(f) => g = failed
      /\ AllHeaders(f) /\ todo = {} => g = none
      /\ AllHeaders(f) /\ todo # {} /\ waiting = {} => g = ends
      /\ AllHeaders(f) /\ todo # {} /\ waiting # {} => g = waits
  <2>1. g = CASE ~AllHeaders(f) -> failed
              [] AllHeaders(f) /\ todo = {} -> none
              [] AllHeaders(f) /\ todo # {} /\ waiting = {} -> ends
              [] OTHER -> waits
    BY DEF HandleFormat, AllHeaders, ToFormat, Formatted
  <2> HIDE DEF g, failed, none, ends, waits, waiting, todo
  <2> QED  BY <2>1
<1>1. f.fpos \in 0 .. TrackSectors /\ f.fend \in 0 .. TrackSectors /\ f.sel \in Drives
      /\ todo \subseteq 0 .. TrackSectors - 1
  BY Constants DEF Controller
<1>2. CASE ~AllHeaders(f)
  <2>1. g = [f EXCEPT !.fatal = TRUE]
    BY <1>0, <1>2
  <2>2. g \in Controller
    BY <2>1, ZenonT(60) DEF Controller
  <2>3. FifoStep(f, g) /\ SameChannel(f, g)
    BY <2>1 DEF Controller, FifoStep, SameFifo, SameChannel
  <2>4. /\ g.mem = f.mem /\ g.buf = f.buf /\ g.sel = f.sel /\ g.cmd = f.cmd
        /\ g.fend = f.fend /\ g.formats = f.formats
    BY <2>1 DEF Controller
  <2> QED  BY <1>2, <2>2, <2>3, <2>4
<1>3. CASE AllHeaders(f) /\ todo = {}
  <2>1. g = Result(f, TRUE)
    BY <1>0, <1>3
  <2> HIDE DEF g
  <2>2. /\ g \in Controller /\ Answers(g) /\ g.ok = TRUE
        /\ g.slot = f.slot /\ SameTask(f, g) /\ SameChannel(f, g) /\ SameData(f, g)
    BY <2>1, ResultIs
  <2>3. FormatStep(f, g)
    <3>1. ToFormat(f) = {} /\ g.fatal = f.fatal /\ g.deferred = f.deferred
      BY <1>3, <2>2 DEF ToFormat, SameTask
    <3> QED  BY <2>2, <3>1 DEF FormatStep
  <2> QED  BY <2>2, <2>3 DEF FifoStep, SameTask, SameData, g
<1>4. CASE AllHeaders(f) /\ todo # {}
  <2>1. \A i \in todo : place[i] = f.buf[i][3] /\ place[i] \in Sectors
    <3>1. \A i \in todo : f.buf[i] \in Cells /\ f.buf[i][1] = "header"
      BY <1>1, <1>4 DEF Controller, AllHeaders, ToFormat
    <3> QED  BY <3>1, HeaderNames
  <2> HIDE DEF place
  <2>2. waiting # {} => next \in waiting
    <3>1. waiting \in SUBSET Nat
      BY <1>1
    <3> HIDE DEF waiting
    <3> QED  BY <3>1, LeastExists
  <2> HIDE DEF next
  <2>3. last \in todo /\ last + 1 \in 0 .. TrackSectors /\ last + 1 >= f.fpos
    <3>1. CASE waiting = {}
      <4>1. last = f.fend - 1 /\ f.fpos <= f.fend - 1
        BY <1>1, <1>4, <3>1
      <4> HIDE DEF last
      <4> QED  BY <1>1, <4>1
    <3>2. CASE waiting # {}
      <4>1. last = next /\ next \in todo
        BY <2>2, <3>2
      <4> HIDE DEF last, next
      <4> QED  BY <1>1, <4>1, Constants
    <3> QED  BY <3>1, <3>2
  <2> HIDE DEF last
  <2>4. /\ h \in Controller /\ SameFifo(f, h) /\ h.msr = f.msr /\ h.slot = f.slot
        /\ SameChannel(f, h) /\ h.mem = f.mem /\ h.buf = f.buf /\ h.fpos = q
        /\ SameTask([f EXCEPT !.fpos = q], h)
        /\ h.content = [f.content EXCEPT ![f.sel] =
             [s \in Sectors |-> IF s \in written THEN f.fill ELSE f.content[f.sel][s]]]
    <3>1. place[last] \in Sectors
      BY <2>1, <2>3
    <3>2. p \in Sectors /\ q \in 0 .. TrackSectors
      BY <2>3, <3>1
    <3> HIDE DEF p, q, written
    <3> QED  BY <3>2, FormattedIs
  <2>5. /\ h.sel = f.sel /\ h.cmd = f.cmd /\ h.fend = f.fend /\ h.formats = f.formats
        /\ h.fatal = f.fatal /\ h.deferred = f.deferred
    BY <2>4 DEF SameTask, Controller
  <2>6. CASE waiting = {}
    <3>1. g = Result(h, TRUE)
      BY <1>0, <1>4, <2>6
    <3>2. written = Named(f)
      BY <2>1, <2>6 DEF Named, ToFormat
    <3> HIDE DEF h, g, written
    <3>3. /\ g \in Controller /\ Answers(g) /\ g.ok = TRUE
          /\ g.slot = h.slot /\ SameTask(h, g) /\ SameChannel(h, g) /\ SameData(h, g)
      BY <2>4, <3>1, ResultIs
    <3>4. FormatStep(f, g)
      BY <2>4, <2>5, <3>2, <3>3 DEF FormatStep, SameTask, SameData
    <3>5. FifoStep(f, g) /\ SameChannel(f, g)
      BY <2>4, <3>3 DEF FifoStep, SameChannel
    <3>6. /\ g.mem = f.mem /\ g.buf = f.buf /\ g.sel = f.sel /\ g.cmd = f.cmd
          /\ g.fend = f.fend /\ g.formats = f.formats
      BY <2>4, <2>5, <3>3 DEF SameTask, SameData
    <3> QED  BY <3>3, <3>4, <3>5, <3>6 DEF g
  <2>7. CASE waiting # {}
    <3>1. g = Deferred(w, "format", f.sel, place[next], 1)
      BY <1>0, <1>4, <2>7
    <3>2. place[next] \in Sectors
      BY <2>1, <2>2, <2>7
    <3> HIDE DEF h, g, written, waiting
    <3>3. /\ w \in Controller /\ w.msr = {"cb"} /\ w.deferred = TRUE /\ SameFifo(h, w)
          /\ w.mem = h.mem /\ w.buf = h.buf /\ w.fpos = h.fpos /\ w.sel = h.sel
          /\ w.cmd = h.cmd /\ w.fend = h.fend /\ w.formats = h.formats /\ w.fatal = h.fatal
      BY <2>4 DEF Controller, SameFifo
    <3>4. SameChannel(h, w)
      BY <2>4 DEF Controller, SameChannel
    <3> HIDE DEF w
    <3>5. /\ g \in Controller /\ SameFifo(w, g) /\ g.msr = w.msr
          /\ g.slot = [busy |-> TRUE, op |-> "format", drive |-> f.sel, first |-> place[next],
                       count |-> 1]
          /\ SameTask(w, g) /\ SameChannel(w, g) /\ SameData(w, g)
      <4>1. "format" \in Transfers /\ 1 \in 0 .. TrackSectors
        BY Constants DEF Transfers
      <4> QED  BY <1>1, <3>1, <3>2, <3>3, <4>1, DeferredIs
    <3>6. FormatStep(f, g)
      BY <2>3, <2>4, <2>5, <3>3, <3>5 DEF FormatStep, SameTask
    <3>7. FifoStep(f, g) /\ SameChannel(f, g)
      BY <2>4, <3>3, <3>4, <3>5 DEF FifoStep, SameFifo, SameChannel
    <3>8. /\ g.mem = f.mem /\ g.buf = f.buf /\ g.sel = f.sel /\ g.cmd = f.cmd
          /\ g.fend = f.fend /\ g.formats = f.formats
      BY <2>4, <2>5, <3>3, <3>5 DEF SameTask, SameData
    <3> QED  BY <3>5, <3>6, <3>7, <3>8 DEF g
  <2> QED  BY <2>6, <2>7
<1> QED  BY <1>2, <1>3, <1>4

\* The sectors of a transfer.
LEMMA TouchedIs ==
    ASSUME NEW first \in Sectors, NEW n \in 0 .. TrackSectors
    PROVE  /\ Touched(first, n) \in SUBSET Sectors
           /\ \A s \in Touched(first, n) : s - first \in 0 .. TrackSectors - 1 /\ s - first < n
           /\ n > 0 => Touched(first, n) # {}
<1>1. first \in Touched(first, n) \/ n = 0
  BY Constants DEF Touched, Sectors
<1>2. \A s \in Touched(first, n) : s - first \in 0 .. TrackSectors - 1 /\ s - first < n
  BY Constants DEF Touched, Sectors
<1>3. Touched(first, n) \in SUBSET Sectors
  BY DEF Touched
<1> QED  BY <1>1, <1>2, <1>3

\* The sectors to be written, and the rest of the drives.
Wrote(f, d, first, S) ==
    [f.content EXCEPT ![d] =
       [s \in Sectors |-> IF s \in S THEN f.buf[s - first] ELSE f.content[d][s]]]

SameElsewhere(c, e, d, S) ==
    \A k \in Drives, s \in Sectors : k # d \/ s \notin S => e[k][s] = c[k][s]

LEMMA DriveWriteIs ==
    ASSUME NEW f \in Controller
    PROVE  LET g == DriveWrite(f)
               d == f.sel
               first == f.lba[d]
               S == Touched(first, f.wlen)
           IN  /\ g \in Controller /\ FifoStep(f, g) /\ SameChannel(f, g)
               /\ g.mem = f.mem /\ g.buf = f.buf /\ g.sel = f.sel /\ g.cmd = f.cmd
               /\ g.formats = f.formats /\ g.fpos = f.fpos
               /\ S # {} =>
                    /\ g.fatal = f.fatal
                    /\ \/ Answers(g) /\ g.ok = TRUE /\ g.slot = f.slot /\ g.content = Wrote(f, d, first, S)
                       \/ /\ g.slot = [busy |-> TRUE, op |-> "write", drive |-> d, first |-> first,
                                       count |-> f.wlen]
                          /\ g.msr = f.msr \cup {"cb"}
                          /\ SameElsewhere(f.content, g.content, d, S)
<1> DEFINE d == f.sel
           first == f.lba[d]
           S == Touched(first, f.wlen)
           L == S \cap Loaded(f, d)
           x == CopiedOut(f, d, first, L)
           y == [x EXCEPT !.msr = @ \cup {"cb"}]
           g == DriveWrite(f)
           failed == [f EXCEPT !.fatal = TRUE]
           waits == Deferred(y, "write", d, first, f.wlen)
           ends == Done(x)
<1>1. d \in Drives /\ first \in Sectors /\ f.wlen \in 0 .. TrackSectors
  BY DEF Controller
<1>2. /\ S \in SUBSET Sectors
      /\ \A s \in S : s - first \in 0 .. TrackSectors - 1
  BY <1>1, TouchedIs
<1>3. \/ S = {} /\ g = failed
      \/ S # {} /\ ~(S \subseteq Loaded(f, d)) /\ g = waits
      \/ S \subseteq Loaded(f, d) /\ g = ends
  <2>1. g = CASE S = {} /\ d \in Chunked /\ first % BlockSectors = 0 -> failed
              [] S # {} /\ ~(S \subseteq Loaded(f, d)) -> waits
              [] OTHER -> ends
    BY DEF DriveWrite
  <2> HIDE DEF g, failed, waits, ends, S
  <2> QED  BY <2>1
<1>4. /\ x \in Controller /\ SameFifo(f, x) /\ x.msr = f.msr /\ x.lba = f.lba
      /\ x.slot = f.slot /\ SameTask(f, x) /\ SameChannel(f, x)
      /\ x.buf = f.buf /\ x.mem = f.mem
      /\ x.content = Wrote(f, d, first, L)
  <2> HIDE DEF S, d, first
  <2> QED  BY <1>1, <1>2, CopiedOutIs DEF Wrote
<1> HIDE DEF x
<1>5. SameElsewhere(f.content, x.content, d, S)
  BY <1>1, <1>4 DEF SameElsewhere, Wrote, Controller, Contents
<1>6. CASE S = {} /\ g = failed
  <2>1. g \in Controller
    BY <1>6, ZenonT(60) DEF Controller
  <2>2. FifoStep(f, g) /\ SameChannel(f, g)
    BY <1>6 DEF Controller, FifoStep, SameFifo, SameChannel
  <2>3. /\ g.mem = f.mem /\ g.buf = f.buf /\ g.sel = f.sel /\ g.cmd = f.cmd
        /\ g.formats = f.formats /\ g.fpos = f.fpos
    BY <1>6 DEF Controller
  <2> QED  BY <1>6, <2>1, <2>2, <2>3
<1>7. CASE S # {} /\ ~(S \subseteq Loaded(f, d)) /\ g = waits
  <2>1. /\ y \in Controller /\ SameFifo(x, y) /\ y.msr = x.msr \cup {"cb"} /\ y.slot = x.slot
        /\ y.content = x.content /\ y.mem = x.mem /\ y.buf = x.buf
    BY <1>4 DEF Controller, SameFifo
  <2>2. SameTask(x, y) /\ SameChannel(x, y)
    BY <1>4 DEF Controller, SameTask, SameChannel
  <2> HIDE DEF y
  <2>3. /\ g \in Controller /\ SameFifo(y, g) /\ g.msr = y.msr
        /\ g.slot = [busy |-> TRUE, op |-> "write", drive |-> d, first |-> first,
                     count |-> f.wlen]
        /\ SameTask(y, g) /\ SameChannel(y, g) /\ SameData(y, g)
    <3>1. "write" \in Transfers
      BY DEF Transfers
    <3> HIDE DEF d, first, g
    <3> QED  BY <1>1, <1>7, <2>1, <3>1, DeferredIs
  <2>4. FifoStep(f, g) /\ SameChannel(f, g)
    BY <1>4, <2>1, <2>2, <2>3 DEF FifoStep, SameFifo, SameChannel
  <2>5. /\ g.mem = f.mem /\ g.buf = f.buf /\ g.sel = f.sel /\ g.cmd = f.cmd
        /\ g.formats = f.formats /\ g.fpos = f.fpos /\ g.fatal = f.fatal
    BY <1>4, <2>1, <2>2, <2>3 DEF SameTask, SameData
  <2>6. SameElsewhere(f.content, g.content, d, S) /\ g.msr = f.msr \cup {"cb"}
    BY <1>4, <1>5, <2>1, <2>3 DEF SameData
  <2> QED  BY <2>3, <2>4, <2>5, <2>6
<1>8. CASE S \subseteq Loaded(f, d) /\ g = ends
  <2>1. /\ g \in Controller /\ Answers(g) /\ g.ok = TRUE /\ g.slot = x.slot
        /\ SameTask(x, g) /\ SameChannel(x, g) /\ SameData(x, g)
    BY <1>4, <1>8, DoneIs
  <2>2. L = S
    BY <1>8
  <2> HIDE DEF g, L
  <2>3. FifoStep(f, g) /\ SameChannel(f, g)
    BY <1>4, <2>1 DEF FifoStep, SameChannel
  <2>4. /\ g.mem = f.mem /\ g.buf = f.buf /\ g.sel = f.sel /\ g.cmd = f.cmd /\ g.slot = f.slot
        /\ g.formats = f.formats /\ g.fpos = f.fpos /\ g.fatal = f.fatal
        /\ g.content = Wrote(f, d, first, S)
    BY <1>4, <2>1, <2>2 DEF SameTask, SameData
  <2> QED  BY <2>1, <2>3, <2>4 DEF g
<1> QED  BY <1>3, <1>6, <1>7, <1>8

-----------------------------------------------------------------------------
\* The channel's transfer.
LEMMA CopiedIs ==
    ASSUME NEW f \in Controller
    PROVE  LET g == Copied(f)
           IN  /\ g \in Controller /\ SameFifo(f, g) /\ g.msr = f.msr /\ g.lba = f.lba
               /\ g.slot = f.slot /\ SameTask(f, g) /\ g.content = f.content
               /\ ~g.req /\ g.masked = f.masked
               /\ f.addr = 0 /\ f.count # 0 =>
                    IF f.toMem
                    THEN g.buf = f.buf /\ g.mem = [a \in 0 .. TrackSectors |->
                                                     IF a < f.count THEN f.buf[a] ELSE f.mem[a]]
                    ELSE g.mem = f.mem /\ \A i \in 0 .. f.count - 1 : g.buf[i] = f.mem[i]
<1> DEFINE n == IF f.count = 0 THEN 1 ELSE f.count
           V(v) == IF f.count = 0 THEN Torn ELSE v
           M == [a \in DOMAIN f.mem |->
                   IF a >= f.addr /\ a < f.addr + n THEN V(f.buf[a - f.addr]) ELSE f.mem[a]]
           B == [i \in DOMAIN f.buf |->
                   IF i < n /\ f.addr + i \in DOMAIN f.mem THEN V(f.mem[f.addr + i]) ELSE f.buf[i]]
           x == IF f.toMem THEN [f EXCEPT !.mem = M] ELSE [f EXCEPT !.buf = B]
           e == f.addr + f.count
           g == [x EXCEPT !.req = FALSE, !.addr = e, !.count = 0]
<1>1. /\ f.count \in 0 .. TrackSectors /\ f.addr \in Nat /\ n \in 1 .. TrackSectors
      /\ DOMAIN f.mem = 0 .. TrackSectors /\ DOMAIN f.buf = 0 .. TrackSectors - 1
      /\ f.mem \in [0 .. TrackSectors -> Cells] /\ f.buf \in [0 .. TrackSectors - 1 -> Cells]
  BY Constants DEF Controller, Memory
<1>2. \A v \in Cells : V(v) \in Cells
  BY OthersAreCells
<1>3. M \in Memory
  <2>1. ASSUME NEW a \in 0 .. TrackSectors, a >= f.addr, a < f.addr + n
        PROVE  V(f.buf[a - f.addr]) \in Cells
    <3>1. a - f.addr \in 0 .. TrackSectors - 1
      BY <1>1, <2>1, Constants
    <3> HIDE DEF V
    <3> QED  BY <1>1, <1>2, <3>1
  <2> HIDE DEF V, n
  <2> QED  BY <1>1, <2>1 DEF Memory
<1>4. B \in [0 .. TrackSectors - 1 -> Cells]
  <2>1. ASSUME NEW i \in 0 .. TrackSectors - 1, f.addr + i \in DOMAIN f.mem
        PROVE  V(f.mem[f.addr + i]) \in Cells
    <3> HIDE DEF V
    <3> QED  BY <1>1, <1>2, <2>1
  <2> HIDE DEF V, n
  <2> QED  BY <1>1, <2>1
<1>5. f.addr = 0 /\ f.count # 0 =>
        /\ M = [a \in 0 .. TrackSectors |-> IF a < f.count THEN f.buf[a] ELSE f.mem[a]]
        /\ \A i \in 0 .. f.count - 1 : B[i] = f.mem[i]
  <2> SUFFICES ASSUME f.addr = 0, f.count # 0
               PROVE  /\ M = [a \in 0 .. TrackSectors |-> IF a < f.count THEN f.buf[a] ELSE f.mem[a]]
                      /\ \A i \in 0 .. f.count - 1 : B[i] = f.mem[i]
    OBVIOUS
  <2>1. n = f.count /\ \A v : V(v) = v
    OBVIOUS
  <2> HIDE DEF n, V
  <2>2. \A a \in 0 .. TrackSectors :
          M[a] = IF a < f.count THEN f.buf[a] ELSE f.mem[a]
    BY <1>1, <2>1
  <2>3. \A i \in 0 .. f.count - 1 : B[i] = f.mem[i]
    BY <1>1, <2>1, Constants
  <2> QED  BY <1>1, <2>2, <2>3
<1>6. Copied(f) = g
  BY DEF Copied
<1>7. e \in Nat
  BY <1>1
<1> HIDE DEF M, B, e, V, n
<1>8. CASE f.toMem
  <2> DEFINE h == [f EXCEPT !.mem = M, !.req = FALSE, !.addr = e, !.count = 0]
  <2>1. g = h
    BY <1>8 DEF Controller
  <2>2. h \in Controller /\ h.mem = M
    <3>1. 0 \in 0 .. TrackSectors /\ FALSE \in BOOLEAN
      BY Constants
    <3> QED  BY <1>3, <1>7, <3>1 DEF Controller
  <2>3. SameFifo(f, h) /\ h.msr = f.msr /\ h.lba = f.lba /\ h.slot = f.slot /\ SameTask(f, h)
    BY DEF Controller, SameFifo, SameTask
  <2>4. h.content = f.content /\ ~h.req /\ h.masked = f.masked /\ h.buf = f.buf
    BY DEF Controller
  <2> HIDE DEF h, g
  <2> QED  BY <1>5, <1>6, <1>8, <2>1, <2>2, <2>3, <2>4
<1>9. CASE ~f.toMem
  <2> DEFINE h == [f EXCEPT !.buf = B, !.req = FALSE, !.addr = e, !.count = 0]
  <2>1. g = h
    BY <1>9 DEF Controller
  <2>2. h \in Controller /\ h.buf = B
    <3>1. 0 \in 0 .. TrackSectors /\ FALSE \in BOOLEAN
      BY Constants
    <3> QED  BY <1>4, <1>7, <3>1 DEF Controller
  <2>3. SameFifo(f, h) /\ h.msr = f.msr /\ h.lba = f.lba /\ h.slot = f.slot /\ SameTask(f, h)
    BY DEF Controller, SameFifo, SameTask
  <2>4. h.content = f.content /\ ~h.req /\ h.masked = f.masked /\ h.mem = f.mem
    BY DEF Controller
  <2> HIDE DEF h, g
  <2> QED  BY <1>5, <1>6, <1>9, <2>1, <2>2, <2>3, <2>4
<1> QED  BY <1>8, <1>9

\* dma_run_transfers() and what it calls, whatever there is to transfer.
LEMMA DmaCompleteIs ==
    ASSUME NEW f \in Controller
    PROVE  LET g == DmaComplete(f)
           IN  /\ g \in Controller /\ FifoStep(f, g) /\ SameChannel(f, g)
               /\ g.formats = f.formats /\ (f.cmd # "format" => g.fpos = f.fpos)
<1> DEFINE g == DmaComplete(f)
<1>1. CASE f.cmd = "format"
  <2>1. g = HandleFormat(f)
    BY <1>1 DEF DmaComplete
  <2> HIDE DEF g
  <2> QED  BY <1>1, <2>1, HandleFormatIs DEF g
<1>2. CASE f.cmd = "write"
  <2>1. g = DriveWrite(f)
    BY <1>2 DEF DmaComplete
  <2> HIDE DEF g
  <2> QED  BY <1>2, <2>1, DriveWriteIs DEF g
<1>3. CASE f.cmd = "read"
  <2>1. g = Done(f)
    BY <1>3 DEF DmaComplete
  <2> HIDE DEF g
  <2> QED  BY <1>3, <2>1, DoneIs DEF g, FifoStep, SameTask
<1>4. CASE f.cmd \notin {"format", "write", "read"}
  <2>1. g = f
    BY <1>4 DEF DmaComplete
  <2> QED  BY <2>1 DEF FifoStep, SameFifo, SameChannel
<1> QED  BY <1>1, <1>2, <1>3, <1>4

LEMMA RunTransfersIs ==
    ASSUME NEW f \in Controller
    PROVE  LET g == RunTransfers(f) IN g \in Controller /\ FifoStep(f, g)
<1>1. CASE f.req /\ ~f.masked
  <2> DEFINE x == Copied(f)
             g == DmaComplete(x)
  <2>1. x \in Controller /\ SameFifo(f, x) /\ x.msr = f.msr
    BY CopiedIs
  <2> HIDE DEF x
  <2>2. g \in Controller /\ FifoStep(x, g)
    BY <2>1, DmaCompleteIs
  <2>3. RunTransfers(f) = g
    BY <1>1 DEF RunTransfers, x
  <2> HIDE DEF g
  <2> QED  BY <2>1, <2>2, <2>3 DEF FifoStep, SameFifo
<1>2. CASE ~(f.req /\ ~f.masked)
  <2>1. RunTransfers(f) = f
    BY <1>2 DEF RunTransfers
  <2> QED  BY <2>1 DEF FifoStep, SameFifo
<1> QED  BY <1>1, <1>2

LEMMA RequestedIs ==
    ASSUME NEW f \in Controller
    PROVE  LET g == [f EXCEPT !.req = TRUE]
           IN  /\ g \in Controller /\ SameFifo(f, g) /\ g.msr = f.msr /\ g.lba = f.lba
               /\ g.slot = f.slot /\ SameTask(f, g) /\ SameData(f, g)
               /\ g.req /\ g.masked = f.masked /\ g.toMem = f.toMem /\ g.addr = f.addr
               /\ g.count = f.count
<1>1. [f EXCEPT !.req = TRUE] \in Controller
  BY DEF Controller
<1> QED  BY <1>1 DEF Controller, SameFifo, SameTask, SameData

LEMMA RaiseDreqIs ==
    ASSUME NEW f \in Controller
    PROVE  LET g == RaiseDreq(f) IN g \in Controller /\ FifoStep(f, g)
<1> DEFINE x == [f EXCEPT !.req = TRUE]
<1>1. x \in Controller /\ SameFifo(f, x) /\ x.msr = f.msr
  BY RequestedIs
<1>2. RaiseDreq(f) = RunTransfers(x)
  BY DEF RaiseDreq
<1> HIDE DEF x
<1>3. RunTransfers(x) \in Controller /\ FifoStep(x, RunTransfers(x))
  BY <1>1, RunTransfersIs
<1> QED  BY <1>1, <1>2, <1>3 DEF FifoStep, SameFifo

-----------------------------------------------------------------------------
\* Moved says of the state what HasMoved says of the job.
LEMMA MovedIs ==
    Moved <=> HasMoved(fdc, driver.job, driver.jobs, driver.before)
<1>1. Wanted = Wished(driver.job, driver.jobs, driver.before)
  BY DEF Wanted, Wished
<1> QED  BY <1>1 DEF Moved, HasMoved

\* What is wanted of each transfer.
ReadInto(j, b) ==
    [a \in 0 .. TrackSectors |-> IF a < j.count THEN b.content[j.drive][j.first + a] ELSE b.mem[a]]
WrittenFrom(j, b) ==
    [b.content EXCEPT ![j.drive] =
       [s \in Sectors |-> IF s \in Touched(j.first, j.count) THEN b.mem[s - j.first]
                          ELSE b.content[j.drive][s]]]
FilledWith(j, n, b) ==
    [b.content EXCEPT ![j.drive] =
       [s \in Sectors |-> IF s \in Touched(j.first, j.count) THEN <<"fill", n, 0>>
                          ELSE b.content[j.drive][s]]]

LEMMA WishedIs ==
    ASSUME NEW j \in Jobs, NEW n, NEW b \in Before
    PROVE  /\ j.op = "read" => Wished(j, n, b) = [content |-> b.content, mem |-> ReadInto(j, b)]
           /\ j.op = "write" => Wished(j, n, b) = [content |-> WrittenFrom(j, b), mem |-> b.mem]
           /\ j.op = "format" => Wished(j, n, b) = [content |-> FilledWith(j, n, b), mem |-> b.mem]
<1>1. b = [content |-> b.content, mem |-> b.mem] /\ DOMAIN b.mem = 0 .. TrackSectors
  BY DEF Before, Memory
<1>2. CASE j.op = "read"
  <2>1. Wished(j, n, b) = [b EXCEPT !.mem = ReadInto(j, b)]
    BY <1>1, <1>2 DEF Wished, ReadInto
  <2>2. [b EXCEPT !.mem = ReadInto(j, b)] = [content |-> b.content, mem |-> ReadInto(j, b)]
    BY DEF Before
  <2> QED  BY <1>2, <2>1, <2>2
<1>3. CASE j.op = "write"
  <2>1. Wished(j, n, b) = [b EXCEPT !.content = WrittenFrom(j, b)]
    BY <1>1, <1>3 DEF Wished, WrittenFrom
  <2>2. [b EXCEPT !.content = WrittenFrom(j, b)] = [content |-> WrittenFrom(j, b), mem |-> b.mem]
    BY DEF Before
  <2> QED  BY <1>3, <2>1, <2>2
<1>4. CASE j.op = "format"
  <2>1. Wished(j, n, b) = [b EXCEPT !.content = FilledWith(j, n, b)]
    BY <1>1, <1>4 DEF Wished, FilledWith
  <2>2. [b EXCEPT !.content = FilledWith(j, n, b)] = [content |-> FilledWith(j, n, b), mem |-> b.mem]
    BY DEF Before
  <2> QED  BY <1>4, <2>1, <2>2
<1> QED  BY <1>2, <1>3, <1>4

-----------------------------------------------------------------------------
\* The end of a transfer that was due, masked or not.  A read that has been loaded has
\* the disk layer's slot still.
ReadDue(f, j, b) ==
    /\ j.op = "read" /\ f.cmd = "read" /\ f.req /\ Set(f, j) /\ Unmoved(f, b)
    /\ \A i \in 0 .. j.count - 1 : f.buf[i] = b.content[j.drive][j.first + i]

Succeeds(f, g, j, n, b) ==
    /\ Answers(g) /\ g.ok = TRUE /\ HasMoved(g, j, n, b) /\ ~g.req /\ g.slot = f.slot
    /\ g.fatal = f.fatal

LEMMA ReadTransferred ==
    ASSUME NEW f \in Controller, NEW j \in Jobs, NEW n \in Nat, NEW b \in Before,
           ReadDue(f, j, b), ~f.masked
    PROVE  LET g == RunTransfers(f)
           IN  /\ Succeeds(f, g, j, n, b)
               /\ g.formats = f.formats /\ g.fpos = f.fpos
<1> DEFINE x == Copied(f)
<1>1. /\ x \in Controller /\ SameFifo(f, x) /\ x.slot = f.slot /\ SameTask(f, x)
      /\ x.content = f.content /\ ~x.req
      /\ x.mem = [a \in 0 .. TrackSectors |-> IF a < f.count THEN f.buf[a] ELSE f.mem[a]]
  <2>1. f.addr = 0 /\ f.count = j.count /\ f.toMem
    BY DEF ReadDue, Set
  <2>2. f.count # 0
    BY <2>1, JobIs, Constants
  <2> HIDE DEF x
  <2> QED  BY <2>1, <2>2, CopiedIs DEF x
<1>2. x.mem = ReadInto(j, b)
  <2>1. \A a \in 0 .. TrackSectors :
          (IF a < f.count THEN f.buf[a] ELSE f.mem[a])
             = (IF a < j.count THEN b.content[j.drive][j.first + a] ELSE b.mem[a])
    BY JobIs DEF ReadDue, Set, Unmoved
  <2> HIDE DEF x
  <2> QED  BY <1>1, <2>1 DEF ReadInto
<1> HIDE DEF x
<1>3. RunTransfers(f) = Done(x)
  <2>1. x.cmd = "read"
    BY <1>1 DEF SameTask, ReadDue
  <2>2. RunTransfers(f) = DmaComplete(x)
    BY DEF RunTransfers, ReadDue, x
  <2> QED  BY <2>1, <2>2 DEF DmaComplete
<1> DEFINE g == Done(x)
<1>4. /\ Answers(g) /\ g.ok = TRUE /\ g.slot = x.slot
      /\ SameTask(x, g) /\ SameChannel(x, g) /\ SameData(x, g)
  BY <1>1, DoneIs
<1> HIDE DEF g
<1>5. [content |-> g.content, mem |-> g.mem] = Wished(j, n, b)
  <2>1. g.content = b.content /\ g.mem = ReadInto(j, b) /\ j.op = "read"
    BY <1>1, <1>2, <1>4 DEF SameData, ReadDue, Unmoved
  <2> QED  BY <2>1, WishedIs
<1>6. Succeeds(f, g, j, n, b)
  BY <1>1, <1>4, <1>5 DEF Succeeds, HasMoved, SameTask, SameChannel
<1> QED  BY <1>1, <1>3, <1>4, <1>6 DEF SameTask, g

LEMMA SuccessEnds ==
    ASSUME NEW f, NEW g, NEW j \in Jobs, NEW n, NEW b, Succeeds(f, g, j, n, b),
           j.op \in Transfers, ~Refused(j), ~f.slot.busy, ~f.fatal
    PROVE  Ended(g, j, n, b)
BY DEF Succeeds, Ended, Quiescent, Transfers

\* The channel begins where the driver has set it.
LEMMA FromMemory ==
    ASSUME NEW f \in Controller, NEW j \in Jobs, Set(f, j), j.op # "read"
    PROVE  LET x == Copied(f)
           IN  x.mem = f.mem /\ \A i \in 0 .. j.count - 1 : x.buf[i] = f.mem[i]
<1>1. f.addr = 0 /\ f.count = j.count /\ f.toMem = FALSE
  BY DEF Set
<1>2. f.count # 0
  BY <1>1, JobIs, Constants
<1> QED  BY <1>1, <1>2, CopiedIs

LEMMA WriteTransferred ==
    ASSUME NEW f \in Controller, NEW j \in Jobs, NEW n \in Nat, NEW b \in Before,
           Due(f, j, n, b), ~f.masked, j.op = "write"
    PROVE  Underway(RunTransfers(f), j, n, b)
<1> DEFINE x == Copied(f)
           S == Touched(j.first, j.count)
           g == DriveWrite(x)
<1>1. /\ x \in Controller /\ SameFifo(f, x) /\ x.msr = f.msr /\ x.lba = f.lba
      /\ x.slot = f.slot /\ SameTask(f, x) /\ x.content = f.content /\ ~x.req
  BY CopiedIs
<1>2. x.mem = b.mem /\ \A i \in 0 .. j.count - 1 : x.buf[i] = b.mem[i]
  BY FromMemory DEF Due, Unmoved
<1> HIDE DEF x
<1>3. /\ x.cmd = "write" /\ x.sel = j.drive /\ x.lba[j.drive] = j.first /\ x.wlen = j.count
      /\ ~x.slot.busy /\ ~x.fatal /\ "dio" \notin x.msr /\ x.content = b.content
  BY <1>1 DEF SameTask, Due, AtWork, Unmoved
<1>4. RunTransfers(f) = g
  <2>1. RunTransfers(f) = DmaComplete(x)
    BY DEF RunTransfers, Due, x
  <2> QED  BY <1>3, <2>1 DEF DmaComplete
<1>5. S # {} /\ S \in SUBSET Sectors /\ \A s \in S : s - j.first \in 0 .. j.count - 1
  <2>1. j.first \in Sectors /\ j.count \in 0 .. TrackSectors /\ j.count > 0 /\ j.count \in Nat
    BY JobIs, Constants
  <2>2. S # {} /\ S \in SUBSET Sectors
    BY <2>1, TouchedIs
  <2>3. \A s \in S : s - j.first \in 0 .. TrackSectors - 1 /\ s - j.first < j.count
    BY <2>1, TouchedIs
  <2>4. \A s \in S : s - j.first \in 0 .. j.count - 1
    BY <2>1, <2>3, Constants
  <2> QED  BY <2>2, <2>4
<1>6. /\ SameChannel(x, g) /\ g.mem = x.mem /\ g.buf = x.buf /\ g.sel = x.sel /\ g.cmd = x.cmd
      /\ g.fatal = x.fatal
      /\ \/ /\ Answers(g) /\ g.ok = TRUE /\ g.slot = x.slot
            /\ g.content = Wrote(x, j.drive, j.first, S)
         \/ /\ g.slot = [busy |-> TRUE, op |-> "write", drive |-> j.drive, first |-> j.first,
                         count |-> j.count]
            /\ g.msr = x.msr \cup {"cb"}
            /\ SameElsewhere(x.content, g.content, j.drive, S)
  <2> HIDE DEF g
  <2> QED  BY <1>1, <1>3, <1>5, DriveWriteIs DEF g
<1> HIDE DEF g
<1>7. ~Refused(j) /\ j.op \in Transfers
  BY DEF Due, AtWork
<1>8. CASE /\ Answers(g) /\ g.ok = TRUE /\ g.slot = x.slot
           /\ g.content = Wrote(x, j.drive, j.first, S)
  <2>1. g.content = WrittenFrom(j, b)
    <3>1. \A s \in Sectors :
            (IF s \in S THEN x.buf[s - j.first] ELSE x.content[j.drive][s])
              = (IF s \in S THEN b.mem[s - j.first] ELSE b.content[j.drive][s])
      BY <1>2, <1>3, <1>5
    <3> HIDE DEF S
    <3>2. Wrote(x, j.drive, j.first, S)
            = [b.content EXCEPT ![j.drive] =
                [s \in Sectors |-> IF s \in S THEN b.mem[s - j.first] ELSE b.content[j.drive][s]]]
      BY <1>3, <3>1 DEF Wrote
    <3> QED  BY <1>8, <3>2 DEF WrittenFrom, S
  <2>2. HasMoved(g, j, n, b)
    BY <1>2, <1>6, <2>1, WishedIs DEF HasMoved
  <2>3. Succeeds(x, g, j, n, b)
    BY <1>1, <1>6, <1>8, <2>2 DEF Succeeds, SameChannel
  <2> QED  BY <1>3, <1>4, <1>7, <2>3, SuccessEnds DEF Underway
<1>9. CASE /\ g.slot = [busy |-> TRUE, op |-> "write", drive |-> j.drive, first |-> j.first,
                        count |-> j.count]
           /\ g.msr = x.msr \cup {"cb"} /\ SameElsewhere(x.content, g.content, j.drive, S)
  <2>1. AtWork(g, j)
    BY <1>3, <1>6, <1>7, <1>9 DEF AtWork
  <2>2. ~g.req
    BY <1>1, <1>6 DEF SameChannel
  <2>3. Loading(g, j, n, b)
    BY <1>2, <1>3, <1>6, <1>9, <2>1, <2>2 DEF Loading, SameElsewhere
  <2> QED  BY <1>4, <2>3 DEF Underway
<1> QED  BY <1>6, <1>8, <1>9

LEMMA FormatTransferred ==
    ASSUME NEW f \in Controller, NEW j \in Jobs, NEW n \in Nat, NEW b \in Before,
           Due(f, j, n, b), ~f.masked, j.op = "format"
    PROVE  Underway(RunTransfers(f), j, n, b)
<1> DEFINE x == Copied(f)
           S == Touched(j.first, j.count)
           g == HandleFormat(x)
<1>1. /\ x \in Controller /\ SameFifo(f, x) /\ x.msr = f.msr
      /\ x.slot = f.slot /\ SameTask(f, x) /\ x.content = f.content /\ ~x.req
  BY CopiedIs
<1>2. /\ x.mem = b.mem
      /\ \A i \in 0 .. j.count - 1 : x.buf[i] = <<"header", 0, j.first + i>>
  BY FromMemory DEF Due, Unmoved, Headed
<1> HIDE DEF x
<1>3. /\ x.cmd = "format" /\ x.sel = j.drive /\ x.fend = j.count /\ x.fill = <<"fill", n, 0>>
      /\ x.formats >= 1 /\ (x.formats = 1 => x.fpos = 0)
      /\ ~x.slot.busy /\ ~x.fatal /\ "dio" \notin x.msr /\ x.content = b.content
  BY <1>1 DEF SameTask, Due, AtWork, Unmoved
<1>4. RunTransfers(f) = g
  <2>1. RunTransfers(f) = DmaComplete(x)
    BY DEF RunTransfers, Due, x
  <2> QED  BY <1>3, <2>1 DEF DmaComplete
<1>5. /\ j.first \in Nat /\ j.count \in Nat /\ j.count >= 1 /\ x.fpos \in Nat /\ x.formats \in Nat
      /\ \A i \in 0 .. j.count - 1 : j.first + i \in Sectors
  <2>1. x.fpos \in 0 .. TrackSectors /\ x.formats \in Nat
    BY <1>1 DEF Controller
  <2>2. /\ j.first \in Sectors /\ j.count \in 1 .. TrackSectors
        /\ \A i \in 0 .. j.count - 1 : j.first + i \in Sectors
    BY JobIs
  <2> QED  BY <2>1, <2>2, Constants DEF Sectors
<1>6. \A i \in ToFormat(x) : x.buf[i][1] = "header" /\ x.buf[i][3] = j.first + i
  <2>1. \A i \in ToFormat(x) : i \in 0 .. j.count - 1
    BY <1>3, <1>5 DEF ToFormat
  <2> QED  BY <1>2, <2>1
<1>7. /\ FormatStep(x, g) /\ SameChannel(x, g) /\ g \in Controller
      /\ g.mem = x.mem /\ g.buf = x.buf /\ g.sel = x.sel /\ g.cmd = x.cmd
      /\ g.fend = x.fend /\ g.formats = x.formats
  <2>1. AllHeaders(x)
    BY <1>6 DEF AllHeaders
  <2> HIDE DEF g
  <2> QED  BY <1>1, <2>1, HandleFormatIs DEF g
<1> HIDE DEF g
<1>8. ~Refused(j) /\ j.op \in Transfers /\ ~g.req
  BY <1>1, <1>7 DEF Due, AtWork, SameChannel
<1>9. CASE /\ g.slot.busy /\ g.slot.op = "format" /\ g.deferred /\ g.msr = {"cb"}
           /\ g.fpos >= x.fpos
  <2>1. AtWork(g, j)
    BY <1>3, <1>7, <1>8, <1>9 DEF AtWork, FormatStep
  <2>2. \A i \in g.fpos .. g.fend - 1 : g.buf[i][1] = "header"
    <3>1. g.fpos \in Nat /\ g.fend \in Nat
      BY <1>3, <1>5, <1>7, Constants DEF Controller
    <3>2. \A i \in g.fpos .. g.fend - 1 : i \in ToFormat(x)
      BY <1>5, <1>7, <1>9, <3>1 DEF ToFormat
    <3> QED  BY <1>6, <1>7, <3>2
  <2>3. Loading(g, j, n, b)
    BY <1>3, <1>7, <1>8, <1>9, <2>1, <2>2 DEF Loading
  <2> QED  BY <1>4, <2>3 DEF Underway
<1>10. CASE /\ Answers(g) /\ g.ok = TRUE /\ g.slot = x.slot /\ g.deferred = x.deferred
            /\ ToFormat(x) # {} =>
                 g.content = [x.content EXCEPT ![x.sel] =
                   [s \in Sectors |-> IF s \in Named(x) THEN x.fill ELSE x.content[x.sel][s]]]
  <2>1. CASE x.formats > 1
    <3>1. HasMoved(g, j, n, b)
      BY <1>7, <2>1 DEF HasMoved
    <3>2. Succeeds(x, g, j, n, b)
      BY <1>3, <1>7, <1>8, <1>10, <3>1 DEF Succeeds, FormatStep
    <3> QED  BY <1>3, <1>4, <1>8, <3>2, SuccessEnds DEF Underway
  <2>2. CASE ~(x.formats > 1)
    <3>1. x.fpos = 0 /\ ToFormat(x) = 0 .. j.count - 1
      BY <1>3, <1>5, <2>2 DEF ToFormat
    <3>2. ToFormat(x) # {}
      BY <1>5, <3>1
    <3>3. Named(x) = S
      <4>1. Named(x) = {j.first + i : i \in 0 .. j.count - 1}
        BY <1>6, <3>1 DEF Named
      <4>2. \A i \in 0 .. j.count - 1 : j.first + i \in S
        BY <1>5 DEF Touched
      <4>3. \A s \in S : s - j.first \in 0 .. j.count - 1 /\ s = j.first + (s - j.first)
        BY <1>5, Constants DEF Touched, Sectors
      <4> HIDE DEF S
      <4> QED  BY <4>1, <4>2, <4>3
    <3>4. g.content = FilledWith(j, n, b)
      <4> HIDE DEF S
      <4> QED  BY <1>3, <1>10, <3>2, <3>3 DEF FilledWith, S
    <3>5. HasMoved(g, j, n, b)
      BY <1>2, <1>7, <3>4, WishedIs DEF HasMoved
    <3>6. Succeeds(x, g, j, n, b)
      BY <1>3, <1>7, <1>8, <1>10, <3>5 DEF Succeeds, FormatStep
    <3> QED  BY <1>3, <1>4, <1>8, <3>6, SuccessEnds DEF Underway
  <2> QED  BY <2>1, <2>2
<1> QED  BY <1>7, <1>9, <1>10 DEF FormatStep

LEMMA Transferred ==
    ASSUME NEW f \in Controller, NEW j \in Jobs, NEW n \in Nat, NEW b \in Before,
           Due(f, j, n, b)
    PROVE  Underway(RunTransfers(f), j, n, b)
<1>1. CASE f.masked
  <2>1. RunTransfers(f) = f
    BY <1>1 DEF RunTransfers
  <2> QED  BY <2>1 DEF Underway
<1>2. CASE ~f.masked /\ j.op = "read"
  <2>1. ReadDue(f, j, b) /\ ~Refused(j) /\ j.op \in Transfers /\ ~f.slot.busy /\ ~f.fatal
    BY <1>2 DEF Due, AtWork, ReadDue
  <2>2. Succeeds(f, RunTransfers(f), j, n, b)
    BY <1>2, <2>1, ReadTransferred
  <2> QED  BY <2>1, <2>2, SuccessEnds DEF Underway
<1>3. CASE ~f.masked /\ j.op = "write"
  BY <1>3, WriteTransferred
<1>4. CASE ~f.masked /\ j.op = "format"
  BY <1>4, FormatTransferred
<1> QED  BY <1>1, <1>2, <1>3, <1>4 DEF Due, AtWork, Transfers

LEMMA FreshKept ==
    ASSUME NEW f \in Controller, Fresh(f), f.cmd = "format" => f.formats >= 1
    PROVE  Fresh(RunTransfers(f)) /\ RunTransfers(f).formats = f.formats
<1>1. CASE f.req /\ ~f.masked
  <2> DEFINE x == Copied(f)
             g == DmaComplete(x)
  <2>1. x \in Controller /\ SameTask(f, x)
    BY CopiedIs
  <2> HIDE DEF x
  <2>2. g.formats = x.formats /\ (x.cmd # "format" => g.fpos = x.fpos)
    BY <2>1, DmaCompleteIs
  <2>3. RunTransfers(f) = g
    BY <1>1 DEF RunTransfers, x
  <2> HIDE DEF g
  <2> QED  BY <2>1, <2>2, <2>3 DEF Fresh, SameTask
<1>2. CASE ~(f.req /\ ~f.masked)
  <2>1. RunTransfers(f) = f
    BY <1>2 DEF RunTransfers
  <2> QED  BY <2>1
<1> QED  BY <1>1, <1>2

-----------------------------------------------------------------------------
\* What matters for a job's course.
SameCourse(f, g) ==
    /\ SameTask(f, g) /\ SameChannel(f, g) /\ SameData(f, g)
    /\ g.msr = f.msr /\ g.left = f.left /\ g.ok = f.ok /\ g.lba = f.lba /\ g.slot = f.slot

LEMMA CourseKept ==
    ASSUME NEW f, NEW g, NEW j, NEW n, NEW b, SameCourse(f, g), Underway(f, j, n, b)
    PROVE  Underway(g, j, n, b)
<1>1. CASE Due(f, j, n, b)
  <2>1. AtWork(g, j) /\ g.req /\ ~g.slot.busy
    BY <1>1 DEF Due, AtWork, SameCourse, SameTask, SameChannel
  <2>2. Set(g, j) /\ Headed(g, j) /\ Unmoved(g, b)
    BY <1>1 DEF Due, Set, Headed, Unmoved, SameCourse, SameChannel, SameData
  <2>3. Due(g, j, n, b)
    BY <1>1, <2>1, <2>2 DEF Due, SameCourse, SameTask, SameData
  <2> QED  BY <2>3 DEF Underway
<1>2. CASE Loading(f, j, n, b)
  <2>1. AtWork(g, j) /\ ~g.req /\ g.slot = f.slot
    BY <1>2 DEF Loading, AtWork, SameCourse, SameTask, SameChannel
  <2>2. j.op = "read" => Set(g, j) /\ Unmoved(g, b)
    BY <1>2 DEF Loading, Set, Unmoved, SameCourse, SameChannel, SameData
  <2>3. Loading(g, j, n, b)
    BY <1>2, <2>1, <2>2 DEF Loading, SameCourse, SameTask, SameData
  <2> QED  BY <2>3 DEF Underway
<1>3. CASE Ended(f, j, n, b)
  <2>1. Quiescent(g)
    BY <1>3 DEF Ended, Quiescent, SameCourse, SameTask, SameChannel
  <2>2. HasMoved(f, j, n, b) => HasMoved(g, j, n, b)
    BY DEF HasMoved, SameCourse, SameTask, SameData
  <2>3. Ended(g, j, n, b)
    BY <1>3, <2>1, <2>2 DEF Ended, SameCourse
  <2> QED  BY <2>3 DEF Underway
<1> QED  BY <1>1, <1>2, <1>3 DEF Underway

\* A command that is refused.
LEMMA AbortIs ==
    ASSUME NEW f \in Controller
    PROVE  LET g == Abort(f)
           IN  /\ g \in Controller /\ Answers(g) /\ SameTask(f, g)
               /\ \A j \in Jobs : \A n, b :
                    Quiescent(f) /\ j.op \in Transfers /\ Refused(j) => Ended(g, j, n, b)
<1> DEFINE g == Result(f, FALSE)
<1>1. /\ g \in Controller /\ Answers(g) /\ g.ok = FALSE
      /\ g.slot = f.slot /\ SameTask(f, g) /\ SameChannel(f, g)
  BY ResultIs
<1>2. Abort(f) = g
  BY DEF Abort
<1> HIDE DEF g
<1>3. ASSUME NEW j \in Jobs, NEW n, NEW b, Quiescent(f), j.op \in Transfers, Refused(j)
      PROVE  Ended(g, j, n, b)
  BY <1>1, <1>3 DEF Ended, Quiescent, SameTask, SameChannel, Transfers
<1> QED  BY <1>1, <1>2, <1>3

\* Dreq is raised with all that was to be done before done.
LEMMA Requested ==
    ASSUME NEW f \in Controller, NEW j \in Jobs, NEW n \in Nat, NEW b \in Before,
           Due([f EXCEPT !.req = TRUE], j, n, b)
    PROVE  Underway(RaiseDreq(f), j, n, b)
<1> DEFINE x == [f EXCEPT !.req = TRUE]
<1>1. x \in Controller
  BY RequestedIs
<1>2. RaiseDreq(f) = RunTransfers(x)
  BY DEF RaiseDreq
<1> HIDE DEF x
<1> QED  BY <1>1, <1>2, Transferred DEF x

\* The driver has given a job: nothing has happened to it yet.
Given(f, j, b) ==
    /\ Fresh(f) /\ Quiescent(f) /\ "dio" \notin f.msr /\ f.cmd = j.op
    /\ (j.op \in Transfers => Set(f, j) /\ Headed(f, j)) /\ Unmoved(f, b)

SelectedIs(f, g, d) ==
    /\ g \in Controller /\ g.sel = d /\ SameFifo(f, g) /\ g.msr = f.msr /\ g.lba = f.lba
    /\ g.slot = f.slot /\ SameChannel(f, g) /\ SameData(f, g)
    /\ g.wlen = f.wlen /\ g.fpos = f.fpos /\ g.fend = f.fend /\ g.fill = f.fill
    /\ g.formats = f.formats /\ g.deferred = f.deferred /\ g.fatal = f.fatal

LEMMA Selected ==
    ASSUME NEW f \in Controller, NEW d \in Drives
    PROVE  SelectedIs(f, [f EXCEPT !.sel = d], d)
<1>1. [f EXCEPT !.sel = d] \in Controller
  BY DEF Controller
<1> QED  BY <1>1 DEF Controller, SelectedIs, SameFifo, SameChannel, SameData

LEMMA ExecuteReadIs ==
    ASSUME NEW f \in Controller, NEW j \in Jobs
    PROVE  LET g == ExecuteRead(f, j)
           IN  /\ g \in Controller /\ FifoStep(f, g)
               /\ f.cmd = "read" /\ Fresh(f) => Fresh(g)
               /\ \A n \in Nat, b \in Before :
                    j.op = "read" /\ Given(f, j, b) => Underway(g, j, n, b)
<1> DEFINE d == j.drive
           S == Touched(j.first, j.count)
           L == S \cap Loaded(f, d)
           x == [f EXCEPT !.sel = d]
           y == Seek(x, d, j.first)
           z == CopiedIn(y, d, j.first, L)
           busy == [z EXCEPT !.msr = @ \cup {"cb"}]
           g == ExecuteRead(f, j)
<1>1. SelectedIs(f, x, d) /\ d \in Drives /\ j.first \in Sectors /\ j.count \in 1 .. TrackSectors
  BY Selected, JobIs
<1> HIDE DEF x
<1>2. /\ y \in Controller /\ SameFifo(x, y) /\ y.msr = x.msr /\ y.slot = x.slot
      /\ SameTask(x, y) /\ SameChannel(x, y) /\ SameData(x, y)
  <2>1. x \in Controller
    BY <1>1 DEF SelectedIs
  <2> QED  BY <1>1, <2>1, SeekIs
<1> HIDE DEF y
<1>3. /\ z \in Controller /\ SameFifo(y, z) /\ z.msr = y.msr
      /\ z.slot = y.slot /\ SameTask(y, z) /\ SameChannel(y, z)
      /\ z.content = y.content /\ z.mem = y.mem
      /\ \A i \in 0 .. TrackSectors - 1 :
           j.first + i \in L => z.buf[i] = y.content[d][j.first + i]
  <2>1. L \in SUBSET Sectors
    BY DEF Touched
  <2> HIDE DEF L, z
  <2> QED  BY <1>1, <1>2, <2>1, CopiedInIs DEF z
<1> HIDE DEF z
<1>4. /\ busy \in Controller /\ SameFifo(z, busy) /\ busy.msr = z.msr \cup {"cb"}
      /\ busy.slot = z.slot
  BY <1>3 DEF Controller, SameFifo
<1>5. SameTask(z, busy) /\ SameChannel(z, busy) /\ SameData(z, busy)
  BY <1>3 DEF Controller, SameTask, SameChannel, SameData
<1> HIDE DEF busy
<1>6. /\ SameFifo(f, busy) /\ busy.msr = f.msr \cup {"cb"} /\ busy.slot = f.slot
      /\ SameChannel(f, busy) /\ busy.content = f.content /\ busy.mem = f.mem
      /\ busy.sel = d /\ busy.cmd = f.cmd /\ busy.fpos = f.fpos /\ busy.formats = f.formats
      /\ busy.fatal = f.fatal
      /\ \A i \in 0 .. TrackSectors - 1 :
           j.first + i \in L => busy.buf[i] = f.content[d][j.first + i]
  <2>1. SameFifo(f, busy) /\ busy.msr = f.msr \cup {"cb"} /\ busy.slot = f.slot
    BY <1>1, <1>2, <1>3, <1>4 DEF SelectedIs, SameFifo
  <2>2. SameChannel(f, busy)
    BY <1>1, <1>2, <1>3, <1>5 DEF SelectedIs, SameChannel
  <2>3. /\ busy.sel = d /\ busy.fpos = f.fpos /\ busy.formats = f.formats
        /\ busy.fatal = f.fatal /\ busy.cmd = f.cmd
    BY <1>1, <1>2, <1>3, <1>5 DEF SelectedIs, SameTask, SameFifo
  <2>4. busy.content = f.content /\ busy.mem = f.mem /\ busy.buf = z.buf
    BY <1>1, <1>2, <1>3, <1>5 DEF SelectedIs, SameData
  <2>5. y.content = f.content
    BY <1>1, <1>2 DEF SelectedIs, SameData
  <2> HIDE DEF L
  <2> QED  BY <1>3, <2>1, <2>2, <2>3, <2>4, <2>5
<1>7. /\ j.bad => g = Abort(x)
      /\ ~j.bad /\ S \subseteq Loaded(f, d) => g = RaiseDreq(busy)
      /\ ~j.bad /\ ~(S \subseteq Loaded(f, d)) => g = Deferred(busy, "read", d, j.first, j.count)
  <2>1. g = CASE j.bad -> Abort(x)
              [] ~j.bad /\ S \subseteq Loaded(f, d) -> RaiseDreq(busy)
              [] OTHER -> Deferred(busy, "read", d, j.first, j.count)
    BY DEF ExecuteRead, busy, x, y, z
  <2> HIDE DEF g, S
  <2> QED  BY <2>1, JobIs
<1>8. CASE j.bad
  <2>1. g = Abort(x)
    BY <1>7, <1>8
  <2> HIDE DEF g
  <2>2. /\ g \in Controller /\ Answers(g) /\ SameTask(x, g)
        /\ \A n \in Nat, b \in Before :
             Quiescent(x) /\ j.op \in Transfers /\ Refused(j) => Ended(g, j, n, b)
    BY <1>1, <2>1, AbortIs DEF SelectedIs
  <2>3. FifoStep(f, g) /\ (Fresh(f) => Fresh(g))
    BY <1>1, <2>2 DEF FifoStep, Fresh, SelectedIs, SameTask
  <2>4. ASSUME NEW n \in Nat, NEW b \in Before, j.op = "read", Given(f, j, b)
        PROVE  Underway(g, j, n, b)
    <3>1. Quiescent(x) /\ j.op \in Transfers /\ Refused(j)
      BY <1>1, <1>8, <2>4 DEF Given, Quiescent, SelectedIs, SameChannel, Transfers, Refused
    <3> QED  BY <2>2, <3>1 DEF Underway
  <2> QED  BY <2>2, <2>3, <2>4 DEF g
<1>9. CASE ~j.bad /\ S \subseteq Loaded(f, d)
  <2>1. g = RaiseDreq(busy)
    BY <1>7, <1>9
  <2> HIDE DEF g
  <2>2. g \in Controller /\ FifoStep(busy, g)
    BY <1>4, <2>1, RaiseDreqIs
  <2>3. FifoStep(f, g)
    BY <1>6, <2>2 DEF FifoStep, SameFifo
  <2> DEFINE r == [busy EXCEPT !.req = TRUE]
  <2>4. /\ r \in Controller /\ SameFifo(busy, r) /\ r.msr = busy.msr
        /\ r.slot = busy.slot /\ SameTask(busy, r) /\ SameData(busy, r)
        /\ r.req /\ r.toMem = busy.toMem /\ r.addr = busy.addr /\ r.count = busy.count
    BY <1>4, RequestedIs
  <2>5. g = RunTransfers(r)
    BY <2>1 DEF RaiseDreq
  <2> HIDE DEF r
  <2>6. ASSUME f.cmd = "read", Fresh(f)  PROVE  Fresh(g)
    <3>1. Fresh(r) /\ r.cmd = "read"
      BY <1>6, <2>4, <2>6 DEF Fresh, SameTask
    <3> QED  BY <2>4, <2>5, <3>1, FreshKept
  <2>7. ASSUME NEW n \in Nat, NEW b \in Before, j.op = "read", Given(f, j, b)
        PROVE  Underway(g, j, n, b)
    <3>1. ~Refused(j) /\ j.op \in Transfers
      BY <1>9, <2>7 DEF Refused, Transfers
    <3>2. AtWork(r, j) /\ ~r.slot.busy
      BY <1>6, <2>4, <2>7, <3>1 DEF AtWork, Given, Quiescent, SameTask
    <3>3. Set(r, j) /\ Unmoved(r, b)
      BY <1>6, <2>4, <2>7, <3>1 DEF Set, Unmoved, Given, SameData, SameChannel
    <3>4. \A i \in 0 .. j.count - 1 : r.buf[i] = b.content[j.drive][j.first + i]
      <4>1. ASSUME NEW i \in 0 .. j.count - 1
            PROVE  i \in 0 .. TrackSectors - 1 /\ j.first + i \in L
        <5>1. j.first + i \in Sectors
          BY JobIs
        <5> QED  BY <1>1, <1>9, <5>1, Constants DEF Touched, Sectors
      <4> HIDE DEF L
      <4> QED  BY <1>6, <2>4, <2>7, <4>1 DEF Unmoved, Given, SameData
    <3>5. Due(r, j, n, b)
      BY <2>4, <2>7, <3>2, <3>3, <3>4 DEF Due, Headed
    <3> QED  BY <2>4, <2>5, <3>5, Transferred
  <2> QED  BY <2>2, <2>3, <2>6, <2>7 DEF g
<1>10. CASE ~j.bad /\ ~(S \subseteq Loaded(f, d))
  <2>1. g = Deferred(busy, "read", d, j.first, j.count)
    BY <1>7, <1>10
  <2> HIDE DEF g
  <2>2. /\ g \in Controller /\ SameFifo(busy, g) /\ g.msr = busy.msr
        /\ g.slot = [busy |-> TRUE, op |-> "read", drive |-> d, first |-> j.first,
                     count |-> j.count]
        /\ SameTask(busy, g) /\ SameChannel(busy, g) /\ SameData(busy, g)
    <3>1. "read" \in Transfers /\ j.count \in 0 .. TrackSectors
      BY <1>1, Constants DEF Transfers
    <3> QED  BY <1>1, <1>4, <2>1, <3>1, DeferredIs
  <2>3. FifoStep(f, g) /\ (Fresh(f) => Fresh(g))
    BY <1>6, <2>2 DEF FifoStep, SameFifo, Fresh, SameTask
  <2>4. ASSUME NEW n \in Nat, NEW b \in Before, j.op = "read", Given(f, j, b)
        PROVE  Underway(g, j, n, b)
    <3>1. ~Refused(j) /\ j.op \in Transfers
      BY <1>10, <2>4 DEF Refused, Transfers
    <3>2. AtWork(g, j) /\ ~g.req
      BY <1>6, <2>2, <2>4, <3>1 DEF AtWork, Given, Quiescent, SameTask, SameChannel
    <3>3. Set(g, j) /\ Unmoved(g, b)
      BY <1>6, <2>2, <2>4, <3>1 DEF Set, Unmoved, Given, SameData, SameChannel
    <3>4. Loading(g, j, n, b)
      BY <2>2, <2>4, <3>2, <3>3 DEF Loading
    <3> QED  BY <3>4 DEF Underway
  <2> QED  BY <2>2, <2>3, <2>4 DEF g
<1> QED  BY <1>8, <1>9, <1>10

LEMMA ExecuteWriteIs ==
    ASSUME NEW f \in Controller, NEW j \in Jobs
    PROVE  LET g == ExecuteWrite(f, j)
           IN  /\ g \in Controller /\ FifoStep(f, g)
               /\ f.cmd = "write" /\ Fresh(f) => Fresh(g)
               /\ \A n \in Nat, b \in Before :
                    j.op = "write" /\ Given(f, j, b) => Underway(g, j, n, b)
<1> DEFINE d == j.drive
           x == [f EXCEPT !.sel = d]
           y == Seek(x, d, j.first)
           z == [y EXCEPT !.wlen = j.count]
           g == ExecuteWrite(f, j)
<1>1. SelectedIs(f, x, d) /\ d \in Drives /\ j.first \in Sectors /\ j.count \in 1 .. TrackSectors
  BY Selected, JobIs
<1> HIDE DEF x
<1>2. /\ y \in Controller /\ SameFifo(x, y) /\ y.msr = x.msr /\ y.slot = x.slot
      /\ y.lba = [x.lba EXCEPT ![d] = j.first]
      /\ SameTask(x, y) /\ SameChannel(x, y) /\ SameData(x, y)
  <2>1. x \in Controller
    BY <1>1 DEF SelectedIs
  <2> QED  BY <1>1, <2>1, SeekIs
<1> HIDE DEF y
<1>3. /\ SameFifo(f, y) /\ y.msr = f.msr /\ y.slot = f.slot /\ y.lba[d] = j.first
      /\ SameChannel(f, y) /\ SameData(f, y)
      /\ y.sel = d /\ y.cmd = f.cmd /\ y.fpos = f.fpos /\ y.formats = f.formats
      /\ y.fatal = f.fatal
  <2>1. SameFifo(f, y) /\ y.msr = f.msr /\ y.slot = f.slot
    BY <1>1, <1>2 DEF SelectedIs, SameFifo
  <2>2. SameChannel(f, y)
    BY <1>1, <1>2 DEF SelectedIs, SameChannel
  <2>3. SameData(f, y)
    BY <1>1, <1>2 DEF SelectedIs, SameData
  <2>4. /\ y.sel = d /\ y.cmd = f.cmd /\ y.fpos = f.fpos /\ y.formats = f.formats
        /\ y.fatal = f.fatal
    BY <1>1, <1>2 DEF SelectedIs, SameTask, SameFifo
  <2>5. y.lba[d] = j.first
    <3>1. x.lba \in [Drives -> Sectors]
      BY <1>1 DEF SelectedIs, Controller
    <3> QED  BY <1>1, <1>2, <3>1
  <2> QED  BY <2>1, <2>2, <2>3, <2>4, <2>5
<1>4. /\ z \in Controller /\ SameFifo(y, z) /\ z.msr = y.msr /\ z.slot = y.slot /\ z.lba = y.lba
      /\ SameChannel(y, z) /\ SameData(y, z) /\ z.wlen = j.count
      /\ z.sel = y.sel /\ z.cmd = y.cmd /\ z.fpos = y.fpos /\ z.formats = y.formats
      /\ z.fatal = y.fatal
  <2>1. j.count \in 0 .. TrackSectors
    BY <1>1, Constants
  <2>2. z \in Controller /\ z.wlen = j.count
    BY <1>2, <2>1 DEF Controller
  <2>3. /\ SameFifo(y, z) /\ z.msr = y.msr /\ z.slot = y.slot /\ z.lba = y.lba
        /\ z.sel = y.sel /\ z.cmd = y.cmd /\ z.fpos = y.fpos /\ z.formats = y.formats
        /\ z.fatal = y.fatal
    BY <1>2 DEF Controller, SameFifo
  <2>4. SameChannel(y, z) /\ SameData(y, z)
    BY <1>2 DEF Controller, SameChannel, SameData
  <2> QED  BY <2>2, <2>3, <2>4
<1> HIDE DEF z
<1>5. /\ j.bad => g = Abort(x)
      /\ ~j.bad /\ d \in Protected => g = Abort(y)
      /\ ~j.bad /\ d \notin Protected => g = RaiseDreq(z)
  <2>1. g = CASE j.bad -> Abort(x)
              [] ~j.bad /\ d \in Protected -> Abort(y)
              [] OTHER -> RaiseDreq(z)
    BY DEF ExecuteWrite, x, y, z
  <2> HIDE DEF g
  <2> QED  BY <2>1, JobIs
<1>6. CASE j.bad
  <2>1. g = Abort(x)
    BY <1>5, <1>6
  <2> HIDE DEF g
  <2>2. /\ g \in Controller /\ Answers(g) /\ SameTask(x, g)
        /\ \A n \in Nat, b \in Before :
             Quiescent(x) /\ j.op \in Transfers /\ Refused(j) => Ended(g, j, n, b)
    BY <1>1, <2>1, AbortIs DEF SelectedIs
  <2>3. FifoStep(f, g) /\ (Fresh(f) => Fresh(g))
    BY <1>1, <2>2 DEF FifoStep, Fresh, SelectedIs, SameTask
  <2>4. ASSUME NEW n \in Nat, NEW b \in Before, j.op = "write", Given(f, j, b)
        PROVE  Underway(g, j, n, b)
    <3>1. Quiescent(x) /\ j.op \in Transfers /\ Refused(j)
      BY <1>1, <1>6, <2>4 DEF Given, Quiescent, SelectedIs, SameChannel, Transfers, Refused
    <3> QED  BY <2>2, <3>1 DEF Underway
  <2> QED  BY <2>2, <2>3, <2>4 DEF g
<1>7. CASE ~j.bad /\ d \in Protected
  <2>1. g = Abort(y)
    BY <1>5, <1>7
  <2> HIDE DEF g
  <2>2. /\ g \in Controller /\ Answers(g) /\ SameTask(y, g)
        /\ \A n \in Nat, b \in Before :
             Quiescent(y) /\ j.op \in Transfers /\ Refused(j) => Ended(g, j, n, b)
    BY <1>2, <2>1, AbortIs
  <2>3. FifoStep(f, g) /\ (Fresh(f) => Fresh(g))
    BY <1>3, <2>2 DEF FifoStep, Fresh, SameTask
  <2>4. ASSUME NEW n \in Nat, NEW b \in Before, j.op = "write", Given(f, j, b)
        PROVE  Underway(g, j, n, b)
    <3>1. Quiescent(y) /\ j.op \in Transfers /\ Refused(j)
      BY <1>3, <1>7, <2>4 DEF Given, Quiescent, SameChannel, Transfers, Refused
    <3> QED  BY <2>2, <3>1 DEF Underway
  <2> QED  BY <2>2, <2>3, <2>4 DEF g
<1>8. CASE ~j.bad /\ d \notin Protected
  <2>1. g = RaiseDreq(z)
    BY <1>5, <1>8
  <2> HIDE DEF g
  <2>2. g \in Controller /\ FifoStep(z, g)
    BY <1>4, <2>1, RaiseDreqIs
  <2>3. FifoStep(f, g)
    BY <1>3, <1>4, <2>2 DEF FifoStep, SameFifo
  <2> DEFINE r == [z EXCEPT !.req = TRUE]
  <2>4. /\ r \in Controller /\ SameFifo(z, r) /\ r.msr = z.msr /\ r.lba = z.lba
        /\ r.slot = z.slot /\ SameTask(z, r) /\ SameData(z, r)
        /\ r.req /\ r.toMem = z.toMem /\ r.addr = z.addr /\ r.count = z.count
    BY <1>4, RequestedIs
  <2>5. g = RunTransfers(r)
    BY <2>1 DEF RaiseDreq
  <2> HIDE DEF r
  <2>6. ASSUME f.cmd = "write", Fresh(f)  PROVE  Fresh(g)
    <3>1. Fresh(r) /\ r.cmd = "write"
      BY <1>3, <1>4, <2>4, <2>6 DEF Fresh, SameTask
    <3> QED  BY <2>4, <2>5, <3>1, FreshKept
  <2>7. ASSUME NEW n \in Nat, NEW b \in Before, j.op = "write", Given(f, j, b)
        PROVE  Underway(g, j, n, b)
    <3>1. ~Refused(j) /\ j.op \in Transfers
      BY <1>8, <2>7 DEF Refused, Transfers
    <3>2. AtWork(r, j) /\ ~r.slot.busy
      BY <1>3, <1>4, <2>4, <2>7, <3>1 DEF AtWork, Given, Quiescent, SameTask
    <3>3. Set(r, j) /\ Unmoved(r, b)
      BY <1>3, <1>4, <2>4, <2>7, <3>1 DEF Set, Unmoved, Given, SameData, SameChannel
    <3>4. r.lba[j.drive] = j.first /\ r.wlen = j.count
      BY <1>3, <1>4, <2>4 DEF SameTask
    <3>5. Due(r, j, n, b)
      BY <2>4, <2>7, <3>2, <3>3, <3>4 DEF Due, Headed
    <3> QED  BY <2>4, <2>5, <3>5, Transferred
  <2> QED  BY <2>2, <2>3, <2>6, <2>7 DEF g
<1> QED  BY <1>6, <1>7, <1>8

LEMMA ExecuteFormatIs ==
    ASSUME NEW f \in Controller, NEW j \in Jobs, NEW n \in Nat
    PROVE  LET g == ExecuteFormat(f, j, n)
           IN  /\ g \in Controller /\ FifoStep(f, g) /\ Fresh(g)
               /\ \A b \in Before : j.op = "format" /\ Given(f, j, b) => Underway(g, j, n, b)
<1> DEFINE x == [f EXCEPT !.sel = j.drive, !.formats = @ + 1]
           v == <<"fill", n, 0>>
           z == [x EXCEPT !.fend = j.count, !.fill = v]
           g == ExecuteFormat(f, j, n)
<1>1. j.drive \in Drives /\ j.count \in 0 .. TrackSectors /\ v \in Cells
  <2>1. j.drive \in Drives /\ j.count \in 1 .. TrackSectors
    BY JobIs
  <2>2. <<"fill", n, 0>> \in Cells
    BY DataAreCells
  <2> QED  BY <2>1, <2>2, Constants
<1> HIDE DEF v
<1>2. /\ x \in Controller /\ SameFifo(f, x) /\ x.msr = f.msr /\ x.slot = f.slot
      /\ x.sel = j.drive /\ x.fpos = f.fpos /\ x.formats = f.formats + 1 /\ x.fatal = f.fatal
  <2>1. f.formats + 1 \in Nat
    BY DEF Controller
  <2>2. x \in Controller
    BY <1>1, <2>1 DEF Controller
  <2> QED  BY <2>2 DEF Controller, SameFifo
<1>3. SameChannel(f, x) /\ SameData(f, x)
  BY DEF Controller, SameChannel, SameData
<1> HIDE DEF x
<1>4. /\ z \in Controller /\ SameFifo(x, z) /\ z.msr = x.msr /\ z.slot = x.slot
      /\ z.sel = x.sel /\ z.fpos = x.fpos /\ z.formats = x.formats /\ z.fatal = x.fatal
      /\ z.fend = j.count /\ z.fill = v
  <2>1. z \in Controller
    BY <1>1, <1>2 DEF Controller
  <2> QED  BY <1>2, <2>1 DEF Controller, SameFifo
<1>5. SameChannel(x, z) /\ SameData(x, z)
  BY <1>2 DEF Controller, SameChannel, SameData
<1> HIDE DEF z
<1>6. x.formats >= 1 /\ (x.formats = 1 => f.formats = 0)
  <2>1. f.formats \in Nat
    BY DEF Controller
  <2> QED  BY <1>2, <2>1
<1>7. g = IF j.bad \/ j.drive \in Protected THEN Abort(x) ELSE RaiseDreq(z)
  BY DEF ExecuteFormat, x, z, v
<1> HIDE DEF g
<1>8. CASE j.bad \/ j.drive \in Protected
  <2>2. /\ g \in Controller /\ Answers(g) /\ SameTask(x, g)
        /\ \A b \in Before :
             Quiescent(x) /\ j.op \in Transfers /\ Refused(j) => Ended(g, j, n, b)
    BY <1>2, <1>7, <1>8, AbortIs
  <2>3. FifoStep(f, g) /\ Fresh(g)
    BY <1>6, <2>2 DEF FifoStep, Fresh, SameTask
  <2>4. ASSUME NEW b \in Before, j.op = "format", Given(f, j, b)
        PROVE  Underway(g, j, n, b)
    <3>1. Quiescent(x) /\ j.op \in Transfers /\ Refused(j)
      BY <1>2, <1>3, <1>8, <2>4 DEF Given, Quiescent, SameChannel, Transfers, Refused
    <3> QED  BY <2>2, <3>1 DEF Underway
  <2> QED  BY <2>2, <2>3, <2>4 DEF g
<1>9. CASE ~(j.bad \/ j.drive \in Protected)
  <2>1. g = RaiseDreq(z)
    BY <1>7, <1>9
  <2>2. g \in Controller /\ FifoStep(z, g)
    BY <1>4, <2>1, RaiseDreqIs
  <2>3. FifoStep(f, g)
    BY <1>2, <1>4, <2>2 DEF FifoStep, SameFifo
  <2> DEFINE r == [z EXCEPT !.req = TRUE]
  <2>4. /\ r \in Controller /\ SameFifo(z, r) /\ r.msr = z.msr
        /\ r.slot = z.slot /\ SameTask(z, r) /\ SameData(z, r)
        /\ r.req /\ r.toMem = z.toMem /\ r.addr = z.addr /\ r.count = z.count
    BY <1>4, RequestedIs
  <2>5. g = RunTransfers(r)
    BY <2>1 DEF RaiseDreq
  <2> HIDE DEF r
  <2>6. Fresh(g)
    <3>1. r.formats >= 1
      BY <1>4, <1>6, <2>4 DEF SameTask
    <3> QED  BY <2>4, <2>5, <3>1, FreshKept DEF Fresh
  <2>7. ASSUME NEW b \in Before, j.op = "format", Given(f, j, b)
        PROVE  Underway(g, j, n, b)
    <3>1. ~Refused(j) /\ j.op \in Transfers
      BY <1>9, <2>7 DEF Refused, Transfers
    <3>2. AtWork(r, j) /\ ~r.slot.busy
      BY <1>2, <1>4, <2>4, <2>7, <3>1 DEF AtWork, Given, Quiescent, SameTask, SameFifo
    <3>3. Set(r, j) /\ Unmoved(r, b)
      BY <1>3, <1>5, <2>4, <2>7, <3>1 DEF Set, Unmoved, Given, SameData, SameChannel
    <3>4. Headed(r, j)
      BY <1>3, <1>5, <2>4, <2>7, <3>1 DEF Headed, Given, SameData
    <3>5. r.fend = j.count /\ r.fill = v /\ r.formats >= 1 /\ (r.formats = 1 => r.fpos = 0)
      BY <1>2, <1>4, <1>6, <2>4, <2>7 DEF SameTask, Given, Fresh
    <3>6. Due(r, j, n, b)
      BY <2>4, <2>7, <3>2, <3>3, <3>4, <3>5 DEF Due, v
    <3> QED  BY <2>4, <2>5, <3>6, Transferred
  <2> QED  BY <2>2, <2>3, <2>6, <2>7 DEF g
<1> QED  BY <1>8, <1>9

\* The last byte of a command of more than one.
LEMMA ExecuteIs ==
    ASSUME NEW f \in Controller, NEW j \in Jobs, NEW n \in Nat, Fifo(f),
           f.cmd = j.op, j.op \in LongCommands, "dio" \notin f.msr
    PROVE  LET g == Execute(f, j, n)
           IN  /\ g \in Controller /\ Fifo(g) /\ (Fresh(f) => Fresh(g))
               /\ j.op \notin Transfers =>
                    /\ g.size = 0 /\ "dio" \notin g.msr
                    /\ Quiescent(f) => Quiescent(g)
               /\ \A b \in Before :
                    j.op \in Transfers /\ Given(f, j, b) => Underway(g, j, n, b)
<1> DEFINE g == Execute(f, j, n)
<1>1. CASE j.op \in {"read", "write"}
  <2> DEFINE x == IF j.op = "read" THEN ExecuteRead(f, j) ELSE ExecuteWrite(f, j)
  <2>1. g = ResetCmdFifo(x)
    BY <1>1 DEF Execute
  <2>2. /\ x \in Controller /\ FifoStep(f, x) /\ (Fresh(f) => Fresh(x))
        /\ \A b \in Before : Given(f, j, b) => Underway(x, j, n, b)
    BY <1>1, ExecuteReadIs, ExecuteWriteIs
  <2> HIDE DEF x, g
  <2>3. /\ g \in Controller /\ g.pos = 0 /\ g.size = 0
        /\ g.msr = x.msr /\ g.left = x.left /\ g.ok = x.ok /\ g.lba = x.lba
        /\ g.slot = x.slot /\ SameTask(x, g) /\ SameChannel(x, g) /\ SameData(x, g)
    BY <2>1, <2>2, ResetCmdFifoIs
  <2>4. Fifo(g)
    BY <2>2, <2>3 DEF Fifo, FifoStep, SameFifo, Answers
  <2>5. Fresh(f) => Fresh(g)
    BY <2>2, <2>3 DEF Fresh, SameTask
  <2>6. SameCourse(x, g)
    BY <2>3 DEF SameCourse
  <2> QED  BY <1>1, <2>2, <2>3, <2>4, <2>5, <2>6, CourseKept DEF Transfers, g
<1>2. CASE j.op = "format"
  <2>1. g = ExecuteFormat(f, j, n)
    BY <1>2 DEF Execute
  <2> HIDE DEF g
  <2>2. /\ g \in Controller /\ FifoStep(f, g) /\ Fresh(g)
        /\ \A b \in Before : Given(f, j, b) => Underway(g, j, n, b)
    BY <1>2, <2>1, ExecuteFormatIs
  <2>3. Fifo(g)
    BY <2>2 DEF Fifo, FifoStep, SameFifo, Answers
  <2> QED  BY <1>2, <2>2, <2>3 DEF Transfers, g
<1>3. CASE j.op = "calibrate"
  <2> DEFINE y == Seek(f, j.drive, 0)
             x == RaiseIrq6(y)
  <2>1. g = ResetCmdFifo(x)
    BY <1>3 DEF Execute
  <2>2. j.drive \in Drives /\ 0 \in Sectors
    BY JobIs, Constants DEF Sectors
  <2>3. /\ y \in Controller /\ SameFifo(f, y) /\ y.msr = f.msr /\ y.slot = f.slot
        /\ SameTask(f, y) /\ SameChannel(f, y)
    BY <2>2, SeekIs
  <2> HIDE DEF y
  <2>4. /\ x \in Controller /\ SameFifo(y, x) /\ x.msr = y.msr /\ x.slot = y.slot
        /\ SameTask(y, x) /\ SameChannel(y, x)
    BY <2>3, RaiseIrq6Is
  <2> HIDE DEF x, g
  <2>5. /\ g \in Controller /\ g.pos = 0 /\ g.size = 0 /\ g.msr = x.msr /\ g.slot = x.slot
        /\ SameTask(x, g) /\ SameChannel(x, g)
    BY <2>1, <2>4, ResetCmdFifoIs
  <2>6. "dio" \notin g.msr /\ g.slot = f.slot
    BY <2>3, <2>4, <2>5
  <2>7. Fifo(g)
    BY <2>5, <2>6 DEF Fifo
  <2>8. g.fatal = f.fatal /\ g.formats = f.formats /\ g.fpos = f.fpos
    BY <2>3, <2>4, <2>5 DEF SameTask
  <2>9. g.req = f.req
    BY <2>3, <2>4, <2>5 DEF SameChannel
  <2> QED  BY <1>3, <2>5, <2>6, <2>7, <2>8, <2>9 DEF Transfers, Fresh, Quiescent, g
<1>4. CASE j.op = "configure"
  <2> DEFINE x == [f EXCEPT !.msr = {"rqm"}]
  <2>1. g = ResetCmdFifo(x)
    BY <1>4 DEF Execute
  <2>2. /\ x \in Controller /\ x.msr = {"rqm"} /\ x.slot = f.slot /\ x.req = f.req
        /\ x.fatal = f.fatal /\ x.formats = f.formats /\ x.fpos = f.fpos
    BY DEF Controller
  <2> HIDE DEF x, g
  <2>3. /\ g \in Controller /\ g.pos = 0 /\ g.size = 0 /\ g.msr = x.msr /\ g.slot = x.slot
        /\ SameTask(x, g) /\ SameChannel(x, g)
    BY <2>1, <2>2, ResetCmdFifoIs
  <2>4. Fifo(g)
    BY <2>2, <2>3 DEF Fifo
  <2> QED  BY <1>4, <2>2, <2>3, <2>4 DEF Transfers, Fresh, Quiescent, SameTask, SameChannel, g
<1> QED
  <2>1. j.op \in {"read", "write", "format", "calibrate", "configure"}
    BY DEF LongCommands, Ops
  <2> QED  BY <1>1, <1>2, <1>3, <1>4, <2>1

\* The first byte of a command.
LEMMA BeginCommandIs ==
    ASSUME NEW f \in Controller, NEW op \in Ops,
           f.pos = 1, f.size = 0, f.cmd = op, "dio" \notin f.msr
    PROVE  LET g == BeginCommand(f, op)
           IN  /\ g \in Controller /\ Fifo(g) /\ (Fresh(f) => Fresh(g))
               /\ Quiescent(f) => Quiescent(g)
               /\ op \in {"sense", "version"} => g.size = 0 /\ g.left # 7
               /\ op \in LongCommands =>
                    /\ g.pos = 1 /\ g.cmd = op /\ g.pos < g.size /\ g.msr = f.msr
                    /\ SameChannel(f, g) /\ SameData(f, g)
<1> DEFINE g == BeginCommand(f, op)
<1>1. CASE op = "sense"
  <2> DEFINE y == ResetOutFifo(f, 2, TRUE)
             x == RaiseIrq6(y)
  <2>1. g = ResetCmdFifo(x)
    BY <1>1 DEF BeginCommand
  <2>2. /\ y \in Controller /\ y.left = 2 /\ y.slot = f.slot
        /\ SameTask(f, y) /\ SameChannel(f, y)
    <3>1. 2 \in Nat /\ 1 <= 2 /\ 2 <= 7 /\ TRUE \in BOOLEAN
      OBVIOUS
    <3> QED  BY <3>1, ResetOutFifoIs, Zenon
  <2> HIDE DEF y
  <2>3. /\ x \in Controller /\ SameFifo(y, x) /\ x.slot = y.slot
        /\ SameTask(y, x) /\ SameChannel(y, x)
    BY <2>2, RaiseIrq6Is
  <2> HIDE DEF x, g
  <2>4. /\ g \in Controller /\ g.pos = 0 /\ g.size = 0 /\ g.left = x.left /\ g.slot = x.slot
        /\ SameTask(x, g) /\ SameChannel(x, g)
    BY <2>1, <2>3, ResetCmdFifoIs
  <2>5. g.left = 2 /\ Fifo(g)
    BY <2>2, <2>3, <2>4 DEF Fifo, SameFifo
  <2>6. Fresh(f) => Fresh(g)
    BY <2>2, <2>3, <2>4 DEF Fresh, SameTask
  <2>7. Quiescent(f) => Quiescent(g)
    BY <2>2, <2>3, <2>4 DEF Quiescent, SameTask, SameChannel
  <2> QED  BY <1>1, <2>4, <2>5, <2>6, <2>7 DEF LongCommands, g
<1>2. CASE op = "version"
  <2> DEFINE y == ResetOutFifo(f, 1, TRUE)
  <2>1. g = ResetCmdFifo(y)
    BY <1>2 DEF BeginCommand
  <2>2. /\ y \in Controller /\ y.left = 1 /\ y.slot = f.slot
        /\ SameTask(f, y) /\ SameChannel(f, y)
    <3>1. 1 \in Nat /\ 1 <= 1 /\ 1 <= 7 /\ TRUE \in BOOLEAN
      OBVIOUS
    <3> QED  BY <3>1, ResetOutFifoIs, Zenon
  <2> HIDE DEF y, g
  <2>4. /\ g \in Controller /\ g.pos = 0 /\ g.size = 0 /\ g.left = y.left /\ g.slot = y.slot
        /\ SameTask(y, g) /\ SameChannel(y, g)
    BY <2>1, <2>2, ResetCmdFifoIs
  <2>5. g.left = 1 /\ Fifo(g)
    BY <2>2, <2>4 DEF Fifo
  <2>6. Fresh(f) => Fresh(g)
    BY <2>2, <2>4 DEF Fresh, SameTask
  <2>7. Quiescent(f) => Quiescent(g)
    BY <2>2, <2>4 DEF Quiescent, SameTask, SameChannel
  <2> QED  BY <1>2, <2>4, <2>5, <2>6, <2>7 DEF LongCommands, g
<1>3. CASE op \in LongCommands
  <2>1. op \in {"read", "write", "format", "calibrate", "configure"}
    BY <1>3 DEF LongCommands, Ops
  <2>2. CommandSize[op] \in 2 .. 9
    BY <2>1 DEF CommandSize
  <2> DEFINE k == CommandSize[op]
  <2> HIDE DEF k
  <2>3. g = [f EXCEPT !.size = k]
    BY <2>1 DEF BeginCommand, k
  <2> HIDE DEF g
  <2>4. g \in Controller /\ g.size = k
    <3>1. k \in 0 .. 9
      BY <2>2 DEF k
    <3> QED  BY <2>3, <3>1, SMTT(40) DEF Controller
  <2>5. /\ g.pos = f.pos /\ g.cmd = f.cmd /\ g.msr = f.msr /\ g.slot = f.slot /\ g.req = f.req
        /\ g.fatal = f.fatal /\ g.formats = f.formats /\ g.fpos = f.fpos
    BY <2>3 DEF Controller
  <2>6. SameChannel(f, g) /\ SameData(f, g)
    BY <2>3 DEF Controller, SameChannel, SameData
  <2>7. Fifo(g) /\ g.pos < g.size
    BY <1>3, <2>2, <2>4, <2>5 DEF Fifo, k
  <2> QED  BY <2>1, <2>4, <2>5, <2>6, <2>7 DEF Fresh, Quiescent, g
<1> QED  BY <1>1, <1>2, <1>3 DEF LongCommands

-----------------------------------------------------------------------------
\* The digital output register.
LEMMA WriteDorIs ==
    ASSUME NEW f \in Controller, NEW d \in Drives
    PROVE  SelectedIs(f, WriteDor(f, d), d)
<1> DEFINE x == LowerIrq6(f)
<1>1. /\ x \in Controller /\ SameFifo(f, x) /\ x.msr = f.msr /\ x.lba = f.lba /\ x.slot = f.slot
      /\ SameTask(f, x) /\ SameChannel(f, x) /\ SameData(f, x)
  BY LowerIrq6Is
<1>2. WriteDor(f, d) = [x EXCEPT !.sel = d]
  BY DEF WriteDor
<1> HIDE DEF x
<1>3. SelectedIs(x, WriteDor(f, d), d)
  BY <1>1, <1>2, Selected
<1> QED  BY <1>1, <1>3 DEF SelectedIs, SameFifo, SameTask, SameChannel, SameData

\* The first sector of a cylinder.
LEMMA HomeIs ==
    ASSUME NEW s \in Sectors
    PROVE  s - (s % (Heads * TrackSectors)) \in Sectors
<1> DEFINE m == Heads * TrackSectors
<1>1. m \in Nat /\ m >= 1
  BY Constants
<1> HIDE DEF m
<1>2. s \in Nat /\ s < NumSectors
  BY Constants DEF Sectors
<1>3. s % m \in 0 .. m - 1
  BY <1>1, <1>2
<1>4. s % m <= s
  BY <1>1, <1>2, <1>3
<1>5. s - (s % m) \in Sectors
  BY <1>1, <1>2, <1>3, <1>4, Constants DEF Sectors
<1> QED  BY <1>5 DEF m

LEMMA ResetControllerIs ==
    ASSUME NEW f \in Controller, NEW d \in Drives
    PROVE  LET g == ResetController(f, d)
           IN  /\ g \in Controller /\ g.msr = {"rqm"} /\ g.pos = 0 /\ g.size = 0
               /\ g.slot = f.slot /\ g.req = f.req /\ g.fatal = f.fatal
               /\ g.fpos = f.fpos /\ g.formats = f.formats
<1> DEFINE home(s) == s - (s % (Heads * TrackSectors))
           y == WriteDor(f, d)
           x == ResetCmdFifo(y)
           A == [e \in Drives |-> home(x.at[e])]
           L == [e \in Drives |-> home(f.at[e])]
           z == [x EXCEPT !.msr = {"rqm"}, !.at = A, !.lba = L]
           g == RaiseIrq6(z)
<1>1. SelectedIs(f, y, d)
  BY WriteDorIs
<1>2. /\ x \in Controller /\ x.pos = 0 /\ x.size = 0 /\ x.slot = y.slot
      /\ SameTask(y, x) /\ SameChannel(y, x)
  <2> HIDE DEF y
  <2> QED  BY <1>1, ResetCmdFifoIs DEF SelectedIs
<1>3. ResetController(f, d) = g
  BY DEF ResetController
<1> HIDE DEF y, x
<1>4. A \in [Drives -> Sectors] /\ L \in [Drives -> Sectors]
  <2>1. x.at \in [Drives -> Sectors] /\ f.at \in [Drives -> Sectors]
    BY <1>2 DEF Controller
  <2>2. \A s \in Sectors : home(s) \in Sectors
    BY HomeIs
  <2> HIDE DEF home
  <2> QED  BY <2>1, <2>2
<1> HIDE DEF home, A, L
<1>5. /\ z \in Controller /\ z.msr = {"rqm"} /\ z.pos = 0 /\ z.size = 0 /\ z.slot = x.slot
      /\ z.req = x.req /\ z.fatal = x.fatal /\ z.fpos = x.fpos /\ z.formats = x.formats
  <2>1. {"rqm"} \in SUBSET {"rqm", "cb", "dio"}
    OBVIOUS
  <2>2. z \in Controller
    BY <1>2, <1>4, <2>1 DEF Controller
  <2> QED  BY <1>2, <2>2 DEF Controller
<1> HIDE DEF z
<1>6. /\ g \in Controller /\ SameFifo(z, g) /\ g.msr = z.msr /\ g.slot = z.slot
      /\ SameTask(z, g) /\ SameChannel(z, g)
  BY <1>5, RaiseIrq6Is
<1> HIDE DEF g
<1> QED
  BY <1>1, <1>2, <1>3, <1>5, <1>6 DEF SelectedIs, SameFifo, SameTask, SameChannel

-----------------------------------------------------------------------------
(***************************************************************************)
(* Every step keeps Inv.                                                   *)
(***************************************************************************)
LEMMA TypesPrimed ==
    ASSUME fuse' \in FdcUses, fdc' \in Controller, driver' \in DriverRecord,
           Fifo(fdc'), InStep(fdc', driver')
    PROVE  Types'
BY DEF Types

LEMMA InvPrimed ==
    ASSUME Types', ~driver'.disturbed => OnCourse(fdc', driver')
    PROVE  Inv'
BY DEF Inv

LEMMA InvKeptAt ==
    ASSUME Inv, UNCHANGED fuse, fdc' \in Controller, driver' \in DriverRecord,
           Fifo(fdc'), InStep(fdc', driver'),
           ~driver'.disturbed => OnCourse(fdc', driver')
    PROVE  Inv'
BY TypesPrimed, InvPrimed DEF Inv, Types

\* What the driver's memory holds is of the cells, and what a format needs.
LEMMA SourceIs ==
    ASSUME NEW j \in Jobs, NEW n \in Nat, fdc \in Controller
    PROVE  /\ Source(j, n) \in Memory
           /\ j.op = "format" =>
                \A a \in 0 .. j.count - 1 : Source(j, n)[a] = <<"header", 0, j.first + a>>
<1>1. /\ fdc.mem \in [0 .. TrackSectors -> Cells] /\ DOMAIN fdc.mem = 0 .. TrackSectors
      /\ j.first \in Nat /\ j.count \in 1 .. TrackSectors
      /\ \A a \in 0 .. j.count - 1 : j.first + a \in Sectors
  <2>1. fdc.mem \in [0 .. TrackSectors -> Cells]
    BY DEF Controller, Memory
  <2> QED  BY <2>1, JobIs, Constants DEF Sectors
<1>2. ASSUME NEW a \in 0 .. TrackSectors
      PROVE  /\ Source(j, n)[a] \in Cells
             /\ j.op = "format" /\ a < j.count => Source(j, n)[a] = <<"header", 0, j.first + a>>
  <2> DEFINE v == Source(j, n)[a]
  <2>1. /\ j.op = "write" /\ a < j.count => v = <<"data", n, a>>
        /\ j.op = "format" /\ a < j.count => v = <<"header", 0, j.first + a>>
        /\ ~(j.op = "write" /\ a < j.count) /\ ~(j.op = "format" /\ a < j.count) =>
             v = fdc.mem[a]
    <3>1. v = CASE j.op = "write" /\ a < j.count -> <<"data", n, a>>
                [] j.op = "format" /\ a < j.count -> <<"header", 0, j.first + a>>
                [] OTHER -> fdc.mem[a]
      BY <1>1 DEF Source
    <3> HIDE DEF v
    <3> QED  BY <3>1
  <2> HIDE DEF v
  <2>2. <<"data", n, a>> \in Cells
    <3>1. a \in Nat
      BY Constants
    <3> QED  BY <3>1, DataAreCells
  <2>3. a < j.count => <<"header", 0, j.first + a>> \in Cells
    <3>1. a < j.count => j.first + a \in Sectors
      BY <1>1, Constants
    <3> QED  BY <3>1, HeadersAreCells
  <2>4. fdc.mem[a] \in Cells
    BY <1>1
  <2>5. v \in Cells
    BY <2>1, <2>2, <2>3, <2>4
  <2> QED  BY <2>1, <2>5 DEF v
<1>3. Source(j, n) \in Memory
  <2>1. Source(j, n) = [a \in 0 .. TrackSectors |-> Source(j, n)[a]]
    BY <1>1 DEF Source
  <2> QED  BY <1>2, <2>1 DEF Memory
<1>4. j.op = "format" => \A a \in 0 .. j.count - 1 : Source(j, n)[a] = <<"header", 0, j.first + a>>
  <2>1. \A a \in 0 .. j.count - 1 : a \in 0 .. TrackSectors /\ a < j.count
    BY <1>1, Constants
  <2> QED  BY <1>2, <2>1
<1> QED  BY <1>3, <1>4

LEMMA ProgrammedIs ==
    ASSUME NEW f \in Controller, NEW j \in Jobs, NEW n \in Nat, fdc \in Controller
    PROVE  LET g == [Programmed(f, j, n) EXCEPT !.deferred = FALSE]
           IN  /\ g \in Controller /\ SameFifo(f, g) /\ g.msr = f.msr /\ g.slot = f.slot
               /\ g.req = f.req /\ g.fatal = f.fatal /\ g.fpos = f.fpos /\ g.formats = f.formats
               /\ j.op \in Transfers => Set(g, j) /\ Headed(g, j)
<1> DEFINE x == Programmed(f, j, n)
           g == [x EXCEPT !.deferred = FALSE]
<1>1. /\ x \in Controller /\ SameFifo(f, x) /\ x.msr = f.msr /\ x.slot = f.slot
      /\ x.req = f.req /\ x.fatal = f.fatal /\ x.fpos = f.fpos /\ x.formats = f.formats
      /\ j.op \in Transfers => Set(x, j) /\ Headed(x, j)
  <2>1. CASE j.op \in Transfers
    <3> DEFINE M == Source(j, n)
               t == (j.op = "read")
    <3>1. M \in Memory /\ Headed([f EXCEPT !.mem = M], j)
      BY SourceIs, SMTT(40) DEF Headed, Controller
    <3>2. t \in BOOLEAN /\ j.count \in 0 .. TrackSectors /\ 0 \in Nat
      BY JobIs, Constants
    <3> HIDE DEF M, t
    <3>3. x = [f EXCEPT !.masked = TRUE, !.toMem = t, !.addr = 0, !.count = j.count, !.mem = M]
      BY <2>1 DEF Programmed, M, t
    <3> HIDE DEF x
    <3>4. x \in Controller
      BY <3>1, <3>2, <3>3, ZenonT(60) DEF Controller
    <3>5. /\ SameFifo(f, x) /\ x.msr = f.msr /\ x.slot = f.slot
          /\ x.req = f.req /\ x.fatal = f.fatal /\ x.fpos = f.fpos /\ x.formats = f.formats
      BY <3>3 DEF Controller, SameFifo
    <3>6. x.addr = 0 /\ x.count = j.count /\ x.toMem = t /\ x.mem = M
      BY <3>3 DEF Controller
    <3>7. Set(x, j) /\ Headed(x, j)
      BY <3>1, <3>6, SMTT(40) DEF Set, Headed, Controller, t
    <3> QED  BY <3>4, <3>5, <3>7
  <2>2. CASE j.op \notin Transfers
    <3>1. x = f
      BY <2>2 DEF Programmed
    <3> QED  BY <2>2, <3>1 DEF SameFifo
  <2> QED  BY <2>1, <2>2
<1> HIDE DEF x
<1>2. g \in Controller
  BY <1>1 DEF Controller
<1>3. /\ SameFifo(x, g) /\ g.msr = x.msr /\ g.slot = x.slot
      /\ g.req = x.req /\ g.fatal = x.fatal /\ g.fpos = x.fpos /\ g.formats = x.formats
  BY <1>1 DEF Controller, SameFifo
<1>4. j.op \in Transfers => Set(g, j) /\ Headed(g, j)
  BY <1>1 DEF Controller, Set, Headed
<1> HIDE DEF g
<1> QED  BY <1>1, <1>2, <1>3, <1>4 DEF SameFifo, g, x

LEMMA UsesAreUses ==
    ASSUME Inv
    PROVE  fuse.jobs \subseteq Jobs
<1>1. fuse \in FdcUse
  BY FdcAssumption DEF Inv, Types
<1> QED  BY <1>1 DEF FdcUse

LEMMA PrepareKeeps ==
    ASSUME Inv, NEW j \in fuse.jobs, Prepare(j)
    PROVE  Inv'
<1> DEFINE n == driver.jobs + 1
           x == IF fuse.dor THEN WriteDor(fdc, j.drive) ELSE fdc
           g == [Programmed(x, j, n) EXCEPT !.deferred = FALSE]
           b == [content |-> fdc'.content, mem |-> fdc'.mem]
<1>1. j \in Jobs /\ Types
  BY UsesAreUses DEF Inv
<1>2. fdc \in Controller /\ driver \in DriverRecord /\ Fifo(fdc) /\ InStep(fdc, driver)
  BY <1>1 DEF Types
<1>3. n \in Nat /\ j.drive \in Drives
  BY <1>1, <1>2, JobIs DEF DriverRecord
<1>4. /\ driver.stage = "idle" /\ "dio" \notin fdc.msr /\ UNCHANGED fuse
      /\ fdc' = g
      /\ driver' = [driver EXCEPT !.stage = "ready", !.job = j, !.bytes = 0, !.seen = FALSE,
                                  !.jobs = n, !.before = b]
  BY DEF Prepare
<1>5. /\ x \in Controller /\ SameFifo(fdc, x) /\ x.msr = fdc.msr /\ x.slot = fdc.slot
      /\ x.req = fdc.req /\ x.fatal = fdc.fatal /\ x.fpos = fdc.fpos /\ x.formats = fdc.formats
  <2>1. CASE fuse.dor
    <3>1. SelectedIs(fdc, x, j.drive)
      BY <1>2, <1>3, <2>1, WriteDorIs
    <3> HIDE DEF x
    <3> QED  BY <3>1 DEF SelectedIs, SameChannel
  <2>2. CASE ~fuse.dor
    BY <1>2, <2>2 DEF SameFifo
  <2> QED  BY <2>1, <2>2
<1> HIDE DEF n, x
<1>6. /\ g \in Controller /\ SameFifo(x, g) /\ g.msr = x.msr /\ g.slot = x.slot
      /\ g.req = x.req /\ g.fatal = x.fatal /\ g.fpos = x.fpos /\ g.formats = x.formats
      /\ j.op \in Transfers => Set(g, j) /\ Headed(g, j)
  <2> HIDE DEF g
  <2> QED  BY <1>1, <1>2, <1>3, <1>5, ProgrammedIs DEF g
<1> HIDE DEF g
<1>7. fdc' \in Controller
  BY <1>4, <1>6
<1>8. b \in Before
  BY <1>7 DEF Before, Controller
<1> HIDE DEF b
<1>9. driver' \in DriverRecord
  <2>1. 0 \in Nat /\ FALSE \in BOOLEAN
    OBVIOUS
  <2> QED  BY <1>1, <1>2, <1>3, <1>4, <1>8, <2>1 DEF DriverRecord
<1>10. /\ driver'.stage = "ready" /\ driver'.job = j /\ driver'.bytes = 0 /\ driver'.before = b
       /\ driver'.disturbed = driver.disturbed
  BY <1>2, <1>4 DEF DriverRecord
<1>11. SameFifo(fdc, fdc') /\ fdc'.msr = fdc.msr
  BY <1>4, <1>5, <1>6 DEF SameFifo
<1>12. Fifo(fdc')
  BY <1>2, <1>11 DEF Fifo, SameFifo
<1>13. InStep(fdc', driver')
  BY <1>2, <1>4, <1>10, <1>11 DEF InStep, SameFifo, Fifo
<1>14. ASSUME ~driver'.disturbed
       PROVE  OnCourse(fdc', driver')
  <2>1. OnCourse(fdc, driver)
    BY <1>10, <1>14 DEF Inv
  <2>2. Quiescent(fdc') /\ Fresh(fdc') /\ "dio" \notin fdc'.msr
    BY <1>4, <1>5, <1>6, <2>1 DEF OnCourse, Quiescent, Fresh
  <2>3. Unmoved(fdc', b)
    BY DEF Unmoved, b
  <2> QED  BY <1>4, <1>6, <1>10, <2>2, <2>3 DEF OnCourse
<1> QED  BY <1>4, <1>7, <1>9, <1>12, <1>13, <1>14, InvKeptAt

LEMMA UnmaskKeeps ==
    ASSUME Inv, Unmask
    PROVE  Inv'
<1> DEFINE x == [fdc EXCEPT !.masked = FALSE]
<1>1. fdc \in Controller /\ driver \in DriverRecord /\ Fifo(fdc) /\ InStep(fdc, driver)
  BY DEF Inv, Types
<1>2. /\ driver.stage \in {"ready", "sent"} /\ driver.job.op \in Transfers
      /\ fdc' = RunTransfers(x) /\ driver' = driver /\ UNCHANGED fuse
  BY DEF Unmask
<1>3. /\ x \in Controller /\ SameFifo(fdc, x) /\ x.msr = fdc.msr /\ x.lba = fdc.lba
      /\ x.slot = fdc.slot /\ SameTask(fdc, x) /\ SameData(fdc, x)
      /\ x.req = fdc.req /\ x.toMem = fdc.toMem /\ x.addr = fdc.addr /\ x.count = fdc.count
      /\ x.ok = fdc.ok
  <2>1. x \in Controller
    BY <1>1 DEF Controller
  <2> QED  BY <1>1, <2>1 DEF Controller, SameFifo, SameTask, SameData
<1> HIDE DEF x
<1>4. fdc' \in Controller /\ FifoStep(fdc, fdc')
  <2>1. RunTransfers(x) \in Controller /\ FifoStep(x, RunTransfers(x))
    BY <1>3, RunTransfersIs
  <2> QED  BY <1>2, <1>3, <2>1 DEF FifoStep, SameFifo
<1>5. Fifo(fdc') /\ InStep(fdc', driver')
  BY <1>1, <1>2, <1>4, FifoKept
<1>6. ASSUME ~driver'.disturbed
      PROVE  OnCourse(fdc', driver')
  <2>1. OnCourse(fdc, driver)
    BY <1>2, <1>6 DEF Inv
  <2>2. OnCourse(x, driver)
    <3>1. Fresh(x) /\ (Quiescent(fdc) => Quiescent(x))
      BY <1>3, <2>1 DEF OnCourse, Fresh, Quiescent, SameTask
    <3>2. \A j : (Set(fdc, j) => Set(x, j)) /\ (Headed(fdc, j) => Headed(x, j))
      BY <1>3 DEF Set, Headed, SameData
    <3>3. \A b : Unmoved(fdc, b) => Unmoved(x, b)
      BY <1>3 DEF Unmoved, SameData
    <3>4. \A j : AtWork(fdc, j) => AtWork(x, j)
      BY <1>3 DEF AtWork, SameTask
    <3>5. \A j, n, b : Due(fdc, j, n, b) => Due(x, j, n, b)
      BY <1>3, <3>2, <3>3, <3>4 DEF Due, SameData, SameTask
    <3>6. \A j, n, b : Loading(fdc, j, n, b) => Loading(x, j, n, b)
      BY <1>3, <3>2, <3>3, <3>4 DEF Loading, SameData, SameTask
    <3>7. \A j, n, b : Ended(fdc, j, n, b) => Ended(x, j, n, b)
      BY <1>3, <3>1 DEF Ended, HasMoved, SameData, SameTask, SameFifo
    <3> QED  BY <1>3, <2>1, <3>1, <3>2, <3>3, <3>5, <3>6, <3>7 DEF OnCourse, Underway
  <2>3. CASE ~x.req
    <3>1. RunTransfers(x) = x
      BY <2>3 DEF RunTransfers
    <3> QED  BY <1>2, <2>2, <3>1
  <2>4. CASE x.req
    <3>1. driver.stage = "sent" /\ Underway(x, driver.job, driver.jobs, driver.before)
      BY <1>2, <2>2, <2>4 DEF OnCourse, Quiescent
    <3>2. Due(x, driver.job, driver.jobs, driver.before)
      BY <2>4, <3>1 DEF Underway, Loading, Ended, Quiescent
    <3>3. /\ driver.job \in Jobs /\ driver.jobs \in Nat /\ driver.before \in Before
      BY <1>1 DEF DriverRecord
    <3>4. Underway(RunTransfers(x), driver.job, driver.jobs, driver.before)
      BY <1>3, <3>2, <3>3, Transferred
    <3>5. x.cmd = "format" => x.formats >= 1
      BY <3>2 DEF Due, AtWork
    <3>6. Fresh(RunTransfers(x))
      BY <1>3, <2>2, <3>5, FreshKept DEF OnCourse
    <3> QED  BY <1>2, <3>1, <3>4, <3>6 DEF OnCourse
  <2> QED  BY <2>3, <2>4
<1> QED  BY <1>1, <1>2, <1>4, <1>5, <1>6, InvKeptAt

LEMMA WriteCommandByteKeeps ==
    ASSUME Inv, WriteCommandByte
    PROVE  Inv'
<1> DEFINE j == driver.job
           n == driver.jobs
           b == driver.before
           p == fdc.pos + 1
           c == IF fdc.pos = 0 THEN j.op ELSE fdc.cmd
           f == [fdc EXCEPT !.pos = p, !.cmd = c]
           last == driver.bytes + 1 = CommandSize[driver.job.op]
           waits == driver.job.op # "configure" /\ ~(driver.job.op = "calibrate" /\ fuse.polls)
           s == CASE last /\ waits -> "sent"
                  [] last /\ ~waits -> "idle"
                  [] OTHER -> driver.stage
<1>1. fdc \in Controller /\ driver \in DriverRecord /\ Fifo(fdc) /\ InStep(fdc, driver)
  BY DEF Inv, Types
<1>2. /\ driver.stage = "ready" /\ "rqm" \in fdc.msr /\ "dio" \notin fdc.msr
      /\ fdc' = WriteFifo(fdc, j, n)
      /\ driver' = [driver EXCEPT !.bytes = driver.bytes + 1, !.stage = s]
      /\ UNCHANGED fuse
  BY DEF WriteCommandByte
<1>3. /\ j \in Jobs /\ j.op \in Ops /\ n \in Nat /\ b \in Before /\ driver.bytes \in Nat
      /\ fdc.pos \in Nat /\ fdc.size \in Nat
  BY <1>1, JobIs, SMTT(40) DEF DriverRecord, Controller
<1>4. /\ fdc.pos = driver.bytes /\ fdc.pos <= fdc.size /\ (fdc.pos = 0 <=> fdc.size = 0)
      /\ fdc.pos > 0 => fdc.cmd = j.op /\ fdc.pos < fdc.size /\ fdc.size = CommandSize[j.op]
                        /\ j.op \in LongCommands
  BY <1>1, <1>2, <1>3 DEF InStep, Fifo
<1>5. c = j.op
  BY <1>3, <1>4
<1> HIDE DEF c
<1>6. /\ f \in Controller /\ f.pos = p /\ f.cmd = j.op /\ f.size = fdc.size /\ f.msr = fdc.msr
      /\ f.slot = fdc.slot /\ f.req = fdc.req /\ f.fatal = fdc.fatal /\ f.fpos = fdc.fpos
      /\ f.formats = fdc.formats /\ f.left = fdc.left
  <2>1. p \in Nat
    BY <1>3
  <2>2. f \in Controller
    BY <1>1, <1>3, <1>5, <2>1, ZenonT(60) DEF Controller
  <2> QED  BY <1>1, <1>5, <2>2 DEF Controller
<1>7. SameChannel(fdc, f) /\ SameData(fdc, f)
  BY <1>1 DEF Controller, SameChannel, SameData
<1>8. /\ p = fdc.size => fdc' = Execute(f, j, n)
      /\ p # fdc.size /\ fdc.size = 0 => fdc' = BeginCommand(f, j.op)
      /\ p # fdc.size /\ fdc.size # 0 => fdc' = f
  <2>1. WriteFifo(fdc, j, n) =
          CASE f.pos = fdc.size -> Execute(f, j, n)
            [] fdc.size = 0 -> BeginCommand(f, j.op)
            [] OTHER -> f
    BY DEF WriteFifo, c
  <2> HIDE DEF f
  <2>2. f.pos = fdc.size => fdc.size # 0
    BY <1>3, <1>6
  <2> QED  BY <1>2, <1>6, <2>1, <2>2
<1> HIDE DEF f
<1>9. s \in {"idle", "ready", "sent"}
  BY <1>2
<1>10. driver' \in DriverRecord
  <2>1. driver.bytes + 1 \in Nat
    BY <1>3
  <2> HIDE DEF s
  <2> QED  BY <1>1, <1>2, <1>9, <2>1 DEF DriverRecord
<1>11. /\ driver'.stage = s /\ driver'.job = j /\ driver'.jobs = n /\ driver'.before = b
       /\ driver'.bytes = p /\ driver'.disturbed = driver.disturbed
  <2> HIDE DEF s
  <2> QED  BY <1>1, <1>2, <1>4 DEF DriverRecord
<1>12. ASSUME ~driver.disturbed
       PROVE  /\ Given(f, j, b)
  <2>1. OnCourse(fdc, driver)
    BY <1>12 DEF Inv
  <2>2. Fresh(f) /\ Quiescent(f) /\ "dio" \notin f.msr
    BY <1>2, <1>6, <2>1 DEF OnCourse, Fresh, Quiescent
  <2>3. j.op \in Transfers => Set(f, j) /\ Headed(f, j)
    BY <1>2, <1>7, <2>1 DEF OnCourse, Set, Headed, SameChannel, SameData
  <2>4. Unmoved(f, b)
    BY <1>2, <1>7, <2>1 DEF OnCourse, Unmoved, SameData
  <2> QED  BY <1>6, <2>2, <2>3, <2>4 DEF Given
<1>13. CASE p = fdc.size
  <2>1. fdc' = Execute(f, j, n) /\ j.op \in LongCommands /\ last
    BY <1>3, <1>4, <1>8, <1>13
  <2>2. Fifo(f)
    BY <1>1, <1>2, <1>3, <1>4, <1>6, <1>13 DEF Fifo
  <2> DEFINE g == Execute(f, j, n)
  <2>3. /\ g \in Controller /\ Fifo(g) /\ (Fresh(f) => Fresh(g))
        /\ j.op \notin Transfers =>
             /\ g.size = 0 /\ "dio" \notin g.msr
             /\ Quiescent(f) => Quiescent(g)
        /\ j.op \in Transfers /\ Given(f, j, b) => Underway(g, j, n, b)
    <3>1. "dio" \notin f.msr
      BY <1>2, <1>6
    <3> HIDE DEF j, n, b, g
    <3> QED  BY <1>3, <1>6, <2>1, <2>2, <3>1, ExecuteIs DEF g
  <2> HIDE DEF g
  <2>4. /\ s \in {"sent", "idle"} /\ (s = "idle" => j.op \in {"configure", "calibrate"})
        /\ j.op = "configure" => s = "idle"
    BY <2>1
  <2>5. j.op \in Transfers => j.op \notin {"configure", "calibrate"}
    BY DEF Transfers
  <2>6. InStep(fdc', driver')
    BY <1>11, <2>1, <2>3, <2>4, <2>5 DEF InStep, g
  <2>7. ASSUME ~driver'.disturbed
        PROVE  OnCourse(fdc', driver')
    <3>1. Given(f, j, b) /\ Fresh(f) /\ Quiescent(f)
      BY <1>11, <1>12, <2>7 DEF Given
    <3>2. CASE j.op \in Transfers
      BY <1>11, <2>1, <2>3, <2>4, <2>5, <3>1, <3>2 DEF OnCourse, g
    <3>3. CASE j.op \notin Transfers
      <4>1. Ended(g, j, n, b)
        BY <2>3, <3>1, <3>3 DEF Ended
      <4> QED  BY <1>11, <2>1, <2>3, <2>4, <3>1, <3>3, <4>1 DEF OnCourse, Underway, g
    <3> QED  BY <3>2, <3>3
  <2> QED  BY <1>2, <1>10, <2>1, <2>3, <2>6, <2>7, InvKeptAt DEF g
<1>14. CASE p # fdc.size /\ fdc.size = 0
  <2>1. fdc' = BeginCommand(f, j.op) /\ fdc.pos = 0 /\ p = 1
    BY <1>3, <1>4, <1>8, <1>14
  <2> DEFINE g == BeginCommand(f, j.op)
  <2>2. /\ g \in Controller /\ Fifo(g) /\ (Fresh(f) => Fresh(g))
        /\ Quiescent(f) => Quiescent(g)
        /\ j.op \in {"sense", "version"} => g.size = 0 /\ g.left # 7
        /\ j.op \in LongCommands =>
             /\ g.pos = 1 /\ g.cmd = j.op /\ g.pos < g.size /\ g.msr = f.msr
             /\ SameChannel(f, g) /\ SameData(f, g)
    <3>1. f.pos = 1 /\ f.size = 0 /\ f.cmd = j.op /\ "dio" \notin f.msr
      BY <1>2, <1>6, <1>14, <2>1
    <3> DEFINE op == j.op
    <3>2. op \in Ops /\ f.cmd = op
      BY <1>3, <3>1
    <3> HIDE DEF op, g
    <3> QED  BY <1>6, <3>1, <3>2, BeginCommandIs DEF g, op
  <2> HIDE DEF g
  <2>3. CASE j.op \in {"sense", "version"}
    <3>1. s = "sent"
      <4>1. CommandSize[j.op] = 1
        BY <2>3 DEF CommandSize
      <4> QED  BY <1>4, <2>1, <2>3, <4>1
    <3>2. InStep(fdc', driver')
      BY <1>11, <2>1, <2>2, <2>3, <3>1 DEF InStep, g
    <3>3. ASSUME ~driver'.disturbed
          PROVE  OnCourse(fdc', driver')
      <4>1. Fresh(g) /\ Quiescent(g)
        BY <1>11, <1>12, <2>2, <3>3 DEF Given
      <4>2. Ended(g, j, n, b)
        BY <2>2, <2>3, <4>1 DEF Ended
      <4> QED  BY <1>11, <2>1, <3>1, <4>1, <4>2 DEF OnCourse, Underway, g
    <3> QED  BY <1>2, <1>10, <2>1, <2>2, <3>2, <3>3, InvKeptAt DEF g
  <2>4. CASE j.op \in LongCommands
    <3>1. s = "ready"
      <4>1. j.op \in {"read", "write", "format", "calibrate", "configure"}
        BY <2>4 DEF LongCommands, Ops
      <4>2. CommandSize[j.op] # 1
        BY <4>1 DEF CommandSize
      <4> QED  BY <1>2, <1>4, <2>1, <4>2
    <3>2. InStep(fdc', driver')
      BY <1>11, <2>1, <2>2, <2>4, <3>1 DEF InStep, g
    <3>3. ASSUME ~driver'.disturbed
          PROVE  OnCourse(fdc', driver')
      <4>1. Given(f, j, b) /\ Fresh(g) /\ Quiescent(g) /\ "dio" \notin g.msr
        BY <1>11, <1>12, <2>2, <2>4, <3>3 DEF Given
      <4>2. j.op \in Transfers => Set(g, j) /\ Headed(g, j)
        BY <2>2, <2>4, <4>1 DEF Given, Set, Headed, SameChannel, SameData
      <4>3. Unmoved(g, b)
        BY <2>2, <2>4, <4>1 DEF Given, Unmoved, SameData
      <4> QED  BY <1>11, <2>1, <3>1, <4>1, <4>2, <4>3 DEF OnCourse, g
    <3> QED  BY <1>2, <1>10, <2>1, <2>2, <3>2, <3>3, InvKeptAt DEF g
  <2> QED  BY <1>3, <2>3, <2>4 DEF LongCommands
<1>15. CASE p # fdc.size /\ fdc.size # 0
  <2>1. fdc' = f /\ fdc.pos > 0 /\ p < fdc.size
    BY <1>3, <1>4, <1>8, <1>15
  <2>2. s = "ready"
    BY <1>2, <1>3, <1>4, <2>1
  <2>3. Fifo(f)
    BY <1>1, <1>2, <1>3, <1>4, <1>6, <2>1 DEF Fifo
  <2>4. InStep(fdc', driver')
    BY <1>6, <1>11, <2>1, <2>2 DEF InStep
  <2>5. ASSUME ~driver'.disturbed
        PROVE  OnCourse(fdc', driver')
    <3>1. Given(f, j, b)
      BY <1>11, <1>12, <2>5
    <3> QED  BY <1>11, <2>1, <2>2, <3>1 DEF OnCourse, Given
  <2> QED  BY <1>2, <1>6, <1>10, <2>1, <2>3, <2>4, <2>5, InvKeptAt
<1> QED  BY <1>13, <1>14, <1>15

LEMMA TakeIrq6Keeps ==
    ASSUME Inv, TakeIrq6
    PROVE  Inv'
<1> DEFINE s == IF driver.stage = "sent" /\ driver.job.op = "calibrate" THEN "idle" ELSE driver.stage
<1>1. fdc \in Controller /\ driver \in DriverRecord /\ Fifo(fdc) /\ InStep(fdc, driver)
  BY DEF Inv, Types
<1>2. /\ fdc' = [fdc EXCEPT !.irr = FALSE] /\ UNCHANGED fuse
      /\ driver' = [driver EXCEPT !.seen = TRUE, !.stage = s]
  BY DEF TakeIrq6
<1>3. s \in {"idle", "ready", "sent"}
  BY <1>1 DEF DriverRecord
<1> HIDE DEF s
<1>4. /\ fdc' \in Controller /\ SameFifo(fdc, fdc') /\ SameTask(fdc, fdc')
      /\ fdc'.msr = fdc.msr /\ fdc'.ok = fdc.ok /\ fdc'.lba = fdc.lba /\ fdc'.slot = fdc.slot
  <2>1. fdc' \in Controller
    BY <1>1, <1>2, ZenonT(60) DEF Controller
  <2> QED  BY <1>1, <1>2, <2>1, ZenonT(60) DEF Controller, SameFifo, SameTask
<1>5. SameChannel(fdc, fdc') /\ SameData(fdc, fdc')
  BY <1>1, <1>2 DEF Controller, SameChannel, SameData
<1>6. driver' \in DriverRecord
  BY <1>1, <1>2, <1>3 DEF DriverRecord
<1>7. /\ driver'.stage = s /\ driver'.job = driver.job /\ driver'.jobs = driver.jobs
      /\ driver'.before = driver.before /\ driver'.bytes = driver.bytes
      /\ driver'.disturbed = driver.disturbed
  BY <1>1, <1>2 DEF DriverRecord
<1>8. Fifo(fdc')
  BY <1>1, <1>4 DEF Fifo, SameFifo
<1>9. InStep(fdc', driver')
  BY <1>1, <1>4, <1>7 DEF InStep, SameFifo, s
<1>10. ASSUME ~driver'.disturbed
       PROVE  OnCourse(fdc', driver')
  <2>1. OnCourse(fdc, driver)
    BY <1>7, <1>10 DEF Inv
  <2>2. Fresh(fdc') /\ (Quiescent(fdc) => Quiescent(fdc'))
    BY <1>4, <1>5, <2>1 DEF OnCourse, Fresh, Quiescent, SameTask, SameChannel
  <2>3. CASE s = driver.stage
    <3>1. \A j : (Set(fdc, j) => Set(fdc', j)) /\ (Headed(fdc, j) => Headed(fdc', j))
      BY <1>5 DEF Set, Headed, SameData, SameChannel
    <3>2. \A b : Unmoved(fdc, b) => Unmoved(fdc', b)
      BY <1>5 DEF Unmoved, SameData
    <3>3. SameCourse(fdc, fdc')
      BY <1>4, <1>5 DEF SameCourse, SameFifo
    <3>4. \A j, n, b : Underway(fdc, j, n, b) => Underway(fdc', j, n, b)
      BY <3>3, CourseKept
    <3> QED  BY <1>4, <1>7, <2>1, <2>2, <2>3, <3>1, <3>2, <3>4 DEF OnCourse
  <2>4. CASE s # driver.stage
    <3>1. driver.stage = "sent" /\ driver.job.op = "calibrate" /\ s = "idle"
      BY <2>4 DEF s
    <3>2. Ended(fdc, driver.job, driver.jobs, driver.before)
      BY <2>1, <3>1 DEF OnCourse, Underway, Due, Loading, AtWork, Transfers
    <3>3. Quiescent(fdc) /\ "dio" \notin fdc.msr
      BY <3>1, <3>2 DEF Ended
    <3> QED  BY <1>4, <1>7, <2>2, <3>1, <3>3 DEF OnCourse
  <2> QED  BY <2>3, <2>4
<1> QED  BY <1>2, <1>4, <1>6, <1>8, <1>9, <1>10, InvKeptAt

LEMMA ReadResultByteKeeps ==
    ASSUME Inv, ReadResultByte
    PROVE  Inv'
<1> DEFINE s == IF fdc.left = 1 THEN "idle" ELSE driver.stage
           m == fdc.msr \ {"cb", "dio"}
           k == fdc.left - 1
<1>1. fdc \in Controller /\ driver \in DriverRecord /\ Fifo(fdc) /\ InStep(fdc, driver)
  BY DEF Inv, Types
<1>2. /\ driver.stage \in {"sent", "idle"} /\ "dio" \in fdc.msr /\ fdc' = ReadFifo(fdc)
      /\ driver' = [driver EXCEPT !.stage = s] /\ UNCHANGED fuse
  BY DEF ReadResultByte
<1>3. fdc.left \in 1 .. 7 /\ fdc.size = 0 /\ fdc.pos = 0 /\ k \in 0 .. 6
  BY <1>1, <1>2 DEF Fifo, Controller
<1>4. /\ fdc' \in Controller /\ fdc'.left = k /\ fdc'.ok = fdc.ok
      /\ fdc'.msr = IF fdc.left = 1 THEN m ELSE fdc.msr
      /\ fdc'.pos = fdc.pos /\ fdc'.size = fdc.size /\ fdc'.cmd = fdc.cmd
      /\ fdc'.slot = fdc.slot /\ fdc'.req = fdc.req /\ fdc'.fatal = fdc.fatal
      /\ fdc'.formats = fdc.formats /\ fdc'.fpos = fdc.fpos /\ fdc'.deferred = fdc.deferred
      /\ fdc'.content = fdc.content /\ fdc'.mem = fdc.mem
  <2>1. CASE fdc.left = 1
    <3>1. fdc' = [fdc EXCEPT !.left = 0, !.ok = fdc.ok, !.msr = m]
      BY <1>2, <2>1 DEF ReadFifo, ResetOutFifo
    <3>2. m \in SUBSET {"rqm", "cb", "dio"} /\ 0 \in 0 .. 7 /\ k = 0 /\ fdc.ok \in BOOLEAN
      BY <1>1, <2>1 DEF Controller
    <3> HIDE DEF m, k
    <3>3. fdc' \in Controller
      BY <1>1, <3>1, <3>2, ZenonT(60) DEF Controller
    <3> QED  BY <1>1, <2>1, <3>1, <3>2, <3>3 DEF Controller
  <2>2. CASE fdc.left # 1
    <3>1. fdc' = [fdc EXCEPT !.left = k]
      BY <1>2, <2>2 DEF ReadFifo
    <3>2. k \in 0 .. 7
      BY <1>3
    <3> HIDE DEF m, k
    <3>3. fdc' \in Controller
      BY <1>1, <3>1, <3>2, SMTT(40) DEF Controller
    <3> QED  BY <1>1, <2>2, <3>1, <3>3, ZenonT(60) DEF Controller
  <2> QED  BY <2>1, <2>2
<1>5. s \in {"idle", "ready", "sent"}
  BY <1>2
<1> HIDE DEF s
<1>6. driver' \in DriverRecord
  BY <1>1, <1>2, <1>5 DEF DriverRecord
<1>7. /\ driver'.stage = s /\ driver'.job = driver.job /\ driver'.jobs = driver.jobs
      /\ driver'.before = driver.before /\ driver'.bytes = driver.bytes
      /\ driver'.disturbed = driver.disturbed
  BY <1>1, <1>2 DEF DriverRecord
<1>8. Fifo(fdc')
  <2>1. CASE fdc.left = 1
    BY <1>3, <1>4, <2>1 DEF Fifo
  <2>2. CASE fdc.left # 1
    BY <1>3, <1>4, <2>2 DEF Fifo
  <2> QED  BY <2>1, <2>2
<1>9. InStep(fdc', driver')
  BY <1>1, <1>2, <1>3, <1>4, <1>7 DEF InStep, s
<1>10. ASSUME ~driver'.disturbed
       PROVE  OnCourse(fdc', driver')
  <2>1. OnCourse(fdc, driver)
    BY <1>7, <1>10 DEF Inv
  <2>2. driver.stage = "sent" /\ Ended(fdc, driver.job, driver.jobs, driver.before)
    BY <1>2, <2>1 DEF OnCourse, Underway, Due, Loading, AtWork
  <2>3. Fresh(fdc') /\ Quiescent(fdc')
    BY <1>4, <2>1, <2>2 DEF OnCourse, Fresh, Quiescent, Ended
  <2>4. CASE fdc.left = 1
    BY <1>4, <1>7, <2>3, <2>4 DEF OnCourse, s
  <2>5. CASE fdc.left # 1
    <3>1. fdc'.left # 7
      BY <1>3, <1>4
    <3>2. Ended(fdc', driver.job, driver.jobs, driver.before)
      BY <1>2, <2>2, <2>3, <3>1 DEF Ended
    <3> QED  BY <1>7, <2>2, <2>3, <2>5, <3>2 DEF OnCourse, Underway, s
  <2> QED  BY <2>4, <2>5
<1> QED  BY <1>2, <1>4, <1>6, <1>8, <1>9, <1>10, InvKeptAt

\* A job that nothing is pending for.
LEMMA NothingPending ==
    ASSUME OnCourse(fdc, driver), driver.stage \in {"ready", "sent"}, ~Pending
    PROVE  /\ Quiescent(fdc)
           /\ driver.stage = "sent" => Ended(fdc, driver.job, driver.jobs, driver.before)
BY DEF OnCourse, Underway, Due, Loading, Ended, Pending

LEMMA ResetKeeps ==
    ASSUME Inv, Reset
    PROVE  Inv'
<1> DEFINE u == driver.disturbed \/ Pending
<1>1. fdc \in Controller /\ driver \in DriverRecord /\ Fifo(fdc) /\ InStep(fdc, driver)
  BY DEF Inv, Types
<1>2. /\ driver.stage \in {"ready", "sent"} /\ fdc' = ResetController(fdc, driver.job.drive)
      /\ driver' = [driver EXCEPT !.stage = "idle", !.disturbed = u] /\ UNCHANGED fuse
  BY DEF Reset
<1>3. u \in BOOLEAN
  BY <1>1 DEF DriverRecord, Controller, Slots, Pending
<1> HIDE DEF u
<1>4. /\ fdc' \in Controller /\ fdc'.msr = {"rqm"} /\ fdc'.pos = 0 /\ fdc'.size = 0
      /\ fdc'.slot = fdc.slot /\ fdc'.req = fdc.req /\ fdc'.fatal = fdc.fatal
      /\ fdc'.fpos = fdc.fpos /\ fdc'.formats = fdc.formats
  <2>1. driver.job.drive \in Drives
    BY <1>1, JobIs DEF DriverRecord
  <2> QED  BY <1>1, <1>2, <2>1, ResetControllerIs
<1>5. driver' \in DriverRecord
  BY <1>1, <1>2, <1>3 DEF DriverRecord
<1>6. driver'.stage = "idle" /\ driver'.disturbed = u
  BY <1>1, <1>2 DEF DriverRecord
<1>7. Fifo(fdc') /\ InStep(fdc', driver')
  BY <1>4, <1>6 DEF Fifo, InStep
<1>8. ASSUME ~driver'.disturbed
      PROVE  OnCourse(fdc', driver')
  <2>1. OnCourse(fdc, driver) /\ ~Pending
    BY <1>6, <1>8 DEF Inv, u
  <2>2. Quiescent(fdc)
    BY <1>2, <2>1, NothingPending
  <2> QED  BY <1>4, <1>6, <2>1, <2>2 DEF OnCourse, Quiescent, Fresh
<1> QED  BY <1>2, <1>4, <1>5, <1>7, <1>8, InvKeptAt

LEMMA ReselectKeeps ==
    ASSUME Inv, NEW d \in Drives, Reselect(d)
    PROVE  Inv'
<1> DEFINE u == driver.disturbed \/ Pending
<1>1. fdc \in Controller /\ driver \in DriverRecord /\ Fifo(fdc) /\ InStep(fdc, driver)
  BY DEF Inv, Types
<1>2. /\ driver.stage \in {"ready", "sent"} /\ fdc' = WriteDor(fdc, d)
      /\ driver' = [driver EXCEPT !.disturbed = u] /\ UNCHANGED fuse
  BY DEF Reselect
<1>3. u \in BOOLEAN
  BY <1>1 DEF DriverRecord, Controller, Slots, Pending
<1> HIDE DEF u
<1>4. SelectedIs(fdc, fdc', d)
  BY <1>1, <1>2, WriteDorIs
<1>5. driver' \in DriverRecord
  BY <1>1, <1>2, <1>3 DEF DriverRecord
<1>6. /\ driver'.stage = driver.stage /\ driver'.job = driver.job /\ driver'.jobs = driver.jobs
      /\ driver'.before = driver.before /\ driver'.bytes = driver.bytes
      /\ driver'.disturbed = u
  BY <1>1, <1>2 DEF DriverRecord
<1>7. Fifo(fdc') /\ InStep(fdc', driver')
  <2>1. Fifo(fdc')
    BY <1>1, <1>4 DEF Fifo, SelectedIs, SameFifo
  <2>2. InStep(fdc', driver')
    BY <1>1, <1>4, <1>6 DEF InStep, SelectedIs, SameFifo
  <2> QED  BY <2>1, <2>2
<1>8. ASSUME ~driver'.disturbed
      PROVE  OnCourse(fdc', driver')
  <2>1. OnCourse(fdc, driver) /\ ~Pending
    BY <1>6, <1>8 DEF Inv, u
  <2>2. /\ Quiescent(fdc)
        /\ driver.stage = "sent" => Ended(fdc, driver.job, driver.jobs, driver.before)
    BY <1>2, <2>1, NothingPending
  <2>3. Quiescent(fdc') /\ Fresh(fdc') /\ fdc'.msr = fdc.msr
    BY <1>4, <2>1, <2>2 DEF OnCourse, Quiescent, Fresh, SelectedIs, SameChannel
  <2>4. CASE driver.stage = "ready"
    <3>1. \A j : (Set(fdc, j) => Set(fdc', j)) /\ (Headed(fdc, j) => Headed(fdc', j))
      BY <1>4 DEF Set, Headed, SelectedIs, SameData, SameChannel
    <3>2. Unmoved(fdc, driver.before) => Unmoved(fdc', driver.before)
      BY <1>4 DEF Unmoved, SelectedIs, SameData
    <3> QED  BY <1>6, <2>1, <2>3, <2>4, <3>1, <3>2 DEF OnCourse
  <2>5. CASE driver.stage = "sent"
    <3>1. fdc'.left = fdc.left
      BY <1>4 DEF SelectedIs, SameFifo
    <3>2. Ended(fdc', driver.job, driver.jobs, driver.before)
      <4>1. fdc'.ok = fdc.ok
        BY <1>1, <1>2 DEF WriteDor, LowerIrq6, Controller
      <4>2. HasMoved(fdc, driver.job, driver.jobs, driver.before)
              => HasMoved(fdc', driver.job, driver.jobs, driver.before)
        BY <1>4 DEF HasMoved, SelectedIs, SameData
      <4> QED  BY <2>2, <2>3, <2>5, <3>1, <4>1, <4>2 DEF Ended
    <3> QED  BY <1>6, <2>3, <2>5, <3>2 DEF OnCourse, Underway
  <2> QED  BY <1>2, <2>4, <2>5
<1> QED  BY <1>2, <1>4, <1>5, <1>7, <1>8, InvKeptAt DEF SelectedIs

\* The slot is released.
LEMMA ReleasedIs ==
    ASSUME NEW f \in Controller
    PROVE  LET g == [f EXCEPT !.slot.busy = FALSE]
           IN  /\ g \in Controller /\ SameFifo(f, g) /\ g.msr = f.msr /\ g.ok = f.ok
               /\ g.lba = f.lba /\ ~g.slot.busy
               /\ SameTask(f, g) /\ SameChannel(f, g) /\ SameData(f, g)
<1> DEFINE r == [f.slot EXCEPT !.busy = FALSE]
           g == [f EXCEPT !.slot = r]
<1>1. r \in Slots /\ ~r.busy
  <2>1. f.slot \in Slots
    BY DEF Controller
  <2> QED  BY <2>1 DEF Slots
<1>2. [f EXCEPT !.slot.busy = FALSE] = g
  OBVIOUS
<1> HIDE DEF r
<1>3. g \in Controller /\ g.slot = r
  BY <1>1 DEF Controller
<1>4. /\ SameFifo(f, g) /\ g.msr = f.msr /\ g.ok = f.ok /\ g.lba = f.lba
      /\ SameTask(f, g) /\ SameChannel(f, g) /\ SameData(f, g)
  BY DEF Controller, SameFifo, SameTask, SameChannel, SameData
<1> QED  BY <1>1, <1>2, <1>3, <1>4

\* What is left to do when the blocks are there.
LEMMA SecondPassIs ==
    ASSUME NEW f \in Controller, NEW v \in Cells
    PROVE  LET g == SecondPass(f, v)
           IN  /\ g \in Controller /\ FifoStep(f, g)
               /\ \A j \in Jobs, n \in Nat, b \in Before :
                    Fresh(f) /\ Loading(f, j, n, b) =>
                      /\ Fresh(g)
                      /\ Underway([g EXCEPT !.slot.busy = FALSE], j, n, b)
<1> DEFINE s == f.slot
           S == Touched(s.first, s.count)
           g == SecondPass(f, v)
           z == [g EXCEPT !.slot.busy = FALSE]
<1>1. /\ s.op \in Transfers /\ s.drive \in Drives /\ s.first \in Sectors
      /\ s.count \in 0 .. TrackSectors
  <2>1. s \in Slots
    BY DEF Controller
  <2> QED  BY <2>1 DEF Slots
<1>2. /\ S \in SUBSET Sectors
      /\ \A k \in S : k - s.first \in 0 .. TrackSectors - 1
  BY <1>1, TouchedIs
<1>3. /\ s.op = "read" => g = RaiseDreq(CopiedIn(f, s.drive, s.first, S))
      /\ s.op = "write" => g = Done(CopiedOut(f, s.drive, s.first, S))
      /\ s.op = "format" => g = HandleFormat([f EXCEPT !.content[s.drive][s.first] = v])
  BY DEF SecondPass
<1> HIDE DEF g
<1>4. g \in Controller =>
        /\ SameFifo(g, z) /\ z.msr = g.msr /\ z.ok = g.ok /\ z.lba = g.lba /\ ~z.slot.busy
        /\ SameTask(g, z) /\ SameChannel(g, z) /\ SameData(g, z) /\ z \in Controller
  BY ReleasedIs
<1> HIDE DEF z
<1>5. CASE s.op = "read"
  <2> DEFINE x == CopiedIn(f, s.drive, s.first, S)
             r == [x EXCEPT !.req = TRUE]
  <2>1. /\ x \in Controller /\ SameFifo(f, x) /\ x.msr = f.msr /\ x.lba = f.lba
        /\ x.slot = f.slot /\ SameTask(f, x) /\ SameChannel(f, x)
        /\ x.content = f.content /\ x.mem = f.mem
        /\ \A i \in 0 .. TrackSectors - 1 :
             s.first + i \in S => x.buf[i] = f.content[s.drive][s.first + i]
    <3> HIDE DEF s, S
    <3> QED  BY <1>1, <1>2, CopiedInIs
  <2> HIDE DEF x
  <2>2. g = RaiseDreq(x) /\ RaiseDreq(x) = RunTransfers(r)
    BY <1>3, <1>5 DEF RaiseDreq, x
  <2>3. g \in Controller /\ FifoStep(x, g)
    BY <2>1, <2>2, RaiseDreqIs
  <2>4. FifoStep(f, g)
    BY <2>1, <2>3 DEF FifoStep, SameFifo
  <2>5. /\ r \in Controller /\ SameFifo(x, r) /\ r.msr = x.msr /\ r.lba = x.lba
        /\ r.slot = x.slot /\ SameTask(x, r) /\ SameData(x, r)
        /\ r.req /\ r.masked = x.masked /\ r.toMem = x.toMem /\ r.addr = x.addr
        /\ r.count = x.count
    BY <2>1, RequestedIs
  <2> HIDE DEF r
  <2>6. ASSUME NEW j \in Jobs, NEW n \in Nat, NEW b \in Before, Fresh(f), Loading(f, j, n, b)
        PROVE  Fresh(g) /\ Underway(z, j, n, b)
    <3>1. /\ j.op = "read" /\ ~Refused(j) /\ j.op \in Transfers /\ f.cmd = "read"
          /\ f.sel = j.drive /\ "dio" \notin f.msr /\ ~f.fatal /\ ~f.req
          /\ s.drive = j.drive /\ s.first = j.first /\ s.count = j.count
          /\ Set(f, j) /\ Unmoved(f, b)
      BY <1>5, <2>6 DEF Loading, AtWork
    <3>2. Fresh(r) /\ r.cmd = "read"
      BY <2>1, <2>5, <2>6, <3>1 DEF Fresh, SameTask
    <3>3. Fresh(g)
      BY <2>2, <2>5, <3>2, FreshKept
    <3>4. Set(r, j) /\ Unmoved(r, b)
      BY <2>1, <2>5, <3>1 DEF Set, Unmoved, SameChannel, SameData
    <3>5. \A i \in 0 .. j.count - 1 : r.buf[i] = b.content[j.drive][j.first + i]
      <4>1. ASSUME NEW i \in 0 .. j.count - 1
            PROVE  i \in 0 .. TrackSectors - 1 /\ s.first + i \in S
        <5>1. /\ j.first + i \in Sectors /\ j.first \in Sectors
              /\ j.count \in 1 .. TrackSectors
          BY JobIs
        <5> QED  BY <3>1, <5>1, Constants DEF Touched, Sectors
      <4> HIDE DEF S
      <4> QED  BY <2>1, <2>5, <3>1, <4>1 DEF Unmoved, SameData
    <3>6. ReadDue(r, j, b)
      BY <2>5, <3>1, <3>2, <3>4, <3>5 DEF ReadDue
    <3>7. CASE ~r.masked
      <4>1. Succeeds(r, g, j, n, b)
        BY <2>2, <2>5, <3>6, <3>7, ReadTransferred
      <4>2. HasMoved(z, j, n, b)
        BY <1>4, <2>3, <4>1 DEF Succeeds, HasMoved, SameData, SameTask
      <4>3. r.fatal = FALSE
        BY <2>1, <2>5, <3>1 DEF SameTask, Controller
      <4>4. Quiescent(z)
        BY <1>4, <2>3, <4>1, <4>3 DEF Succeeds, Quiescent, SameTask, SameChannel
      <4>5. Ended(z, j, n, b)
        BY <1>4, <2>3, <3>1, <4>1, <4>2, <4>4 DEF Succeeds, Ended, SameFifo
      <4> QED  BY <3>3, <4>5 DEF Underway
    <3>8. CASE r.masked
      <4>1. g = r
        BY <2>2, <3>8 DEF RunTransfers
      <4>2. AtWork(z, j) /\ z.req /\ ~z.slot.busy
        BY <1>4, <2>1, <2>3, <2>5, <3>1, <4>1 DEF AtWork, SameTask, SameChannel
      <4>3. Set(z, j) /\ Unmoved(z, b)
        BY <1>4, <2>3, <3>4, <4>1 DEF Set, Unmoved, SameChannel, SameData
      <4>4. \A i \in 0 .. j.count - 1 : z.buf[i] = b.content[j.drive][j.first + i]
        BY <1>4, <2>3, <3>5, <4>1 DEF SameData
      <4>5. Due(z, j, n, b)
        BY <3>1, <4>2, <4>3, <4>4 DEF Due, Headed
      <4> QED  BY <3>3, <4>5 DEF Underway
    <3> QED  BY <3>7, <3>8
  <2> QED  BY <2>3, <2>4, <2>6 DEF g, z
<1>6. CASE s.op = "write"
  <2> DEFINE x == CopiedOut(f, s.drive, s.first, S)
  <2>1. /\ x \in Controller /\ SameFifo(f, x) /\ x.msr = f.msr /\ x.lba = f.lba
        /\ x.slot = f.slot /\ SameTask(f, x) /\ SameChannel(f, x)
        /\ x.buf = f.buf /\ x.mem = f.mem
        /\ x.content = [f.content EXCEPT ![s.drive] =
             [k \in Sectors |-> IF k \in S THEN f.buf[k - s.first] ELSE f.content[s.drive][k]]]
    <3> HIDE DEF s, S
    <3> QED  BY <1>1, <1>2, CopiedOutIs
  <2>2. g = Done(x)
    BY <1>3, <1>6
  <2> HIDE DEF x
  <2>3. /\ g \in Controller /\ Answers(g) /\ g.ok = TRUE /\ g.lba = x.lba /\ g.slot = x.slot
        /\ SameTask(x, g) /\ SameChannel(x, g) /\ SameData(x, g)
    BY <2>1, <2>2, DoneIs
  <2>4. FifoStep(f, g)
    BY <2>3 DEF FifoStep
  <2>5. ASSUME NEW j \in Jobs, NEW n \in Nat, NEW b \in Before, Fresh(f), Loading(f, j, n, b)
        PROVE  Fresh(g) /\ Underway(z, j, n, b)
    <3>1. Fresh(g)
      BY <2>1, <2>3, <2>5 DEF Fresh, SameTask
    <3>2. /\ j.op = "write" /\ ~Refused(j) /\ j.op \in Transfers /\ ~f.fatal /\ ~f.req
          /\ s.drive = j.drive /\ s.first = j.first /\ s.count = j.count
          /\ f.mem = b.mem /\ \A i \in 0 .. j.count - 1 : f.buf[i] = b.mem[i]
          /\ \A d \in Drives, k \in Sectors :
               d # j.drive \/ k \notin S => f.content[d][k] = b.content[d][k]
      BY <1>6, <2>5 DEF Loading, AtWork
    <3>3. \A k \in S : k - s.first \in 0 .. j.count - 1
      <4>1. j.count \in 0 .. TrackSectors /\ j.first \in Sectors
        BY JobIs, Constants
      <4> QED  BY <3>2, <4>1, Constants DEF Touched, Sectors
    <3>4. x.content = WrittenFrom(j, b)
      <4> DEFINE X == [k \in Sectors |-> IF k \in S THEN f.buf[k - s.first]
                                         ELSE f.content[s.drive][k]]
                 B == [k \in Sectors |-> IF k \in S THEN b.mem[k - j.first]
                                         ELSE b.content[j.drive][k]]
      <4>1. X = B
        <5> HIDE DEF S
        <5>1. ASSUME NEW k \in Sectors
              PROVE  (IF k \in S THEN f.buf[k - s.first] ELSE f.content[s.drive][k])
                       = (IF k \in S THEN b.mem[k - j.first] ELSE b.content[j.drive][k])
          BY <1>1, <3>2, <3>3
        <5> QED  BY <5>1
      <4>2. x.content = [f.content EXCEPT ![j.drive] = B]
        BY <2>1, <3>2, <4>1
      <4>3. WrittenFrom(j, b) = [b.content EXCEPT ![j.drive] = B]
        BY <3>2 DEF WrittenFrom
      <4> HIDE DEF X, B, S
      <4>4. /\ f.content \in [Drives -> [Sectors -> Cells]]
            /\ b.content \in [Drives -> [Sectors -> Cells]]
        BY DEF Controller, Contents, Before
      <4>5. \A d \in Drives : d # j.drive => f.content[d] = b.content[d]
        BY <3>2, <4>4
      <4> QED  BY <4>2, <4>3, <4>4, <4>5
    <3>5. z.content = WrittenFrom(j, b) /\ z.mem = b.mem
      BY <1>4, <2>1, <2>3, <3>2, <3>4 DEF SameData
    <3>6. HasMoved(z, j, n, b)
      BY <3>2, <3>5, WishedIs DEF HasMoved
    <3>7. Quiescent(z)
      BY <1>4, <2>1, <2>3, <3>2 DEF Quiescent, SameTask, SameChannel
    <3>8. Ended(z, j, n, b)
      BY <1>4, <2>3, <3>2, <3>6, <3>7 DEF Ended
    <3> QED  BY <3>1, <3>8 DEF Underway
  <2> QED  BY <2>3, <2>4, <2>5 DEF g, z
<1>7. CASE s.op = "format"
  <2> DEFINE x == [f EXCEPT !.content[s.drive][s.first] = v]
             C == [f.content EXCEPT ![s.drive] = [@ EXCEPT ![s.first] = v]]
  <2>1. C \in Contents
    <3>1. f.content \in [Drives -> [Sectors -> Cells]]
      BY DEF Controller, Contents
    <3>2. [f.content[s.drive] EXCEPT ![s.first] = v] \in [Sectors -> Cells]
      BY <1>1, <3>1
    <3> QED  BY <1>1, <3>1, <3>2 DEF Contents
  <2>2. x = [f EXCEPT !.content = C]
    OBVIOUS
  <2>3. g = HandleFormat(x)
    BY <1>3, <1>7
  <2> HIDE DEF C, x
  <2>4. /\ x \in Controller /\ SameFifo(f, x) /\ x.msr = f.msr /\ x.slot = f.slot
        /\ SameTask(f, x) /\ x.buf = f.buf
    <3>1. x \in Controller
      BY <2>1, <2>2, SMTT(40) DEF Controller
    <3> QED  BY <2>2, <3>1, ZenonT(60) DEF Controller, SameFifo, SameTask
  <2>5. SameChannel(f, x)
    BY <2>2 DEF Controller, SameChannel
  <2>6. /\ g \in Controller /\ FifoStep(x, g) /\ SameChannel(x, g)
        /\ g.formats = x.formats
        /\ AllHeaders(x) => FormatStep(x, g)
    BY <2>3, <2>4, HandleFormatIs
  <2>7. FifoStep(f, g)
    BY <2>4, <2>6 DEF FifoStep, SameFifo
  <2>8. ASSUME NEW j \in Jobs, NEW n \in Nat, NEW b \in Before, Fresh(f), Loading(f, j, n, b)
        PROVE  Fresh(g) /\ Underway(z, j, n, b)
    <3>1. /\ j.op = "format" /\ ~Refused(j) /\ j.op \in Transfers /\ ~f.fatal /\ ~f.req
          /\ f.deferred /\ f.formats >= 1
          /\ \A i \in f.fpos .. f.fend - 1 : f.buf[i][1] = "header"
      BY <1>7, <2>8 DEF Loading, AtWork
    <3>2. Fresh(g)
      BY <2>4, <2>6, <3>1 DEF Fresh, SameTask
    <3>3. AllHeaders(x)
      BY <2>4, <3>1 DEF AllHeaders, ToFormat, SameTask
    <3>4. /\ g.fatal = f.fatal /\ g.deferred = TRUE
          /\ \/ g.msr = {"cb"}
             \/ Answers(g) /\ g.ok = TRUE
      BY <2>4, <2>6, <3>1, <3>3, ZenonT(60) DEF FormatStep, SameTask, Controller
    <3>5. Quiescent(z)
      BY <1>4, <2>5, <2>6, <3>1, <3>4 DEF Quiescent, SameTask, SameChannel
    <3>6. HasMoved(z, j, n, b)
      BY <1>4, <2>6, <3>1, <3>4 DEF HasMoved, SameTask
    <3>7. Ended(z, j, n, b)
      <4>1. CASE g.msr = {"cb"}
        <5>1. "dio" \notin z.msr
          BY <1>4, <2>6, <4>1
        <5> QED  BY <3>5, <5>1 DEF Ended
      <4>2. CASE g.ok = TRUE
        <5>1. z.ok = TRUE
          BY <1>4, <2>6, <4>2
        <5> QED  BY <3>1, <3>5, <3>6, <5>1 DEF Ended
      <4> QED  BY <3>4, <4>1, <4>2
    <3> QED  BY <3>2, <3>7 DEF Underway
  <2> QED  BY <2>6, <2>7, <2>8 DEF g, z
<1> QED  BY <1>1, <1>5, <1>6, <1>7 DEF Transfers

LEMMA CompleteKeeps ==
    ASSUME Inv, Complete
    PROVE  Inv'
<1>1. fdc \in Controller /\ driver \in DriverRecord /\ Fifo(fdc) /\ InStep(fdc, driver)
  BY DEF Inv, Types
<1>2. /\ fdc.slot.busy /\ driver' = driver /\ UNCHANGED fuse
      /\ \E v \in {fdc.fill, Junk} : fdc' = [SecondPass(fdc, v) EXCEPT !.slot.busy = FALSE]
  BY DEF Complete
<1>3. PICK v \in {fdc.fill, Junk} : fdc' = [SecondPass(fdc, v) EXCEPT !.slot.busy = FALSE]
  BY <1>2
<1>4. v \in Cells
  BY <1>1, OthersAreCells DEF Controller
<1> DEFINE g == SecondPass(fdc, v)
<1>5. /\ g \in Controller /\ FifoStep(fdc, g)
      /\ \A j \in Jobs, n \in Nat, b \in Before :
           Fresh(fdc) /\ Loading(fdc, j, n, b) =>
             /\ Fresh(g)
             /\ Underway([g EXCEPT !.slot.busy = FALSE], j, n, b)
  BY <1>1, <1>4, SecondPassIs
<1> HIDE DEF g
<1>6. /\ fdc' \in Controller /\ SameFifo(g, fdc') /\ fdc'.msr = g.msr /\ SameTask(g, fdc')
  BY <1>3, <1>5, ReleasedIs DEF g
<1>7. FifoStep(fdc, fdc')
  BY <1>5, <1>6 DEF FifoStep, SameFifo, Answers
<1>8. Fifo(fdc') /\ InStep(fdc', driver')
  BY <1>1, <1>2, <1>7, FifoKept
<1>9. ASSUME ~driver'.disturbed
      PROVE  OnCourse(fdc', driver')
  <2>1. OnCourse(fdc, driver)
    BY <1>2, <1>9 DEF Inv
  <2>2. driver.stage \in {"idle", "ready", "sent"}
    BY <1>1 DEF DriverRecord
  <2>3. driver.stage = "sent" /\ Loading(fdc, driver.job, driver.jobs, driver.before)
    BY <1>2, <2>1, <2>2 DEF OnCourse, Underway, Due, Ended, Quiescent
  <2>4. driver.job \in Jobs /\ driver.jobs \in Nat /\ driver.before \in Before
    BY <1>1 DEF DriverRecord
  <2>5. Fresh(g) /\ Underway(fdc', driver.job, driver.jobs, driver.before)
    BY <1>3, <1>5, <2>1, <2>3, <2>4 DEF OnCourse, g
  <2>6. Fresh(fdc')
    BY <1>6, <2>5 DEF Fresh, SameTask
  <2> QED  BY <1>2, <2>3, <2>5, <2>6 DEF OnCourse
<1> QED  BY <1>1, <1>2, <1>6, <1>8, <1>9, InvKeptAt

LEMMA InvAtFirst == FdcInit => Inv
<1> SUFFICES ASSUME FdcInit  PROVE  Inv
  OBVIOUS
<1>1. 0 \in Sectors /\ 0 \in Drives /\ 0 \in 0 .. TrackSectors /\ 1 \in 1 .. TrackSectors
      /\ 1 \in 0 .. TrackSectors
  BY Constants DEF Sectors, Drives
<1>2. Jobs # {}
  <2> DEFINE j == [op |-> "read", drive |-> 0, first |-> 0, count |-> 1, bad |-> FALSE]
  <2>1. j.first + j.count - 1 \in Sectors
    BY <1>1
  <2>2. j \in [op : Ops, drive : Drives, first : Sectors, count : 1 .. TrackSectors, bad : BOOLEAN]
    BY <1>1 DEF Ops
  <2>3. j.op = "format" => j.count = TrackSectors
    OBVIOUS
  <2> HIDE DEF j
  <2>4. j \in Jobs
    BY <2>1, <2>2, <2>3 DEF Jobs
  <2> QED  BY <2>4
<1> DEFINE at == [d \in Drives |-> 0]
           buf == [i \in 0 .. TrackSectors - 1 |-> Junk]
           mem == [a \in 0 .. TrackSectors |-> Junk]
           content == [d \in Drives |-> [s \in Sectors |-> <<"image", d, s>>]]
           cached == [d \in Drives |-> {}]
           slot == [busy |-> FALSE, op |-> "read", drive |-> 0, first |-> 0, count |-> 1]
           job == CHOOSE j \in Jobs : TRUE
           before == [content |-> fdc.content, mem |-> fdc.mem]
<1>3. /\ fuse \in FdcUses
      /\ fdc = [sel |-> 0, msr |-> {"rqm"}, cmd |-> "none", pos |-> 0, size |-> 0, left |-> 0,
                ok |-> TRUE, at |-> at, lba |-> at,
                wlen |-> 0, fpos |-> 0, fend |-> 0, fill |-> Junk,
                buf |-> buf, line |-> FALSE, irr |-> FALSE,
                masked |-> TRUE, req |-> FALSE, toMem |-> FALSE, addr |-> 0, count |-> 0,
                mem |-> mem, content |-> content, cached |-> cached, slot |-> slot,
                fatal |-> FALSE, formats |-> 0, deferred |-> FALSE]
      /\ driver = [stage |-> "idle", job |-> job, bytes |-> 0, seen |-> FALSE,
                   jobs |-> 0, disturbed |-> FALSE, before |-> before]
  BY DEF FdcInit
<1>4. /\ at \in [Drives -> Sectors] /\ buf \in [0 .. TrackSectors - 1 -> Cells] /\ mem \in Memory
      /\ content \in Contents /\ cached \in [Drives -> SUBSET Nat]
  <2>1. at \in [Drives -> Sectors]
    BY <1>1
  <2>2. buf \in [0 .. TrackSectors - 1 -> Cells] /\ mem \in Memory
    BY OthersAreCells DEF Memory
  <2>3. content \in Contents
    BY OthersAreCells DEF Contents
  <2>4. cached \in [Drives -> SUBSET Nat]
    OBVIOUS
  <2> QED  BY <2>1, <2>2, <2>3, <2>4
<1>5. slot \in Slots /\ ~slot.busy
  BY <1>1 DEF Slots, Transfers
<1>6. job \in Jobs
  BY <1>2
<1> HIDE DEF at, buf, mem, content, cached, slot, job
<1>7. fdc \in Controller
  <2>1. /\ {"rqm"} \in SUBSET {"rqm", "cb", "dio"} /\ "none" \in Ops \cup {"none"}
        /\ 0 \in Nat /\ 0 \in 0 .. 9 /\ 0 \in 0 .. 7 /\ TRUE \in BOOLEAN /\ FALSE \in BOOLEAN
    OBVIOUS
  <2> QED  BY <1>1, <1>3, <1>4, <1>5, <2>1, OthersAreCells DEF Controller
<1>8. before \in Before
  BY <1>7 DEF Before, Controller
<1> HIDE DEF before
<1>9. driver \in DriverRecord
  <2>1. 0 \in Nat /\ FALSE \in BOOLEAN
    OBVIOUS
  <2> QED  BY <1>3, <1>6, <1>8, <2>1 DEF DriverRecord
<1>10. Fifo(fdc) /\ InStep(fdc, driver)
  BY <1>3 DEF Fifo, InStep
<1>11. OnCourse(fdc, driver)
  BY <1>3, <1>5 DEF OnCourse, Quiescent, Fresh
<1> QED  BY <1>3, <1>7, <1>9, <1>10, <1>11 DEF Inv, Types

LEMMA InvKept == Inv /\ [FdcNext]_fdcVars => Inv'
<1> SUFFICES ASSUME Inv, [FdcNext]_fdcVars  PROVE  Inv'
  OBVIOUS
<1>1. CASE UNCHANGED fdcVars
  BY <1>1 DEF fdcVars, Inv, Types
<1>2. CASE FdcNext
  <2>1. \/ \E j \in fuse.jobs : Prepare(j)
        \/ Unmask \/ WriteCommandByte \/ TakeIrq6 \/ ReadResultByte
        \/ Reset \/ \E d \in Drives : Reselect(d)
        \/ Complete
    BY <1>2 DEF FdcNext
  <2> QED  BY <2>1, PrepareKeeps, UnmaskKeeps, WriteCommandByteKeeps, TakeIrq6Keeps,
              ReadResultByteKeeps, ResetKeeps, ReselectKeeps, CompleteKeeps
<1> QED  BY <1>1, <1>2

LEMMA InvAlways == FdcSpec => []Inv
<1>1. FdcInit => Inv
  BY InvAtFirst
<1>2. Inv /\ [FdcNext]_fdcVars => Inv'
  BY InvKept
<1> QED  BY <1>1, <1>2, PTL DEF FdcSpec

-----------------------------------------------------------------------------
\* Every variable stays in its range, after resets and selections at any time too: the
\* position in a command never passes its size (fdc.c:397), and what is to be moved fits
\* the track that dmabuf holds.
THEOREM FdcTypeCorrect == FdcSpec => []FdcTypeOK
<1>1. Inv => FdcTypeOK
  <2> SUFFICES ASSUME Inv  PROVE  FdcTypeOK
    OBVIOUS
  <2>1. fuse \in FdcUses /\ fdc \in Controller /\ driver \in DriverRecord /\ Fifo(fdc)
    BY DEF Inv, Types
  <2>2. /\ fdc.sel \in Drives /\ fdc.msr \subseteq {"rqm", "cb", "dio"}
        /\ fdc.cmd \in Ops \cup {"none"} /\ fdc.pos <= fdc.size /\ fdc.size \in 0 .. 9
        /\ fdc.left \in 0 .. 7
        /\ fdc.at \in [Drives -> Sectors] /\ fdc.lba \in [Drives -> Sectors]
        /\ fdc.fpos \in 0 .. TrackSectors
        /\ {fdc.wlen, fdc.fend, fdc.count} \subseteq 0 .. TrackSectors
        /\ {fdc.irr, fdc.line, fdc.masked, fdc.req} \subseteq BOOLEAN
    BY <2>1 DEF Controller, Fifo
  <2>3. Cells \subseteq Values
    BY DEF Cells
  <2>4. {fdc.buf[i] : i \in DOMAIN fdc.buf} \cup {fdc.mem[a] : a \in DOMAIN fdc.mem} \subseteq Values
    <3>1. /\ fdc.buf \in [0 .. TrackSectors - 1 -> Cells]
          /\ fdc.mem \in [0 .. TrackSectors -> Cells]
      BY <2>1 DEF Controller, Memory
    <3> QED  BY <2>3, <3>1
  <2>5. \A d \in Drives, s \in Sectors : fdc.content[d][s] \in Values
    <3>1. fdc.content \in [Drives -> [Sectors -> Cells]]
      BY <2>1 DEF Controller, Contents
    <3> QED  BY <2>3, <3>1
  <2>6. driver.stage \in {"idle", "ready", "sent"} /\ driver.job \in Jobs
    BY <2>1 DEF DriverRecord
  <2> QED  BY <2>1, <2>2, <2>4, <2>5, <2>6 DEF FdcTypeOK
<1> QED  BY <1>1, InvAlways, PTL

\* A result that is there is that of the command the driver has sent, its status is
\* right, and a transfer that reports success has moved its sectors and nothing else;
\* no command of the driver ends the program (fdc.c:721, fdc.c:729).
THEOREM AnswersCorrect == FdcSpec => []AnswersFit
<1>1. Inv => AnswersFit
  <2> SUFFICES ASSUME Inv, ~driver.disturbed
               PROVE  /\ "dio" \in fdc.msr => driver.stage = "sent"
                      /\ Answered => fdc.ok = ~Refused(driver.job)
                      /\ Answered /\ fdc.ok => Moved
                      /\ ~fdc.fatal
    BY DEF AnswersFit
  <2>1. OnCourse(fdc, driver) /\ driver.stage \in {"idle", "ready", "sent"}
    BY DEF Inv, Types, DriverRecord
  <2>2. "dio" \in fdc.msr => driver.stage = "sent"
    BY <2>1 DEF OnCourse
  <2>3. ~fdc.fatal
    BY <2>1 DEF OnCourse, Underway, Due, Loading, Ended, AtWork, Quiescent
  <2>4. ASSUME Answered
        PROVE  fdc.ok = ~Refused(driver.job) /\ (fdc.ok => Moved)
    <3>1. Ended(fdc, driver.job, driver.jobs, driver.before)
      BY <2>1, <2>4 DEF Answered, OnCourse, Underway, Due, Loading, AtWork
    <3> QED  BY <2>4, <3>1, MovedIs DEF Answered, Ended
  <2> QED  BY <2>2, <2>3, <2>4
<1> QED  BY <1>1, InvAlways, PTL
=============================================================================
