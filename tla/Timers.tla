-------------------------------- MODULE Timers --------------------------------
(***************************************************************************)
(* Emulated time: pc_execute() polls the devices for the number of cycles  *)
(* until the next of them needs service, cpu_run() executes at most that   *)
(* many instructions, and a halted CPU skips the rest.  The devices are    *)
(* channel 0 of the PIT, the CMOS clock, the local APIC's timer and the    *)
(* ACPI timer.  Every time is kept relative to now: an age, or the cycles  *)
(* that are left, so the clock itself needs no bound.  The interrupt       *)
(* controllers are modules Pic and Apic; here a request stays pending      *)
(* until the CPU takes it.                                                 *)
(***************************************************************************)
EXTENDS Integers

CONSTANTS
    TicksPerSecond, \* ticks_per_second: a cycle is one instruction
    PitClock, AcpiClock,        \* Hz
    Reload,         \* counts of a PIT channel loaded with 0: 2^16
    Wide,           \* values of the PIT's counter difference: 2^32
    AcpiWrap,       \* values of the ACPI timer: 2^24
    BootRate,       \* the frequency register A selects after a reset
    MaxSlice,       \* cycles between two polls of a CPU that runs: 200000
    Never,          \* a wait of -1: the largest unsigned number
    MaxOwed,        \* bound of the tick balance
    Uses            \* ways the guest uses the devices, one for a behaviour

Pins == {"pit", "rtc", "acpi"}
Sources == Pins \cup {"apic"}
Ops == {"halt", "cli", "sti", "popf"}

\* loads, modes: what is written to the PIT.  rates: frequencies selected in register A
\* (0: none) and sets of interrupts enabled in register B.  counts, masked: the APIC timer.
Use == [loads : SUBSET (0 .. Reload - 1), modes : SUBSET (0 .. 5),
        rates : SUBSET Nat, enables : SUBSET SUBSET {"periodic", "update"},
        counts : SUBSET Nat, masked : SUBSET BOOLEAN, acpi : BOOLEAN, ops : SUBSET Ops]

ASSUME TimersAssumption ==
    /\ {TicksPerSecond, PitClock, AcpiClock, Reload, Wide, AcpiWrap, MaxSlice} \subseteq Nat \ {0}
    /\ \A c \in 1 .. Reload : (c * TicksPerSecond) % PitClock # 0
    /\ {PitClock, AcpiClock, BootRate} \subseteq 1 .. TicksPerSecond
    /\ Never \in Nat /\ Never > MaxSlice /\ Never > TicksPerSecond + 1
    /\ MaxOwed \in Nat \ {0}
    /\ \A u \in Uses : u \in Use /\ u.rates \subseteq 0 .. TicksPerSecond

VARIABLES
    world,      \* devices, their lines, the requests not yet taken, and the history of both
    cpu,        \* cycle accounting, IF, interrupts_blocked, HLT, and where the loop is
    use

vars == <<world, cpu, use>>

Min2(a, b) == IF a < b THEN a ELSE b
Clamp(n) == IF n < -MaxOwed THEN -MaxOwed ELSE Min2(n, MaxOwed)

-----------------------------------------------------------------------------
(* The PIT.                                                                 *)

ToCounter(ticks) == (ticks * PitClock) \div TicksPerSecond
ToTicks(counter) == (counter * TicksPerSecond) \div PitClock

PitCount(p) ==
    IF p.count = 0 THEN 0 ELSE ((p.count - ToCounter(p.age)) % Wide) % p.count

Loaded(p, v) ==
    [p EXCEPT !.count = IF v = 0 THEN Reload ELSE v, !.age = 0, !.running = TRUE, !.last = 0]

PitRaises(p) == p.running /\ PitCount(p) > p.last
Repeats(p) == p.mode \in {2, 3}

\* mutant: the count is only remembered when it raised the interrupt
PitPolledForgets(p) ==
    IF ~p.running \/ ~PitRaises(p) THEN p
    ELSE IF ~Repeats(p) THEN [p EXCEPT !.running = FALSE]
    ELSE [p EXCEPT !.last = PitCount(p)]

PitPolled(p) ==
    IF ~p.running THEN p
    ELSE IF PitRaises(p) /\ ~Repeats(p) THEN [p EXCEPT !.running = FALSE]
    ELSE [p EXCEPT !.last = PitCount(p)]

\* what it returns is the time since the count was full
PitWait(p) ==
    IF p.running /\ (PitRaises(p) => Repeats(p)) THEN ToTicks(p.count - PitCount(p)) ELSE Never

-----------------------------------------------------------------------------
(* The CMOS clock.  A rate is the frequency it selects.                     *)

RtcDue(r) == r.age >= r.period

\* the periodic interrupt that also updates the seconds, or the once-a-second call
Updates(r) == "periodic" \in r.enabled => r.ticks + 1 = r.max

Reasons(r) ==
    (r.enabled \cap {"periodic"}) \cup (IF Updates(r) THEN r.enabled \cap {"update"} ELSE {})

\* mutant: the time of the last call is not brought up to date
RtcPolledLate(r) ==
    IF ~RtcDue(r) \/ Reasons(r) = {} THEN r ELSE [r EXCEPT !.ticks = 0, !.flags = Reasons(r)]

RtcPolled(r) ==
    IF ~RtcDue(r) THEN r
    ELSE [r EXCEPT !.age = 0,
                   !.ticks = IF "periodic" \in r.enabled /\ ~Updates(r) THEN Min2(@ + 1, TicksPerSecond) ELSE
                             IF "periodic" \in r.enabled THEN 0 ELSE @,
                   !.flags = IF Reasons(r) = {} THEN @ ELSE Reasons(r)]

RtcWait(r) == RtcPolled(r).period - RtcPolled(r).age

\* mutant: switching the periodic interrupt off leaves its period
RetimedKeepsPeriod(r) ==
    IF r.rate = 0 THEN r
    ELSE IF "periodic" \in r.enabled
    THEN [r EXCEPT !.period = TicksPerSecond \div r.rate, !.ticks = 0, !.max = r.rate, !.age = 0]
    ELSE [r EXCEPT !.age = 0]

Retimed(r) ==
    IF r.rate = 0 THEN r
    ELSE IF "periodic" \in r.enabled
    THEN [r EXCEPT !.period = TicksPerSecond \div r.rate, !.ticks = 0, !.max = r.rate, !.age = 0]
    ELSE [r EXCEPT !.period = TicksPerSecond, !.age = 0]

-----------------------------------------------------------------------------
(* The APIC timer.                                                          *)

Counting(a) == a.count # 0
Expired(a) == Counting(a) /\ a.left # Never /\ a.left <= 0

ApicPolled(a) ==
    IF ~Expired(a) THEN a
    ELSE [a EXCEPT !.left = IF a.periodic THEN @ + a.count ELSE Never]

\* Never as well where the deadline has just been moved, and where it is past again
ApicWait(a) ==
    LET left == ApicPolled(a).left IN
    IF Counting(a) /\ (Expired(a) => a.masked /\ a.periodic) /\ left >= 0
    THEN Min2(left, Never) ELSE Never

-----------------------------------------------------------------------------
(* The ACPI timer.                                                          *)

AcpiClockOf(a) == ((a.age * AcpiClock) \div TicksPerSecond) % AcpiWrap

AcpiWrapped(a) == AcpiClockOf(a) < a.last

AcpiPolled(a) == IF a.enabled THEN [a EXCEPT !.last = AcpiClockOf(a), !.status = TRUE] ELSE a

AcpiWait(a) ==
    IF a.enabled THEN ((AcpiWrap - AcpiClockOf(a)) * TicksPerSecond) \div AcpiClock ELSE Never

-----------------------------------------------------------------------------
(* One poll, devices_get_next(): every device's handler, and the wait.      *)

\* timer_cb() lowers the line before it raises it; of the others only edges are seen
Raised(w) ==
    {d \in Sources :
        CASE d = "pit"  -> PitRaises(w.pit)
          [] d = "rtc"  -> RtcDue(w.rtc) /\ Reasons(w.rtc) # {} /\ "rtc" \notin w.pins
          [] d = "apic" -> Expired(w.apic) /\ ~w.apic.masked
          [] d = "acpi" -> w.acpi.enabled /\ AcpiWrapped(w.acpi) /\ "acpi" \notin w.pins}

\* the SCI's line, and a request with it, where the ACPI timer has not wrapped
Lowered(w) == IF w.acpi.enabled /\ AcpiWrapped(w.acpi) THEN {} ELSE {"acpi"}

Polled(w) ==
    [w EXCEPT !.pit = PitPolled(@), !.rtc = RtcPolled(@),
              !.apic = ApicPolled(@), !.acpi = AcpiPolled(@),
              !.pins = (@ \ Lowered(w)) \cup (Raised(w) \ {"apic"}),
              !.pending = (@ \ Lowered(w)) \cup Raised(w),
              !.owed = Clamp((IF w.fresh THEN Min2(@, 1) ELSE @) - (IF PitRaises(w.pit) THEN 1 ELSE 0)),
              !.fresh = FALSE,
              !.unseen = @ \/ (w.pit.running /\ PitCount(w.pit) = 0),
              !.second = IF RtcDue(w.rtc) /\ Updates(w.rtc) THEN 0 ELSE @,
              !.gap = IF use.rates # {} /\ RtcDue(w.rtc) /\ Updates(w.rtc) THEN w.second ELSE @]

Least(S) == CHOOSE n \in S : \A m \in S : n <= m

LeastWait(w) == Least({RtcWait(w.rtc), PitWait(w.pit), ApicWait(w.apic), AcpiWait(w.acpi)})

Slice(c, w) == IF c.halted THEN LeastWait(w) ELSE Min2(LeastWait(w), MaxSlice)

-----------------------------------------------------------------------------
(* The clock.                                                               *)

\* cpu_get_cycles(), since cpu_run() began
Now(c) == c.cycles + c.offset - c.toRun

\* periods of the PIT that end within n cycles, and the position in the next
Span(w) == w.pit.count * TicksPerSecond
Steady == {"halt", "sti"} \cap use.ops = {}
Balanced(w) == Steady /\ w.pit.running /\ ~w.unseen
Position(w, n) == w.phase + n * PitClock

\* A number of cycles that moves a counter on by full turns, which its value does not
\* show: ages are kept below it.
Turn(values, clock) ==
    CHOOSE n \in 1 .. values * TicksPerSecond : (n * clock) % (values * TicksPerSecond) = 0
PitTurn == Turn(Wide, PitClock)
AcpiTurn == Turn(AcpiWrap, AcpiClock)

\* a device that is not in use keeps its age, and a balance that is lost is not kept
Aged(w, n) ==
    [w EXCEPT !.pit.age = IF w.pit.count = 0 THEN @ ELSE (@ + n) % PitTurn,
              !.rtc.age = @ + n,
              !.apic.left = IF @ = Never \/ ~Counting(w.apic) THEN @ ELSE IF @ < -Never THEN @ ELSE @ - n,
              !.acpi.age = IF use.acpi THEN (@ + n) % AcpiTurn ELSE @,
              !.owed = IF Balanced(w) THEN Clamp(@ + Position(w, n) \div Span(w)) ELSE 0,
              !.phase = IF Balanced(w) THEN Position(w, n) % Span(w) ELSE 0,
              !.second = IF use.rates = {} THEN @ ELSE Min2(@ + n, TicksPerSecond),
              !.elapsed = @ + n]

-----------------------------------------------------------------------------
(* cpu_run() and the instructions that shorten its loop.                    *)

\* mutant: the cycles executed so far are not added up first
LoopExitUnsynced(c) == [c EXCEPT !.refill = c.toRun - 1, !.toRun = 1, !.offset = 1]

\* INTERNAL_CPU_LOOP_EXIT
LoopExit(c) ==
    [c EXCEPT !.cycles = Now(c), !.refill = c.toRun - 1, !.toRun = 1, !.offset = 1]

\* interrupt_guard(): one more instruction without interrupts
Guarded(c) ==
    IF c.toRun # 1
    THEN [c EXCEPT !.cycles = Now(c), !.refill = c.toRun - 2, !.toRun = 2, !.offset = 2]
    ELSE [c EXCEPT !.cycles = Now(c), !.refill = 0, !.toRun = 1, !.offset = 1, !.blocked = TRUE]

\* cpu_cancel_execution_cycle() and op_hlt()
Cancelled(c) == [c EXCEPT !.cycles = Now(c), !.refill = 0, !.toRun = 1, !.offset = 1,
                          !.halted = FALSE]
Halted(c) == [Cancelled(c) EXCEPT !.blocked = FALSE, !.halted = TRUE]

\* n instructions; the last of a loop moves on to what the loop left out
Executed(c, n) ==
    IF c.toRun # n THEN [c EXCEPT !.toRun = @ - n]
    ELSE [c EXCEPT !.cycles = Now([c EXCEPT !.toRun = 0]),
                   !.toRun = c.refill, !.offset = c.refill, !.refill = 0,
                   !.at = IF c.refill = 0 THEN "done" ELSE "top"]

\* pc_execute() polls the devices and calls cpu_run()
StartSlice ==
    /\ cpu.at = "poll"
    /\ world' = [Polled(world) EXCEPT !.elapsed = 0]
    /\ cpu' = [cpu EXCEPT !.at = "top", !.slice = Slice(cpu, world), !.cycles = 0, !.refill = 0,
                          !.toRun = Slice(cpu, world), !.offset = Slice(cpu, world)]
    /\ UNCHANGED use

\* the top of cpu_run()'s loop, without an interrupt and with one.  cpu_execute() counts
\* toRun down before it compares it with 0: from 0 it takes 2^32 instructions.
Entered(c) ==
    IF c.halted THEN [c EXCEPT !.at = "done"]
    ELSE IF c.toRun = 0 THEN [c EXCEPT !.at = "lost"]
    ELSE IF c.blocked
    THEN [c EXCEPT !.at = "in", !.refill = c.slice, !.cycles = Now(c),
                   !.toRun = 1, !.offset = 1, !.blocked = FALSE]
    ELSE [c EXCEPT !.at = "in"]

Interruptible == world.pending # {} /\ cpu.if /\ ~cpu.blocked

EnterLoop ==
    /\ cpu.at = "top" /\ ~Interruptible
    /\ cpu' = Entered(cpu)
    /\ UNCHANGED <<world, use>>

TakeInterrupt ==
    /\ cpu.at = "top" /\ Interruptible
    /\ \E d \in world.pending :
        /\ world' = [world EXCEPT !.pending = @ \ {d}]
        /\ cpu' = Entered([cpu EXCEPT !.if = FALSE, !.halted = FALSE, !.handling = d])
    /\ UNCHANGED use

\* mutant: the time left is not skipped
EndSliceInPlace ==
    /\ cpu.at = "done"
    /\ cpu' = [cpu EXCEPT !.at = "poll", !.toRun = 0, !.offset = 0, !.cycles = 0, !.slice = 0]
    /\ world' = IF cpu.halted /\ cpu.if THEN Polled(world) ELSE world
    /\ UNCHANGED use

\* pc_execute() after cpu_run(): a halted CPU skips to the next event, and as long again
\* as was left of the slice
EndSlice ==
    /\ cpu.at = "done"
    /\ cpu' = [cpu EXCEPT !.at = "poll", !.toRun = 0, !.offset = 0, !.cycles = 0, !.slice = 0]
    /\ world' = IF cpu.halted /\ cpu.if
                THEN Aged(Polled(world),
                          cpu.slice - (IF cpu.toRun = 0 THEN cpu.cycles ELSE 0) + LeastWait(world))
                ELSE world
    /\ UNCHANGED use

\* the guest runs, and no device is polled
RunOn ==
    /\ cpu.at = "lost"
    /\ world' = [Aged(world, 1) EXCEPT !.elapsed = world.elapsed, !.rtc = world.rtc, !.apic = world.apic]
    /\ UNCHANGED <<cpu, use>>

-----------------------------------------------------------------------------
(* The guest.  Every instruction takes a cycle, after what it does.         *)

Instruction(w, c) ==
    /\ cpu.at = "in"
    /\ world' = Aged(w, 1)
    /\ cpu' = Executed(c, 1)
    /\ UNCHANGED use

Compute ==
    /\ cpu.at = "in"
    /\ \E n \in 1 .. cpu.toRun : cpu' = Executed(cpu, n) /\ world' = Aged(world, n)
    /\ UNCHANGED use

\* pit_writeb(): the count of channel 0
WriteCount ==
    \E v \in use.loads :
        Instruction([world EXCEPT !.pit = Loaded(@, v), !.owed = 0, !.phase = 0, !.fresh = TRUE, !.unseen = FALSE], cpu)

\* the control word: mode 2 raises the line, and leaves it high
WriteMode ==
    \E m \in use.modes :
        LET edge == m = 2 /\ "pit" \notin world.pins IN
        Instruction([world EXCEPT !.pit.mode = m,
                                  !.pins = @ \cup (IF m = 2 THEN {"pit"} ELSE {}),
                                  !.pending = @ \cup (IF edge THEN {"pit"} ELSE {})],
                    IF edge THEN LoopExit(cpu) ELSE cpu)

WriteRegisterA ==
    \E f \in use.rates : Instruction([world EXCEPT !.rtc = Retimed([@ EXCEPT !.rate = f])], cpu)

WriteRegisterB ==
    \E e \in use.enables :
        Instruction([world EXCEPT !.rtc = Retimed([@ EXCEPT !.enabled = e])], cpu)

WriteInitialCount ==
    \E n \in use.counts :
        Instruction([world EXCEPT !.apic.count = n, !.apic.left = n], Cancelled(cpu))

WriteTimerEntry ==
    \E m \in use.masked, p \in BOOLEAN :
        Instruction([world EXCEPT !.apic.masked = m, !.apic.periodic = p], cpu)

WritePowerManagement ==
    /\ use.acpi
    /\ \E e \in BOOLEAN : Instruction([world EXCEPT !.acpi.enabled = e], cpu)

Hlt == "halt" \in use.ops /\ Instruction(world, Halted(cpu))
Cli == "cli" \in use.ops /\ Instruction(world, [cpu EXCEPT !.if = FALSE])

\* POPF leaves the loop where IF changes; a handler keeps interrupts off
Popf ==
    /\ "popf" \in use.ops /\ cpu.handling = "none"
    /\ Instruction(world, LoopExit([cpu EXCEPT !.if = ~@]))

\* STI guards the next instruction
Sti ==
    /\ "sti" \in use.ops /\ cpu.handling = "none" /\ ~cpu.if
    /\ Instruction(world, Guarded([cpu EXCEPT !.if = TRUE]))

\* MOV SS and POP SS guard the next instruction as well
LoadStackSegment == "sti" \in use.ops /\ Instruction(world, Guarded(cpu))

\* IRET at the end of a handler, which has read register C if the clock interrupted
ReturnFromHandler ==
    /\ cpu.handling # "none"
    /\ Instruction(IF cpu.handling = "rtc"
                   THEN [world EXCEPT !.rtc.flags = {}, !.pins = @ \ {"rtc"}, !.pending = @ \ {"rtc"}]
                   ELSE world,
                   LoopExit([cpu EXCEPT !.if = TRUE, !.handling = "none"]))

-----------------------------------------------------------------------------
(* Behaviours.                                                              *)

Init ==
    /\ use \in Uses
    /\ world = [pit  |-> [mode |-> 0, count |-> 0, age |-> 0, last |-> 0, running |-> FALSE],
                rtc  |-> [rate |-> BootRate, enabled |-> {}, period |-> TicksPerSecond, age |-> 0,
                          ticks |-> 0, max |-> 0, flags |-> {}],
                apic |-> [count |-> 0, left |-> 0, masked |-> TRUE, periodic |-> FALSE],
                acpi |-> [enabled |-> FALSE, status |-> FALSE, last |-> 0, age |-> 0],
                pins |-> {}, pending |-> {}, fresh |-> FALSE, unseen |-> FALSE, owed |-> 0, phase |-> 0, second |-> 0,
                gap |-> TicksPerSecond, elapsed |-> 0]
    /\ cpu = [toRun |-> 0, offset |-> 0, refill |-> 0, cycles |-> 0, slice |-> 0, at |-> "poll",
              halted |-> FALSE, if |-> FALSE, blocked |-> FALSE, handling |-> "none"]

Guest ==
    \/ WriteCount \/ WriteMode
    \/ WriteRegisterA \/ WriteRegisterB
    \/ WriteInitialCount \/ WriteTimerEntry \/ WritePowerManagement
    \/ Hlt \/ Cli \/ Popf \/ Sti \/ LoadStackSegment \/ ReturnFromHandler

Emulator == StartSlice \/ EnterLoop \/ TakeInterrupt \/ EndSlice \/ RunOn

Next == Emulator \/ Compute \/ Guest
Spec == Init /\ [][Next]_vars
-----------------------------------------------------------------------------
(* Properties.                                                              *)

\* The types of the cycle accounting, the requests and what was last seen of the PIT.
TypeOK ==
    /\ cpu.at \in {"poll", "top", "in", "done", "lost"}
    /\ {cpu.toRun, cpu.offset, cpu.refill, cpu.slice} \subseteq 0 .. Never
    /\ {cpu.halted, cpu.if, cpu.blocked} \subseteq BOOLEAN
    /\ cpu.handling \in Sources \cup {"none"}
    /\ world.pins \subseteq Pins /\ world.pending \subseteq Sources
    /\ world.pit.mode \in 0 .. 5 /\ {world.pit.count, world.pit.last} \subseteq 0 .. Reload
    /\ world.owed \in -MaxOwed .. MaxOwed

Executing == cpu.at \in {"top", "in", "done"}

\* However often its loop is shortened, left and refilled (cpu_request_fast_return(), STI,
\* MOV SS, HLT), cpu_run() accounts for exactly the instructions it executed, and it
\* executes at most one more than it was asked for, the one an interrupt guard owes.
ClockInStep ==
    Executing => Now(cpu) = world.elapsed /\ world.elapsed <= cpu.slice + 1

\* cpu_run() is asked for no cycles at all, which it takes for 2^32, only where a masked
\* periodic APIC timer is found late by exactly a period.
OnlyMaskedTimerStalls ==
    cpu.at = "lost" => /\ Counting(world.apic) /\ world.apic.left = 0
                       /\ world.apic.masked /\ world.apic.periodic

\* Timers are polled often enough while the CPU does not halt: from the first poll on, the
\* PIT's interrupts are one ahead of its periods to one behind, unless a poll saw a count
\* of zero, which hides a period, or cpu_run() was asked for no cycles and polls no more; an
\* APIC timer whose period is no shorter than a slice is never late by more than a slice,
\* though the deadline after an expiry is not in the wait.
TicksKept ==
    Steady =>
        /\ Balanced(world) /\ ~world.fresh /\ cpu.at # "lost" /\ Wide % world.pit.count = 0 =>
              world.owed \in -1 .. 1
        /\ Counting(world.apic) /\ world.apic.count >= MaxSlice => world.apic.left >= -MaxSlice

\* A slice may be an instruction longer than it was asked for, and there is nothing to wait
\* for where a masked APIC timer is late (OnlyMaskedTimerStalls): a CPU that halts then has
\* -1 cycles to skip.
GoesBack == "halt" \in use.ops /\ use.counts # {}
Back == IF GoesBack THEN 1 ELSE 0

\* A second of the CMOS clock takes a second or more, but for what is lost in rounding a
\* periodic interrupt's period and for a cycle that is skipped backwards; not where
\* register A selects no rate, which leaves the last period in force when the periodic
\* interrupt is switched off.
SecondsNotShort ==
    0 \notin use.rates =>
        \E f \in use.rates \cup {BootRate} :
            world.gap >= TicksPerSecond - (TicksPerSecond % f) - Back

\* A count is not over before its time (the comments on the modes in pit.c).
NeverEarly == world.owed >= 0

Armed ==
    \/ world.pit.running /\ Repeats(world.pit)
    \/ world.rtc.enabled # {} /\ 0 \notin use.rates
    \/ Counting(world.apic) /\ ~world.apic.masked /\ world.apic.left # Never

Waiting == cpu.halted /\ cpu.if

\* A CPU that halts with interrupts enabled wakes up if a timer is armed, although skipped
\* time overshoots the deadline it was meant to reach.
HaltWakes == Waiting /\ Armed ~> ~Waiting

\* the emulator's loop goes on; the guest promises nothing
FairSpec ==
    Spec /\ WF_vars(StartSlice) /\ WF_vars(EnterLoop) /\ WF_vars(TakeInterrupt) /\ WF_vars(EndSlice)

=============================================================================
