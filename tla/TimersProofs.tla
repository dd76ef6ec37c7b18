---------------------------- MODULE TimersProofs ----------------------------
(***************************************************************************)
(* cpu_run() accounts for the instructions it executes, and is asked for   *)
(* none of them only where a masked APIC timer is late; the CMOS clock     *)
(* does not gain.  For clocks, waits and slices of any size and any use.   *)
(***************************************************************************)
EXTENDS Timers, TLAPS

Interrupts == {"periodic", "update"}

PitRecord == [mode : 0 .. 5, count : 0 .. Reload, age : Nat, last : 0 .. Reload,
              running : BOOLEAN]
RtcRecord == [rate : 0 .. TicksPerSecond, enabled : SUBSET Interrupts,
              period : 1 .. TicksPerSecond, age : Int, ticks : Nat, max : Nat,
              flags : SUBSET Interrupts]
ApicRecord == [count : Nat, left : Int, masked : BOOLEAN, periodic : BOOLEAN]
AcpiRecord == [enabled : BOOLEAN, status : BOOLEAN, last : Nat, age : Nat]

WorldRecord ==
  [pit : PitRecord, rtc : RtcRecord, apic : ApicRecord, acpi : AcpiRecord, pins : SUBSET Pins,
   pending : SUBSET Sources, fresh : BOOLEAN, unseen : BOOLEAN, owed : -MaxOwed .. MaxOwed,
   phase : Nat, second : Int, gap : Int, elapsed : Int]

CpuRecord ==
  [toRun : 0 .. Never, offset : 0 .. Never, refill : 0 .. Never, cycles : Int,
   slice : 0 .. TicksPerSecond + 1, at : {"poll", "top", "in", "done", "lost"},
   halted : BOOLEAN, if : BOOLEAN, blocked : BOOLEAN, handling : Sources \cup {"none"}]

\* A counter that runs has been loaded.  Skipped time may be a cycle short of
\* none, where an interrupt guard made a slice a cycle longer.
WorldFits(w) ==
  w \in WorldRecord /\ (w.pit.running => w.pit.count # 0) /\ w.rtc.age >= -1

Types == use \in Uses /\ WorldFits(world) /\ cpu \in CpuRecord

\* Where cpu_run() is when e instructions have been executed.  An interrupt is
\* blocked at the top of the loop before the first instruction only.
Clocked(c, e) ==
  /\ c.at \in {"top", "done"} => c.offset = c.toRun
  /\ c.at \in {"top", "in", "done"} => Now(c) = e
  /\ c.at \in {"top", "in"} => e + c.toRun + c.refill <= c.slice + 1
  /\ c.at = "done" => e <= c.slice + 1
  /\ c.at = "in" => ~c.blocked /\ c.toRun # 0
  /\ c.at = "top" /\ c.blocked =>
       c.cycles = 0 /\ c.refill = 0 /\ c.toRun = c.slice /\ c.offset = c.slice /\ e = 0

\* The same in front of an instruction, which may be the last of the slice and
\* leave the next slice guarded.
Ready(c, e) ==
  /\ c.at = "in" /\ Now(c) = e /\ e + c.toRun + c.refill <= c.slice + 1
  /\ c.toRun # 0 /\ (c.blocked => c.toRun = 1 /\ c.refill = 0)

\* An instruction makes up for time that was short.
Timely(c, w) ==
  c.at \in {"top", "in", "done"} => w.elapsed >= 0 /\ (w.elapsed > 0 => w.rtc.age >= 0)

LateByAPeriod(w) ==
  Counting(w.apic) /\ w.apic.left = 0 /\ w.apic.masked /\ w.apic.periodic

Stalls(c, w) == c.at = "lost" \/ (c.at = "top" /\ c.toRun = 0) => LateByAPeriod(w)

IInv ==
  Types /\ Clocked(cpu, world.elapsed) /\ Timely(cpu, world) /\ Stalls(cpu, world)
-----------------------------------------------------------------------------
(* Division.                                                               *)

LEMMA DivNat ==
  ASSUME NEW a \in Nat, NEW b \in Nat, b > 0
  PROVE  a \div b \in Nat /\ a \div b <= a /\ (a >= b => a \div b >= 1)
BY SMT

LEMMA DivInt ==
  ASSUME NEW a \in Int, NEW b \in Nat, b > 0
  PROVE  a \div b \in Int /\ a % b \in 0 .. b - 1
BY SMT

LEMMA Product ==
  ASSUME NEW a \in Nat, NEW b \in Nat
  PROVE  a * b \in Nat /\ (a > 0 => a * b >= b) /\ (b > 0 => a * b >= a)
BY SMT

LEMMA ProductInt ==
  ASSUME NEW a \in Int, NEW b \in Int
  PROVE  a * b \in Int
BY SMT

LEMMA OneMore ==
  ASSUME NEW k \in Nat, NEW p \in Nat
  PROVE  (k + 1) * p = k * p + p
BY SMT

LEMMA NoMultiple ==
  ASSUME NEW s \in Nat, NEW k \in Int, NEW d \in Int, d = k * s, d < s, -d < s
  PROVE  k = 0
<1>1. CASE k >= 1
  <2>1. (k - 1) * s >= 0
    BY <1>1, Product
  <2>2. k * s = (k - 1) * s + s
    BY <1>1, OneMore
  <2> QED BY <2>1, <2>2, ProductInt
<1>2. CASE k <= -1
  <2>1. (-k - 1) * s >= 0
    BY <1>2, Product
  <2>2. (-k) * s = (-k - 1) * s + s
    BY <1>2, OneMore
  <2>3. (-k) * s = -(k * s)
    BY SMT
  <2> QED BY <2>1, <2>2, <2>3, ProductInt
<1> QED BY <1>1, <1>2

\* What is taken from a number by a division.
LEMMA Divided ==
  ASSUME NEW s \in Nat, s > 0, NEW y \in Int
  PROVE  /\ y \div s \in Int /\ y % s \in 0 .. s - 1
         /\ (y \div s) * s \in Int /\ y = (y \div s) * s + (y % s)
<1>1. y \div s \in Int /\ y % s \in 0 .. s - 1
  BY DivInt
<1>2. y = s * (y \div s) + (y % s)
  BY SMT
<1>3. (y \div s) * s \in Int /\ (y \div s) * s = s * (y \div s)
  BY <1>1, SMT
<1> QED BY <1>1, <1>2, <1>3

LEMMA DividedIs ==
  ASSUME NEW s \in Nat, s > 0, NEW x \in 0 .. s - 1, NEW m \in Int, NEW y, y = x + m * s
  PROVE  y % s = x /\ y \div s = m
<1>1. m * s \in Int /\ y \in Int
  BY ProductInt
<1> DEFINE q == y \div s
           r == y % s
<1>2. q \in Int /\ r \in 0 .. s - 1 /\ q * s \in Int /\ y = q * s + r
  BY <1>1, Divided
<1> HIDE DEF q, r
<1>3. (q - m) * s = q * s - m * s /\ q - m \in Int
  BY <1>2, SMT
<1>4. (q - m) * s = x - r
  BY <1>1, <1>2, <1>3
<1>5. q - m = 0
  BY <1>2, <1>3, <1>4, NoMultiple
<1> QED BY <1>1, <1>2, <1>4, <1>5 DEF q, r

LEMMA Sizes ==
  /\ TicksPerSecond \in Nat /\ TicksPerSecond > 0 /\ PitClock \in Nat /\ PitClock > 0
  /\ AcpiClock \in Nat /\ AcpiClock > 0 /\ PitClock <= TicksPerSecond
  /\ AcpiClock <= TicksPerSecond
  /\ Reload \in Nat /\ Reload > 0 /\ Wide \in Nat /\ Wide > 0
  /\ AcpiWrap \in Nat /\ AcpiWrap > 0 /\ MaxSlice \in Nat /\ MaxSlice > 0
  /\ Never \in Nat /\ Never > MaxSlice /\ Never > TicksPerSecond + 1 /\ MaxOwed \in Nat
  /\ BootRate \in 1 .. TicksPerSecond
BY TimersAssumption

\* There is such a number of cycles whatever the clocks are: values * TicksPerSecond.
LEMMA TurnIs ==
  ASSUME NEW values \in Nat, values > 0, NEW clock \in Nat
  PROVE  /\ Turn(values, clock) \in Nat /\ Turn(values, clock) > 0
         /\ (Turn(values, clock) * clock) % (values * TicksPerSecond) = 0
<1> DEFINE m == values * TicksPerSecond
           Fits(n) == (n * clock) % m = 0
<1>1. m \in Nat /\ m > 0
  BY Product, Sizes
<1> HIDE DEF m
<1>2. Fits(m) /\ m \in 1 .. m
  <2>1. m * clock = clock * m /\ clock * m \in Nat
    BY <1>1, Product
  <2>2. (clock * m) % m = 0
    <3>1. clock * m = 0 + clock * m /\ 0 \in 0 .. m - 1 /\ clock \in Int
      BY <1>1, <2>1
    <3> QED BY <1>1, <3>1, DividedIs
  <2> QED BY <1>1, <2>1, <2>2
<1> HIDE DEF Fits
<1>3. \E n \in 1 .. m : Fits(n)
  BY <1>2
<1> DEFINE t == CHOOSE n \in 1 .. m : Fits(n)
<1>4. t \in 1 .. m /\ Fits(t)
  BY <1>3
<1>5. Turn(values, clock) = t
  BY DEF Turn, Fits, m
<1> HIDE DEF t
<1> QED BY <1>1, <1>4, <1>5 DEF Fits, m

LEMMA Turns ==
  /\ PitTurn \in Nat /\ PitTurn > 0 /\ (PitTurn * PitClock) % (Wide * TicksPerSecond) = 0
  /\ AcpiTurn \in Nat /\ AcpiTurn > 0
BY TurnIs, Sizes DEF PitTurn, AcpiTurn
-----------------------------------------------------------------------------
(* The devices.                                                            *)

LEMMA PitCounts ==
  ASSUME NEW p \in PitRecord
  PROVE  /\ PitCount(p) \in 0 .. Reload
         /\ p.count # 0 => PitCount(p) < p.count
<1> USE Sizes
<1>1. p.age \in Nat /\ p.count \in 0 .. Reload
  BY DEF PitRecord
<1>2. p.age * PitClock \in Nat
  BY <1>1, Product
<1>3. ToCounter(p.age) \in Nat
  BY <1>2, DivNat DEF ToCounter
<1>4. (p.count - ToCounter(p.age)) % Wide \in Nat
  BY <1>1, <1>3, DivInt
<1> DEFINE left == (p.count - ToCounter(p.age)) % Wide
<1>5. CASE p.count = 0
  BY <1>5 DEF PitCount
<1>6. CASE p.count # 0
  <2>1. left % p.count \in 0 .. p.count - 1
    <3> HIDE DEF left
    <3> QED BY <1>1, <1>4, <1>6, DivInt DEF left
  <2> QED BY <2>1, <1>1, <1>6 DEF PitCount
<1> QED BY <1>5, <1>6

LEMMA PitKept ==
  ASSUME NEW p \in PitRecord
  PROVE  /\ PitPolled(p) \in PitRecord /\ PitPolled(p).count = p.count
         /\ PitPolled(p).running => p.running
BY PitCounts DEF PitPolled, PitRecord

\* A counter that runs is waited for.
LEMMA PitWaits ==
  ASSUME NEW p \in PitRecord, p.running => p.count # 0
  PROVE  PitWait(p) \in Nat /\ PitWait(p) > 0
<1> USE Sizes
<1> DEFINE n == p.count - PitCount(p)
<1>1. CASE p.running /\ (PitRaises(p) => Repeats(p))
  <2>1. n \in Nat /\ n > 0
    BY <1>1, PitCounts DEF PitRecord
  <2> HIDE DEF n
  <2>2. n * TicksPerSecond \in Nat /\ n * TicksPerSecond >= PitClock
    BY <2>1, Product
  <2>3. ToTicks(n) \in Nat /\ ToTicks(n) > 0
    BY <2>2, DivNat DEF ToTicks
  <2> QED BY <1>1, <2>3 DEF PitWait, n
<1>2. CASE ~(p.running /\ (PitRaises(p) => Repeats(p)))
  BY <1>2 DEF PitWait
<1> QED BY <1>1, <1>2

LEMMA RtcKept ==
  ASSUME NEW r \in RtcRecord
  PROVE  RtcPolled(r) \in RtcRecord /\ RtcPolled(r).age \in {r.age, 0}
<1>1. Reasons(r) \in SUBSET Interrupts
  BY DEF Reasons, RtcRecord, Interrupts
<1>2. Min2(r.ticks + 1, TicksPerSecond) \in Nat
  BY Sizes DEF Min2, RtcRecord
<1> DEFINE ticks == IF "periodic" \in r.enabled /\ ~Updates(r)
                      THEN Min2(r.ticks + 1, TicksPerSecond)
                      ELSE IF "periodic" \in r.enabled THEN 0 ELSE r.ticks
           flags == IF Reasons(r) = {} THEN r.flags ELSE Reasons(r)
           age == 0
<1>3. ticks \in Nat /\ flags \in SUBSET Interrupts /\ age \in Int
  BY <1>1, <1>2 DEF RtcRecord
<1>4. RtcPolled(r) = IF ~RtcDue(r) THEN r
                     ELSE [r EXCEPT !.age = age, !.ticks = ticks, !.flags = flags]
  BY DEF RtcPolled, RtcRecord
<1> HIDE DEF ticks, flags, age
<1>5. [r EXCEPT !.age = age, !.ticks = ticks, !.flags = flags] \in RtcRecord
  BY <1>3 DEF RtcRecord
<1>6. [r EXCEPT !.age = age, !.ticks = ticks, !.flags = flags].age = age /\ age = 0
  BY DEF RtcRecord, age
<1>7. CASE RtcDue(r)
  BY <1>4, <1>5, <1>6, <1>7
<1>8. CASE ~RtcDue(r)
  BY <1>4, <1>8
<1> QED BY <1>7, <1>8

LEMMA RtcWaits ==
  ASSUME NEW r \in RtcRecord, r.age >= -1
  PROVE  RtcWait(r) \in Int /\ RtcWait(r) > 0 /\ RtcWait(r) <= TicksPerSecond + 1
BY Sizes DEF RtcWait, RtcPolled, RtcRecord, RtcDue

LEMMA ApicKept ==
  ASSUME NEW a \in ApicRecord
  PROVE  /\ ApicPolled(a) \in ApicRecord
         /\ \A f \in {"count", "masked", "periodic"} : ApicPolled(a)[f] = a[f]
BY Sizes DEF ApicPolled, ApicRecord

\* Nothing is waited for where a masked timer is late by a period.
LEMMA ApicWaits ==
  ASSUME NEW a \in ApicRecord
  PROVE  /\ ApicWait(a) \in Nat
         /\ ApicWait(a) = 0 => /\ Counting(a) /\ a.masked /\ a.periodic
                               /\ ApicPolled(a).left = 0
BY Sizes DEF ApicWait, ApicPolled, ApicRecord, Expired, Counting, Min2

LEMMA AcpiKept ==
  ASSUME NEW a \in AcpiRecord
  PROVE  AcpiPolled(a) \in AcpiRecord /\ AcpiClockOf(a) \in 0 .. AcpiWrap - 1
<1>1. a.age * AcpiClock \in Nat
  BY Product, Sizes DEF AcpiRecord
<1>2. (a.age * AcpiClock) \div TicksPerSecond \in Nat
  BY <1>1, DivNat, Sizes
<1>3. AcpiClockOf(a) \in 0 .. AcpiWrap - 1
  BY <1>2, DivInt, Sizes DEF AcpiClockOf
<1>4. AcpiClockOf(a) \in Nat
  BY <1>3, Sizes
<1>5. [a EXCEPT !.last = AcpiClockOf(a), !.status = TRUE] \in AcpiRecord
  <2> DEFINE c == AcpiClockOf(a)
  <2> HIDE DEF c
  <2>1. c \in Nat => [a EXCEPT !.last = c, !.status = TRUE] \in AcpiRecord
    BY DEF AcpiRecord
  <2> QED BY <2>1, <1>4 DEF c
<1> QED BY <1>3, <1>5 DEF AcpiPolled

LEMMA AcpiWaits ==
  ASSUME NEW a \in AcpiRecord
  PROVE  AcpiWait(a) \in Nat /\ AcpiWait(a) > 0
<1> USE Sizes
<1> DEFINE n == AcpiWrap - AcpiClockOf(a)
<1>1. n \in Nat /\ n > 0
  BY AcpiKept
<1> HIDE DEF n
<1>2. n * TicksPerSecond \in Nat /\ n * TicksPerSecond >= AcpiClock
  BY <1>1, Product
<1>3. (n * TicksPerSecond) \div AcpiClock \in Nat /\ (n * TicksPerSecond) \div AcpiClock > 0
  BY <1>2, DivNat
<1> QED BY <1>3 DEF AcpiWait, n
-----------------------------------------------------------------------------
(* A poll, and the passing of time.                                        *)

LEMMA ClampFits ==
  ASSUME NEW n \in Int
  PROVE  Clamp(n) \in -MaxOwed .. MaxOwed
BY Sizes DEF Clamp, Min2

LEMMA PollFits ==
  ASSUME NEW w, WorldFits(w)
  PROVE  /\ WorldFits(Polled(w)) /\ Polled(w).apic = ApicPolled(w.apic)
         /\ Polled(w).rtc.age \in {w.rtc.age, 0}
<1> USE DEF WorldFits
<1>1. /\ PitPolled(w.pit) \in PitRecord /\ RtcPolled(w.rtc) \in RtcRecord
      /\ ApicPolled(w.apic) \in ApicRecord /\ AcpiPolled(w.acpi) \in AcpiRecord
  BY PitKept, RtcKept, ApicKept, AcpiKept DEF WorldRecord
<1>2. PitPolled(w.pit).running => PitPolled(w.pit).count # 0
  BY PitKept DEF WorldRecord
<1>3. Raised(w) \in SUBSET Sources /\ Lowered(w) \in SUBSET Sources
  BY DEF Raised, Lowered, Sources, Pins
<1> DEFINE pins == (w.pins \ Lowered(w)) \cup (Raised(w) \ {"apic"})
           pending == (w.pending \ Lowered(w)) \cup Raised(w)
           owed == Clamp((IF w.fresh THEN Min2(w.owed, 1) ELSE w.owed)
                           - (IF PitRaises(w.pit) THEN 1 ELSE 0))
           unseen == w.unseen \/ (w.pit.running /\ PitCount(w.pit) = 0)
           second == IF RtcDue(w.rtc) /\ Updates(w.rtc) THEN 0 ELSE w.second
           gap == IF use.rates # {} /\ RtcDue(w.rtc) /\ Updates(w.rtc) THEN w.second ELSE w.gap
           pit == PitPolled(w.pit)
           rtc == RtcPolled(w.rtc)
           apic == ApicPolled(w.apic)
           acpi == AcpiPolled(w.acpi)
           fresh == FALSE
<1>4. pins \in SUBSET Pins /\ pending \in SUBSET Sources
  BY <1>3 DEF WorldRecord, Sources, Pins
<1>5. owed \in -MaxOwed .. MaxOwed
  <2>1. Min2(w.owed, 1) \in Int /\ w.owed \in Int
    BY Sizes DEF WorldRecord, Min2
  <2>2. (IF w.fresh THEN Min2(w.owed, 1) ELSE w.owed) - (IF PitRaises(w.pit) THEN 1 ELSE 0) \in Int
    BY <2>1
  <2> QED BY <2>2, ClampFits
<1>6. unseen \in BOOLEAN /\ fresh \in BOOLEAN /\ second \in Int /\ gap \in Int
  BY DEF WorldRecord, PitRecord
<1>7. Polled(w) = [w EXCEPT !.pit = pit, !.rtc = rtc, !.apic = apic, !.acpi = acpi,
                            !.pins = pins, !.pending = pending, !.owed = owed, !.fresh = fresh,
                            !.unseen = unseen, !.second = second, !.gap = gap]
  BY DEF Polled
<1> HIDE DEF pins, pending, owed, unseen, second, gap, fresh
<1>8. /\ pit \in PitRecord /\ rtc \in RtcRecord /\ apic \in ApicRecord /\ acpi \in AcpiRecord
      /\ (pit.running => pit.count # 0) /\ rtc.age \in {w.rtc.age, 0}
      /\ w.rtc.age \in Int
  BY <1>1, <1>2, RtcKept DEF WorldRecord, RtcRecord
<1>9. apic = ApicPolled(w.apic)
  OBVIOUS
<1> HIDE DEF pit, rtc, apic, acpi
<1>10. Polled(w) \in WorldRecord
  <2>1. /\ pit \in PitRecord /\ rtc \in RtcRecord /\ apic \in ApicRecord /\ acpi \in AcpiRecord
        /\ w \in WorldRecord
    BY <1>8
  <2>2. [w EXCEPT !.pit = pit, !.rtc = rtc, !.apic = apic, !.acpi = acpi,
                  !.pins = pins, !.pending = pending, !.owed = owed, !.fresh = fresh,
                  !.unseen = unseen, !.second = second, !.gap = gap] \in WorldRecord
    BY <1>4, <1>5, <1>6, <2>1 DEF WorldRecord
  <2> QED BY <1>7, <2>2
<1>11. Polled(w).pit = pit /\ Polled(w).apic = apic /\ Polled(w).rtc = rtc
  BY <1>7 DEF WorldRecord
<1> QED BY <1>8, <1>9, <1>10, <1>11

LEMMA AgeFits ==
  ASSUME NEW w, WorldFits(w), NEW n \in Int, w.rtc.age + n >= -1
  PROVE  /\ WorldFits(Aged(w, n)) /\ Aged(w, n).elapsed = w.elapsed + n
         /\ Aged(w, n).rtc.age = w.rtc.age + n
<1> USE DEF WorldFits
<1> DEFINE pitAge == IF w.pit.count = 0 THEN w.pit.age ELSE (w.pit.age + n) % PitTurn
           rtcAge == w.rtc.age + n
           left == IF w.apic.left = Never \/ ~Counting(w.apic) THEN w.apic.left
                   ELSE IF w.apic.left < -Never THEN w.apic.left ELSE w.apic.left - n
           acpiAge == IF use.acpi THEN (w.acpi.age + n) % AcpiTurn ELSE w.acpi.age
           owed == IF Balanced(w) THEN Clamp(w.owed + Position(w, n) \div Span(w)) ELSE 0
           phase == IF Balanced(w) THEN Position(w, n) % Span(w) ELSE 0
           second == IF use.rates = {} THEN w.second ELSE Min2(w.second + n, TicksPerSecond)
           elapsed == w.elapsed + n
<1>1. /\ w.pit \in PitRecord /\ w.rtc \in RtcRecord /\ w.apic \in ApicRecord
      /\ w.acpi \in AcpiRecord /\ w \in WorldRecord
  BY DEF WorldRecord
<1>2. pitAge \in Nat
  <2>1. PitTurn \in Nat /\ PitTurn > 0
    BY Turns
  <2>2. (w.pit.age + n) % PitTurn \in Nat
    BY <1>1, <2>1, DivInt DEF PitRecord
  <2> QED BY <1>1, <2>2 DEF PitRecord
<1>3. acpiAge \in Nat
  <2>1. AcpiTurn \in Nat /\ AcpiTurn > 0
    BY Turns
  <2>2. (w.acpi.age + n) % AcpiTurn \in Nat
    BY <1>1, <2>1, DivInt DEF AcpiRecord
  <2> QED BY <1>1, <2>2 DEF AcpiRecord
<1>4. rtcAge \in Int /\ left \in Int
  BY <1>1 DEF RtcRecord, ApicRecord
<1>5. owed \in -MaxOwed .. MaxOwed /\ phase \in Nat
  <2>1. CASE Balanced(w)
    <3>1. w.pit.count \in Nat /\ w.pit.count > 0 /\ w.phase \in Nat /\ w.owed \in Int
      BY <1>1, <2>1, Sizes DEF Balanced, PitRecord, WorldRecord
    <3>2. Span(w) \in Nat /\ Span(w) > 0
      BY <3>1, Product, Sizes DEF Span
    <3>3. Position(w, n) \in Int
      BY <3>1, ProductInt, Sizes DEF Position
    <3>4. Position(w, n) \div Span(w) \in Int /\ Position(w, n) % Span(w) \in Nat
      BY <3>2, <3>3, DivInt
    <3>5. w.owed + Position(w, n) \div Span(w) \in Int
      BY <3>1, <3>4
    <3> QED BY <2>1, <3>4, <3>5, ClampFits
  <2>2. CASE ~Balanced(w)
    BY <2>2, Sizes
  <2> QED BY <2>1, <2>2
<1>6. second \in Int /\ elapsed \in Int
  BY Sizes DEF WorldRecord, Min2
<1>7. Aged(w, n) = [w EXCEPT !.pit.age = pitAge, !.rtc.age = rtcAge, !.apic.left = left,
                             !.acpi.age = acpiAge, !.owed = owed, !.phase = phase,
                             !.second = second, !.elapsed = elapsed]
  BY <1>1 DEF Aged, WorldRecord, PitRecord, RtcRecord, ApicRecord, AcpiRecord
<1> HIDE DEF pitAge, rtcAge, left, acpiAge, owed, phase, second, elapsed
<1> DEFINE pit == [w.pit EXCEPT !.age = pitAge]
           rtc == [w.rtc EXCEPT !.age = rtcAge]
           apic == [w.apic EXCEPT !.left = left]
           acpi == [w.acpi EXCEPT !.age = acpiAge]
<1>8. Aged(w, n) = [w EXCEPT !.pit = pit, !.rtc = rtc, !.apic = apic, !.acpi = acpi,
                             !.owed = owed, !.phase = phase, !.second = second,
                             !.elapsed = elapsed]
  BY <1>1, <1>7 DEF WorldRecord
<1>9. pit \in PitRecord /\ rtc \in RtcRecord /\ apic \in ApicRecord /\ acpi \in AcpiRecord
  BY <1>1, <1>2, <1>3, <1>4 DEF PitRecord, RtcRecord, ApicRecord, AcpiRecord
<1>10. pit.running = w.pit.running /\ pit.count = w.pit.count
  BY <1>1 DEF PitRecord
<1>11. rtc.age = w.rtc.age + n
  BY <1>1 DEF rtcAge, RtcRecord
<1> HIDE DEF pit, rtc, apic, acpi
<1>12. [w EXCEPT !.pit = pit, !.rtc = rtc, !.apic = apic, !.acpi = acpi, !.owed = owed,
                 !.phase = phase, !.second = second, !.elapsed = elapsed] \in WorldRecord
  BY <1>1, <1>5, <1>6, <1>9 DEF WorldRecord
<1>13. /\ Aged(w, n).pit = pit /\ Aged(w, n).elapsed = elapsed
       /\ Aged(w, n).rtc = rtc
  BY <1>1, <1>8 DEF WorldRecord
<1>14. elapsed = w.elapsed + n
  BY DEF elapsed
<1> QED BY <1>8, <1>10, <1>11, <1>12, <1>13, <1>14

LEMMA LeastIs ==
  ASSUME NEW S, \E m \in S : \A n \in S : m <= n
  PROVE  Least(S) \in S /\ \A n \in S : Least(S) <= n
BY DEF Least

\* A poll always finds something to wait for, and waits for nothing only where
\* a masked APIC timer is late by a period.
LEMMA WaitFits ==
  ASSUME NEW w, WorldFits(w)
  PROVE  /\ LeastWait(w) \in 0 .. TicksPerSecond + 1
         /\ LeastWait(w) = 0 => LateByAPeriod(Polled(w))
<1> DEFINE r == RtcWait(w.rtc)
           p == PitWait(w.pit)
           a == ApicWait(w.apic)
           c == AcpiWait(w.acpi)
<1>1. /\ w.pit \in PitRecord /\ w.rtc \in RtcRecord /\ w.apic \in ApicRecord
      /\ w.acpi \in AcpiRecord
  BY DEF WorldFits, WorldRecord
<1>2. r \in Int /\ r > 0 /\ r <= TicksPerSecond + 1
  BY <1>1, RtcWaits DEF WorldFits
<1>3. p \in Nat /\ p > 0 /\ c \in Nat /\ c > 0 /\ a \in Nat
  BY <1>1, PitWaits, AcpiWaits, ApicWaits DEF WorldFits
<1>4. a = 0 => LateByAPeriod(Polled(w))
  <2>1. /\ a = 0 => /\ Counting(w.apic) /\ w.apic.masked /\ w.apic.periodic
                    /\ ApicPolled(w.apic).left = 0
        /\ Polled(w).apic = ApicPolled(w.apic)
        /\ \A f \in {"count", "masked", "periodic"} : ApicPolled(w.apic)[f] = w.apic[f]
    BY <1>1, ApicWaits, ApicKept, PollFits
  <2> HIDE DEF a
  <2> QED BY <2>1 DEF LateByAPeriod, Counting
<1> HIDE DEF r, p, a, c
<1>5. \E m \in {r, p, a, c} : \A n \in {r, p, a, c} : m <= n
  BY <1>2, <1>3
<1>6. Least({r, p, a, c}) \in {r, p, a, c} /\ Least({r, p, a, c}) <= r
  BY <1>5, LeastIs
<1>7. LeastWait(w) = Least({r, p, a, c})
  BY DEF LeastWait, r, p, a, c
<1> QED BY <1>2, <1>3, <1>4, <1>6, <1>7, Sizes
-----------------------------------------------------------------------------
(* The CPU's loop.                                                         *)

\* What shortens the loop keeps the account.
LEMMA LoopFits ==
  ASSUME NEW c \in CpuRecord, NEW e \in Int, c.at = "in", Clocked(c, e)
  PROVE  \A d \in {c, LoopExit(c), Guarded(c), Cancelled(c), Halted(c)} :
            d \in CpuRecord /\ Ready(d, e)
<1> DEFINE now == Now(c)
<1>1. now \in Int /\ now = e
  BY DEF Clocked, CpuRecord, Now
<1>2. /\ c.toRun \in Nat /\ c.toRun > 0 /\ c.refill \in Nat /\ c.slice \in Nat /\ ~c.blocked
      /\ e + c.toRun + c.refill <= c.slice + 1 /\ c.toRun <= Never
      /\ Never \in Nat /\ Never >= 2
  BY Sizes DEF Clocked, CpuRecord
<1> HIDE DEF now
<1> DEFINE Short(t, r, h, b) == [c EXCEPT !.cycles = now, !.refill = r, !.toRun = t,
                                           !.offset = t, !.blocked = b, !.halted = h]
<1>3. ASSUME NEW t \in 0 .. Never, NEW r \in 0 .. Never, NEW h \in BOOLEAN, NEW b \in BOOLEAN,
             t # 0, t + r <= c.toRun, b => t = 1 /\ r = 0
      PROVE  Short(t, r, h, b) \in CpuRecord /\ Ready(Short(t, r, h, b), e)
  <2> DEFINE d == Short(t, r, h, b)
  <2>1. d \in CpuRecord
    BY <1>1, <1>3 DEF CpuRecord
  <2>2. /\ d.at = "in" /\ d.cycles = now /\ d.refill = r /\ d.toRun = t /\ d.offset = t
        /\ d.slice = c.slice /\ d.blocked = b
    BY DEF CpuRecord
  <2> HIDE DEF d
  <2>3. Ready(d, e)
    BY <1>1, <1>2, <1>3, <2>2 DEF Ready, Now
  <2> QED BY <2>1, <2>3 DEF d
<1>4. Ready(c, e)
  BY <1>1, <1>2 DEF Ready, now
<1>5. c.halted \in BOOLEAN /\ c.blocked \in BOOLEAN
  BY DEF CpuRecord
<1>6. LoopExit(c) = Short(1, c.toRun - 1, c.halted, c.blocked)
  BY DEF LoopExit, CpuRecord, now
<1>7. Guarded(c) = IF c.toRun # 1 THEN Short(2, c.toRun - 2, c.halted, c.blocked)
                   ELSE Short(1, 0, c.halted, TRUE)
  BY DEF Guarded, CpuRecord, now
<1>8. Cancelled(c) = Short(1, 0, FALSE, c.blocked)
  BY DEF Cancelled, CpuRecord, now
<1>9. Halted(c) = Short(1, 0, TRUE, FALSE)
  BY DEF Halted, Cancelled, CpuRecord, now
<1> HIDE DEF Short
<1> DEFINE Short0(h, b) == Short(1, 0, h, b)
<1>10. ASSUME NEW h \in BOOLEAN, NEW b \in BOOLEAN
       PROVE  Short0(h, b) \in CpuRecord /\ Ready(Short0(h, b), e)
  <2>1. 1 \in 0 .. Never /\ 0 \in 0 .. Never /\ 1 # 0 /\ 1 + 0 <= c.toRun
    BY <1>2
  <2>2. b => 1 = 1 /\ 0 = 0
    OBVIOUS
  <2> QED BY <2>1, <2>2, <1>3, Zenon
<1>11. TRUE \in BOOLEAN /\ FALSE \in BOOLEAN
  OBVIOUS
<1>12. LoopExit(c) \in CpuRecord /\ Ready(LoopExit(c), e)
  BY <1>2, <1>3, <1>5, <1>6
<1>13. Guarded(c) \in CpuRecord /\ Ready(Guarded(c), e)
  <2>1. CASE c.toRun # 1
    BY <1>2, <1>3, <1>5, <1>7, <2>1
  <2>2. CASE c.toRun = 1
    BY <1>5, <1>7, <1>10, <1>11, <2>2, Zenon
  <2> QED BY <2>1, <2>2
<1>14. Cancelled(c) \in CpuRecord /\ Ready(Cancelled(c), e)
  BY <1>5, <1>8, <1>10, <1>11, Zenon
<1>15. Halted(c) \in CpuRecord /\ Ready(Halted(c), e)
  BY <1>9, <1>10, <1>11, Zenon
<1> QED BY <1>4, <1>12, <1>13, <1>14, <1>15

\* So does executing.
LEMMA ExecutedFits ==
  ASSUME NEW c \in CpuRecord, NEW e \in Int, Ready(c, e), NEW n \in 1 .. c.toRun
  PROVE  LET d == Executed(c, n)
         IN  /\ d \in CpuRecord /\ Clocked(d, e + n)
             /\ d.at \in {"top", "in", "done"} /\ (d.at = "top" => d.toRun # 0)
<1>1. /\ c.toRun \in 0 .. Never /\ c.refill \in 0 .. Never /\ c.slice \in Nat
      /\ c.cycles \in Int /\ c.offset \in Int /\ n \in Nat /\ n > 0 /\ n <= c.toRun
      /\ Never \in Nat /\ Now(c) = e /\ Now(c) = c.cycles + c.offset - c.toRun
  BY Sizes DEF CpuRecord, Ready, Now
<1>2. CASE c.toRun # n
  <2> DEFINE t == c.toRun - n
             d == [c EXCEPT !.toRun = t]
  <2>1. t \in 0 .. Never /\ t > 0
    BY <1>1, <1>2
  <2>2. Executed(c, n) = d
    BY <1>2 DEF Executed, CpuRecord
  <2>3. /\ d.at = "in" /\ d.cycles = c.cycles /\ d.refill = c.refill /\ d.toRun = t
        /\ d.offset = c.offset /\ d.slice = c.slice /\ d.blocked = c.blocked
    BY DEF CpuRecord, Ready
  <2>4. t = c.toRun - n /\ ~c.blocked
    BY <1>1, <1>2 DEF Ready
  <2> HIDE DEF t
  <2>5. d \in CpuRecord
    BY <2>1 DEF CpuRecord
  <2> HIDE DEF d
  <2>6. Clocked(d, e + n)
    BY <1>1, <2>1, <2>3, <2>4 DEF Clocked, Now, Ready
  <2> QED BY <2>2, <2>3, <2>5, <2>6
<1>3. CASE c.toRun = n
  <2> DEFINE now == c.cycles + c.offset
             at == IF c.refill = 0 THEN "done" ELSE "top"
             none == 0
             d == [c EXCEPT !.cycles = now, !.toRun = c.refill, !.offset = c.refill,
                            !.refill = none, !.at = at]
  <2>1. Executed(c, n) = d
    <3>1. Now([c EXCEPT !.toRun = 0]) = now
      BY <1>1 DEF Now, CpuRecord
    <3> QED BY <1>3, <3>1 DEF Executed
  <2>2. now \in Int /\ now = e + n /\ none \in 0 .. Never /\ none = 0
    BY <1>1, <1>3
  <2>3. at \in {"top", "done"} /\ (at = "top" <=> c.refill # 0)
    OBVIOUS
  <2> HIDE DEF now, at, none
  <2>4. /\ d.at = at /\ d.cycles = now /\ d.refill = none /\ d.toRun = c.refill
        /\ d.offset = c.refill /\ d.slice = c.slice /\ d.blocked = c.blocked
    BY DEF CpuRecord
  <2>5. d \in CpuRecord
    <3>1. at \in {"poll", "top", "in", "done", "lost"}
      BY <2>3
    <3> QED BY <1>1, <2>2, <3>1 DEF CpuRecord
  <2> HIDE DEF d
  <2>6. Clocked(d, e + n)
    BY <1>1, <1>3, <2>2, <2>3, <2>4 DEF Clocked, Now, Ready
  <2> QED BY <2>1, <2>3, <2>4, <2>5, <2>6
<1> QED BY <1>2, <1>3
-----------------------------------------------------------------------------
(* The invariant.                                                          *)

LEMMA Initially ==
  ASSUME Init
  PROVE  IInv
<1> USE DEF Init
<1>1. use \in Uses
  OBVIOUS
<1>2. world \in WorldRecord
  <2>1. world.pit \in PitRecord /\ world.rtc \in RtcRecord
    BY Sizes DEF PitRecord, RtcRecord, Interrupts
  <2>2. world.apic \in ApicRecord /\ world.acpi \in AcpiRecord
    BY DEF ApicRecord, AcpiRecord
  <2> QED BY <2>1, <2>2, Sizes DEF WorldRecord, Pins, Sources
<1>3. cpu \in CpuRecord
  BY Sizes DEF CpuRecord
<1>4. ~world.pit.running /\ world.rtc.age = 0 /\ cpu.at = "poll"
  OBVIOUS
<1> QED BY <1>1, <1>2, <1>3, <1>4
        DEF IInv, Types, WorldFits, Clocked, Timely, Stalls

\* A step of the guest: what it does to the devices and to the loop, and the
\* cycle it takes.
LEMMA InstructionFits ==
  ASSUME IInv, cpu.at = "in", NEW w, WorldFits(w), w.elapsed = world.elapsed,
         NEW c \in CpuRecord, Ready(c, world.elapsed), NEW n \in 1 .. c.toRun,
         world' = Aged(w, n), cpu' = Executed(c, n), UNCHANGED use
  PROVE  IInv'
<1>1. /\ world.elapsed \in Int /\ world.elapsed >= 0 /\ n \in Nat /\ n > 0
      /\ w.rtc.age \in Int /\ w.rtc.age >= -1
  BY DEF IInv, Types, Timely, WorldFits, WorldRecord, RtcRecord, CpuRecord
<1>2. /\ WorldFits(Aged(w, n)) /\ Aged(w, n).elapsed = w.elapsed + n
      /\ Aged(w, n).rtc.age = w.rtc.age + n
  BY <1>1, AgeFits
<1>3. /\ cpu' \in CpuRecord /\ Clocked(cpu', world.elapsed + n)
      /\ cpu'.at \in {"top", "in", "done"} /\ (cpu'.at = "top" => cpu'.toRun # 0)
  BY <1>1, ExecutedFits
<1>4. Types'
  BY <1>2, <1>3 DEF IInv, Types, WorldFits
<1>5. Clocked(cpu', world'.elapsed) /\ Timely(cpu', world') /\ Stalls(cpu', world')
  BY <1>1, <1>2, <1>3 DEF Timely, Stalls
<1> QED BY <1>4, <1>5 DEF IInv, Clocked, Timely, Stalls, Now, LateByAPeriod, Counting

LEMMA Polling ==
  ASSUME IInv, StartSlice
  PROVE  IInv'
<1> DEFINE n == Slice(cpu, world)
           w == Polled(world)
           zero == 0
<1>1. /\ WorldFits(world) /\ cpu \in CpuRecord /\ use \in Uses /\ use' = use
      /\ cpu.at = "poll"
  BY DEF IInv, Types, StartSlice
<1>2. /\ n \in 0 .. TicksPerSecond + 1 /\ n \in 0 .. Never
      /\ (n = 0 => LateByAPeriod(w))
  <2>1. /\ LeastWait(world) \in 0 .. TicksPerSecond + 1
        /\ LeastWait(world) = 0 => LateByAPeriod(Polled(world))
    BY <1>1, WaitFits
  <2> QED BY <2>1, Sizes DEF Slice, Min2
<1>3. WorldFits(w)
  BY <1>1, PollFits
<1>4. /\ world' = [w EXCEPT !.elapsed = zero]
      /\ cpu' = [cpu EXCEPT !.at = "top", !.slice = n, !.cycles = zero, !.refill = zero,
                            !.toRun = n, !.offset = n]
  BY DEF StartSlice
<1>5. zero \in Int /\ zero = 0 /\ zero \in 0 .. Never
  BY Sizes
<1> HIDE DEF n, w, zero
<1>6. world' \in WorldRecord
  BY <1>3, <1>4, <1>5 DEF WorldFits, WorldRecord
<1>7. world'.pit = w.pit /\ world'.rtc = w.rtc /\ world'.apic = w.apic /\ world'.elapsed = 0
  BY <1>3, <1>4, <1>5 DEF WorldFits, WorldRecord
<1>8. cpu' \in CpuRecord
  BY <1>1, <1>2, <1>4, <1>5 DEF CpuRecord
<1>9. /\ cpu'.at = "top" /\ cpu'.slice = n /\ cpu'.cycles = 0 /\ cpu'.refill = 0
      /\ cpu'.toRun = n /\ cpu'.offset = n
  BY <1>1, <1>4, <1>5 DEF CpuRecord
<1>10. Types'
  BY <1>1, <1>3, <1>6, <1>7, <1>8 DEF Types, WorldFits
<1>11. Clocked(cpu, world.elapsed)'
  BY <1>2, <1>7, <1>9 DEF Clocked, Now
<1>12. Timely(cpu, world)' /\ Stalls(cpu, world)'
  BY <1>2, <1>7, <1>9 DEF Timely, Stalls, LateByAPeriod, Counting
<1> QED BY <1>10, <1>11, <1>12 DEF IInv

\* The top of the loop.
LEMMA EnteredFits ==
  ASSUME NEW c \in CpuRecord, NEW e \in Int, c.at = "top", Clocked(c, e)
  PROVE  LET d == Entered(c)
         IN  /\ d \in CpuRecord /\ Clocked(d, e) /\ d.at \in {"done", "lost", "in"}
             /\ d.at = "lost" => c.toRun = 0
<1> DEFINE now == Now(c)
<1>1. /\ now \in Int /\ now = e /\ now = c.cycles + c.offset - c.toRun
      /\ c.toRun \in Nat /\ c.refill \in Nat /\ c.slice \in Nat
      /\ e + c.toRun + c.refill <= c.slice + 1 /\ Never \in Nat /\ Never >= c.slice /\ Never >= 1
  BY Sizes DEF Clocked, CpuRecord, Now
<1> HIDE DEF now
<1>2. CASE c.halted
  <2> DEFINE d == [c EXCEPT !.at = "done"]
  <2>1. d \in CpuRecord /\ Entered(c) = d
    BY <1>2 DEF CpuRecord, Entered
  <2>2. /\ d.at = "done" /\ d.cycles = c.cycles /\ d.offset = c.offset /\ d.toRun = c.toRun
        /\ d.slice = c.slice
    BY DEF CpuRecord
  <2> HIDE DEF d
  <2>3. Clocked(d, e)
    BY <1>1, <2>2 DEF Clocked, Now
  <2> QED BY <2>1, <2>2, <2>3
<1>3. CASE ~c.halted /\ c.toRun = 0
  <2> DEFINE d == [c EXCEPT !.at = "lost"]
  <2>1. d \in CpuRecord /\ Entered(c) = d /\ d.at = "lost"
    BY <1>3 DEF CpuRecord, Entered
  <2> HIDE DEF d
  <2> QED BY <1>3, <2>1 DEF Clocked
<1>4. CASE ~c.halted /\ c.toRun # 0 /\ c.blocked
  <2> DEFINE one == 1
             no == FALSE
             d == [c EXCEPT !.at = "in", !.refill = c.slice, !.cycles = now, !.toRun = one,
                            !.offset = one, !.blocked = no]
  <2>1. Entered(c) = d
    BY <1>4 DEF Entered, now
  <2>2. c.slice \in 0 .. Never /\ one \in 0 .. Never /\ one = 1 /\ no \in BOOLEAN /\ ~no
    BY <1>1
  <2> HIDE DEF one, no
  <2>3. d \in CpuRecord
    BY <1>1, <2>2 DEF CpuRecord
  <2>4. /\ d.at = "in" /\ d.refill = c.slice /\ d.cycles = now /\ d.toRun = one
        /\ d.offset = one /\ d.blocked = no /\ d.slice = c.slice
    BY DEF CpuRecord
  <2>5. e = 0
    BY <1>4 DEF Clocked
  <2>6. ~d.blocked
    BY <2>2, <2>4, Zenon
  <2> HIDE DEF d
  <2>7. d.cycles + d.offset - d.toRun = e /\ e + d.toRun + d.refill <= d.slice + 1
    <3>1. /\ d.cycles = 0 /\ d.offset = 1 /\ d.toRun = 1 /\ d.refill = c.slice
          /\ d.slice = c.slice /\ c.slice \in Nat
      BY <1>1, <2>2, <2>4, <2>5, Zenon
    <3> QED BY <2>5, <3>1
  <2>8. Clocked(d, e)
    BY <2>2, <2>4, <2>6, <2>7 DEF Clocked, Now
  <2> QED BY <2>1, <2>3, <2>4, <2>8
<1>5. CASE ~c.halted /\ c.toRun # 0 /\ ~c.blocked
  <2> DEFINE d == [c EXCEPT !.at = "in"]
  <2>1. d \in CpuRecord /\ Entered(c) = d
    BY <1>5 DEF CpuRecord, Entered
  <2>2. /\ d.at = "in" /\ d.cycles = c.cycles /\ d.offset = c.offset /\ d.toRun = c.toRun
        /\ d.slice = c.slice /\ d.refill = c.refill /\ d.blocked = c.blocked
    BY DEF CpuRecord
  <2> HIDE DEF d
  <2>3. Clocked(d, e)
    BY <1>1, <1>5, <2>2 DEF Clocked, Now
  <2> QED BY <2>1, <2>2, <2>3
<1> QED BY <1>2, <1>3, <1>4, <1>5 DEF CpuRecord

LEMMA Entering ==
  ASSUME IInv, EnterLoop
  PROVE  IInv'
<1>1. /\ cpu \in CpuRecord /\ world.elapsed \in Int /\ cpu.at = "top"
      /\ world' = world /\ use' = use /\ cpu' = Entered(cpu)
  BY DEF IInv, Types, WorldFits, WorldRecord, EnterLoop
<1>2. /\ cpu' \in CpuRecord /\ Clocked(cpu', world.elapsed) /\ cpu'.at \in {"done", "lost", "in"}
      /\ cpu'.at = "lost" => cpu.toRun = 0
  BY <1>1, EnteredFits DEF IInv
<1>3. Types' /\ Clocked(cpu, world.elapsed)'
  BY <1>1, <1>2 DEF IInv, Types, WorldFits, Clocked, Now
<1>4. Timely(cpu, world)' /\ Stalls(cpu, world)'
  BY <1>1, <1>2 DEF IInv, Timely, Stalls, LateByAPeriod, Counting
<1> QED BY <1>3, <1>4 DEF IInv

LEMMA Interrupting ==
  ASSUME IInv, TakeInterrupt
  PROVE  IInv'
<1>1. PICK d \in world.pending :
        /\ world' = [world EXCEPT !.pending = @ \ {d}]
        /\ cpu' = Entered([cpu EXCEPT !.if = FALSE, !.halted = FALSE, !.handling = d])
  BY DEF TakeInterrupt
<1> DEFINE pending == world.pending \ {d}
           no == FALSE
           c == [cpu EXCEPT !.if = no, !.halted = no, !.handling = d]
<1>2. /\ world \in WorldRecord /\ cpu \in CpuRecord /\ world.elapsed \in Int /\ use' = use
      /\ cpu.at = "top" /\ pending \in SUBSET Sources /\ d \in Sources /\ no \in BOOLEAN
  BY DEF IInv, Types, WorldFits, WorldRecord, TakeInterrupt
<1>3. world' = [world EXCEPT !.pending = pending] /\ cpu' = Entered(c)
  BY <1>1
<1> HIDE DEF pending, no
<1>4. /\ c \in CpuRecord /\ c.at = "top" /\ c.toRun = cpu.toRun /\ c.offset = cpu.offset
      /\ c.cycles = cpu.cycles /\ c.refill = cpu.refill /\ c.slice = cpu.slice
      /\ c.blocked = cpu.blocked
  BY <1>2 DEF CpuRecord
<1> HIDE DEF c
<1>5. Clocked(c, world.elapsed)
  BY <1>2, <1>4 DEF IInv, Clocked, Now
<1>6. /\ cpu' \in CpuRecord /\ Clocked(cpu', world.elapsed) /\ cpu'.at \in {"done", "lost", "in"}
      /\ cpu'.at = "lost" => c.toRun = 0
  BY <1>2, <1>3, <1>4, <1>5, EnteredFits
<1>7. /\ world' \in WorldRecord /\ world'.pit = world.pit /\ world'.rtc = world.rtc
      /\ world'.apic = world.apic /\ world'.elapsed = world.elapsed
  BY <1>2, <1>3 DEF WorldRecord
<1>8. Types' /\ Clocked(cpu, world.elapsed)'
  BY <1>2, <1>6, <1>7 DEF IInv, Types, WorldFits, Clocked, Now
<1>9. Timely(cpu, world)' /\ Stalls(cpu, world)'
  BY <1>2, <1>4, <1>6, <1>7 DEF IInv, Timely, Stalls, LateByAPeriod, Counting
<1> QED BY <1>8, <1>9 DEF IInv

\* The time that is skipped is one cycle less than none at worst.
LEMMA Ending ==
  ASSUME IInv, EndSlice
  PROVE  IInv'
<1> DEFINE n == cpu.slice - (IF cpu.toRun = 0 THEN cpu.cycles ELSE 0) + LeastWait(world)
           w == Polled(world)
           zero == 0
<1>1. /\ WorldFits(world) /\ cpu \in CpuRecord /\ use \in Uses /\ use' = use
      /\ cpu.at = "done" /\ world.elapsed \in Int /\ world.rtc.age \in Int
  BY DEF IInv, Types, WorldFits, WorldRecord, RtcRecord, EndSlice
<1>2. LeastWait(world) \in Nat
  BY <1>1, WaitFits
<1>3. n \in Int /\ (n < 0 => n = -1 /\ world.elapsed > 0)
  <2>1. /\ cpu.slice \in Nat /\ cpu.cycles \in Int /\ cpu.toRun \in Nat /\ cpu.offset = cpu.toRun
        /\ cpu.cycles + cpu.offset - cpu.toRun = world.elapsed
        /\ world.elapsed <= cpu.slice + 1
    BY <1>1 DEF IInv, Clocked, Now, CpuRecord
  <2> QED BY <1>1, <1>2, <2>1
<1>4. WorldFits(w) /\ w.rtc.age \in {world.rtc.age, 0}
  BY <1>1, PollFits
<1>5. w.rtc.age + n >= -1
  <2>1. world.elapsed > 0 => world.rtc.age >= 0
    BY <1>1 DEF IInv, Timely
  <2>2. world.rtc.age >= -1 /\ w.rtc.age >= -1
    BY <1>1, <1>4 DEF WorldFits
  <2> HIDE DEF w, n
  <2> QED BY <1>1, <1>3, <1>4, <2>1, <2>2
<1>6. WorldFits(world')
  <2>1. world' = IF cpu.halted /\ cpu.if THEN Aged(w, n) ELSE world
    BY DEF EndSlice
  <2> HIDE DEF w, n
  <2>2. WorldFits(Aged(w, n))
    BY <1>3, <1>4, <1>5, AgeFits
  <2> QED BY <1>1, <2>1, <2>2
<1>7. cpu' \in CpuRecord /\ cpu'.at = "poll"
  <2>1. cpu' = [cpu EXCEPT !.at = "poll", !.toRun = zero, !.offset = zero, !.cycles = zero,
                           !.slice = zero]
    BY DEF EndSlice
  <2>2. zero \in Int /\ zero \in 0 .. Never /\ zero \in 0 .. TicksPerSecond + 1
    BY Sizes
  <2> HIDE DEF zero
  <2> QED BY <1>1, <2>1, <2>2 DEF CpuRecord
<1>8. Types'
  BY <1>1, <1>6, <1>7 DEF Types, WorldFits
<1> QED BY <1>7, <1>8 DEF IInv, Clocked, Timely, Stalls

LEMMA Running ==
  ASSUME IInv, RunOn
  PROVE  IInv'
<1> DEFINE w == Aged(world, 1)
<1>1. /\ WorldFits(world) /\ cpu \in CpuRecord /\ use \in Uses /\ use' = use /\ cpu' = cpu
      /\ cpu.at = "lost" /\ world.rtc.age \in Int /\ world.rtc.age >= -1
      /\ world' = [w EXCEPT !.elapsed = world.elapsed, !.rtc = world.rtc, !.apic = world.apic]
  BY DEF IInv, Types, WorldFits, WorldRecord, RtcRecord, RunOn
<1>2. WorldFits(w)
  BY <1>1, AgeFits
<1>3. /\ world.elapsed \in Int /\ world.rtc \in RtcRecord /\ world.apic \in ApicRecord
      /\ w \in WorldRecord
  BY <1>1, <1>2 DEF WorldFits, WorldRecord
<1> HIDE DEF w
<1>4. /\ world' \in WorldRecord /\ world'.pit = w.pit /\ world'.rtc = world.rtc
      /\ world'.apic = world.apic
  BY <1>1, <1>3 DEF WorldRecord
<1>5. Types'
  BY <1>1, <1>2, <1>4 DEF Types, WorldFits
<1> QED BY <1>1, <1>4, <1>5 DEF IInv, Clocked, Timely, Stalls, LateByAPeriod, Counting
-----------------------------------------------------------------------------
(* The guest.                                                              *)

\* One cycle, with what the instruction did to devices and loop.
LEMMA OneInstruction ==
  ASSUME IInv, NEW w, WorldFits(w), w.elapsed = world.elapsed,
         NEW c \in CpuRecord, Ready(c, world.elapsed), Instruction(w, c)
  PROVE  IInv'
<1>1. cpu.at = "in" /\ world' = Aged(w, 1) /\ cpu' = Executed(c, 1) /\ use' = use
  BY DEF Instruction
<1>2. 1 \in 1 .. c.toRun
  BY Sizes DEF CpuRecord, Ready
<1> QED BY <1>1, <1>2, InstructionFits

\* The states an instruction starts in.
LEMMA InLoop ==
  ASSUME IInv
  PROVE  /\ world \in WorldRecord /\ WorldFits(world) /\ cpu \in CpuRecord
         /\ world.pit \in PitRecord /\ world.rtc \in RtcRecord /\ world.apic \in ApicRecord
         /\ world.acpi \in AcpiRecord /\ world.elapsed \in Int
         /\ use \in Use /\ use.rates \subseteq 0 .. TicksPerSecond
         /\ cpu.at = "in" =>
              \A d \in {cpu, LoopExit(cpu), Guarded(cpu), Cancelled(cpu), Halted(cpu)} :
                 d \in CpuRecord /\ Ready(d, world.elapsed)
BY LoopFits, TimersAssumption DEF IInv, Types, WorldFits, WorldRecord

\* An instruction of a program, or several.
LEMMA Computing ==
  ASSUME IInv, Compute
  PROVE  IInv'
<1>1. PICK n \in 1 .. cpu.toRun : cpu' = Executed(cpu, n) /\ world' = Aged(world, n)
  BY DEF Compute
<1>2. cpu.at = "in" /\ use' = use
  BY DEF Compute
<1>3. cpu \in CpuRecord /\ Ready(cpu, world.elapsed) /\ WorldFits(world)
  BY <1>2, InLoop
<1> QED BY <1>1, <1>2, <1>3, InstructionFits

LEMMA Counts ==
  ASSUME IInv, WriteCount
  PROVE  IInv'
<1>1. PICK v \in use.loads :
        Instruction([world EXCEPT !.pit = Loaded(@, v), !.owed = 0, !.phase = 0, !.fresh = TRUE,
                                  !.unseen = FALSE], cpu)
  BY DEF WriteCount
<1> DEFINE pit == Loaded(world.pit, v)
           zero == 0
           yes == TRUE
           no == FALSE
           w == [world EXCEPT !.pit = pit, !.owed = zero, !.phase = zero, !.fresh = yes,
                              !.unseen = no]
<1>2. Instruction(w, cpu)
  BY <1>1
<1>3. pit \in PitRecord /\ (pit.running => pit.count # 0)
  <2>1. v \in 0 .. Reload - 1 /\ world.pit \in PitRecord
    BY InLoop DEF Use
  <2> DEFINE n == IF v = 0 THEN Reload ELSE v
             age == 0
             last == 0
  <2>2. n \in 0 .. Reload /\ n # 0 /\ age \in Nat /\ last \in 0 .. Reload /\ yes \in BOOLEAN
    BY <2>1, Sizes
  <2>3. pit = [world.pit EXCEPT !.count = n, !.age = age, !.running = yes, !.last = last]
    BY DEF Loaded
  <2> HIDE DEF pit, n, age, last, yes
  <2> QED BY <2>1, <2>2, <2>3 DEF PitRecord
<1>4. zero \in Nat /\ zero \in -MaxOwed .. MaxOwed /\ yes \in BOOLEAN /\ no \in BOOLEAN
  BY Sizes
<1> HIDE DEF pit, zero, yes, no
<1>5. /\ w \in WorldRecord /\ w.pit = pit /\ w.rtc = world.rtc /\ w.elapsed = world.elapsed
  BY <1>3, <1>4, InLoop DEF WorldRecord
<1> HIDE DEF w
<1>6. WorldFits(w)
  BY <1>3, <1>5, InLoop DEF WorldFits
<1>7. cpu.at = "in"
  BY <1>2 DEF Instruction
<1> QED BY <1>2, <1>5, <1>6, <1>7, InLoop, OneInstruction

LEMMA Modes ==
  ASSUME IInv, WriteMode
  PROVE  IInv'
<1> DEFINE edge(m) == m = 2 /\ "pit" \notin world.pins
           pins(m) == world.pins \cup (IF m = 2 THEN {"pit"} ELSE {})
           pending(m) == world.pending \cup (IF edge(m) THEN {"pit"} ELSE {})
           pit(m) == [world.pit EXCEPT !.mode = m]
           w(m) == [world EXCEPT !.pit = pit(m), !.pins = pins(m), !.pending = pending(m)]
           c(m) == IF edge(m) THEN LoopExit(cpu) ELSE cpu
<1>1. PICK m \in use.modes :
        Instruction([world EXCEPT !.pit.mode = m,
                                  !.pins = @ \cup (IF m = 2 THEN {"pit"} ELSE {}),
                                  !.pending = @ \cup (IF edge(m) THEN {"pit"} ELSE {})],
                    IF edge(m) THEN LoopExit(cpu) ELSE cpu)
  BY DEF WriteMode
<1>2. w(m) = [world EXCEPT !.pit.mode = m,
                           !.pins = @ \cup (IF m = 2 THEN {"pit"} ELSE {}),
                           !.pending = @ \cup (IF edge(m) THEN {"pit"} ELSE {})]
  BY InLoop DEF WorldRecord
<1>3. Instruction(w(m), c(m)) /\ cpu.at = "in"
  BY <1>1, <1>2 DEF Instruction
<1>4. pit(m) \in PitRecord /\ pit(m).running = world.pit.running /\ pit(m).count = world.pit.count
  BY InLoop DEF PitRecord, Use
<1>5. pins(m) \in SUBSET Pins /\ pending(m) \in SUBSET Sources
  BY InLoop DEF WorldRecord, Pins, Sources
<1>6. c(m) \in CpuRecord /\ Ready(c(m), world.elapsed)
  BY <1>3, InLoop
<1> HIDE DEF pit, pins, pending, c
<1>7. /\ w(m) \in WorldRecord /\ w(m).pit = pit(m) /\ w(m).rtc = world.rtc
      /\ w(m).elapsed = world.elapsed
  BY <1>4, <1>5, InLoop DEF WorldRecord
<1> HIDE DEF w
<1>8. WorldFits(w(m))
  BY <1>4, <1>7, InLoop DEF WorldFits
<1> QED BY <1>3, <1>6, <1>7, <1>8, OneInstruction

\* Writes to the CMOS clock's registers A and B.
LEMMA RetimedFits ==
  ASSUME NEW r \in RtcRecord, r.age >= -1
  PROVE  Retimed(r) \in RtcRecord /\ Retimed(r).age >= -1
<1> DEFINE zero == 0
           period == TicksPerSecond \div r.rate
           full == TicksPerSecond
<1>1. r.rate \in 0 .. TicksPerSecond
  BY DEF RtcRecord
<1>2. r.rate # 0 => period \in 1 .. TicksPerSecond
  BY <1>1, DivNat, Sizes
<1>3. zero \in Nat /\ zero \in Int /\ zero = 0 /\ full \in 1 .. TicksPerSecond /\ r.rate \in Nat
  BY <1>1, Sizes
<1>4. CASE r.rate = 0
  BY <1>4 DEF Retimed
<1>5. CASE r.rate # 0 /\ "periodic" \in r.enabled
  <2>1. Retimed(r) = [r EXCEPT !.period = period, !.ticks = zero, !.max = r.rate, !.age = zero]
    BY <1>5 DEF Retimed
  <2>2. period \in 1 .. TicksPerSecond
    BY <1>2, <1>5
  <2> HIDE DEF zero, period
  <2>3. [r EXCEPT !.period = period, !.ticks = zero, !.max = r.rate, !.age = zero] \in RtcRecord
    BY <1>3, <2>2 DEF RtcRecord
  <2>4. [r EXCEPT !.period = period, !.ticks = zero, !.max = r.rate, !.age = zero].age = zero
    BY DEF RtcRecord
  <2> QED BY <1>3, <2>1, <2>3, <2>4
<1>6. CASE r.rate # 0 /\ "periodic" \notin r.enabled
  <2>1. Retimed(r) = [r EXCEPT !.period = full, !.age = zero]
    BY <1>6 DEF Retimed
  <2> HIDE DEF zero, full
  <2>2. [r EXCEPT !.period = full, !.age = zero] \in RtcRecord
    BY <1>3 DEF RtcRecord
  <2>3. [r EXCEPT !.period = full, !.age = zero].age = zero
    BY DEF RtcRecord
  <2> QED BY <1>3, <2>1, <2>2, <2>3
<1> QED BY <1>4, <1>5, <1>6

LEMMA Timekeeping ==
  ASSUME IInv, NEW r \in RtcRecord, r.age >= -1,
         Instruction([world EXCEPT !.rtc = Retimed(r)], cpu)
  PROVE  IInv'
<1> DEFINE rtc == Retimed(r)
           w == [world EXCEPT !.rtc = rtc]
<1>1. rtc \in RtcRecord /\ rtc.age >= -1
  BY RetimedFits
<1>2. Instruction(w, cpu) /\ cpu.at = "in"
  BY DEF Instruction
<1> HIDE DEF rtc
<1>3. /\ w \in WorldRecord /\ w.pit = world.pit /\ w.rtc = rtc /\ w.elapsed = world.elapsed
  BY <1>1, InLoop DEF WorldRecord
<1> HIDE DEF w
<1>4. WorldFits(w)
  BY <1>1, <1>3, InLoop DEF WorldFits
<1> QED BY <1>2, <1>3, <1>4, InLoop, OneInstruction

LEMMA RegisterA ==
  ASSUME IInv, WriteRegisterA
  PROVE  IInv'
<1>1. PICK f \in use.rates : Instruction([world EXCEPT !.rtc = Retimed([@ EXCEPT !.rate = f])], cpu)
  BY DEF WriteRegisterA
<1> DEFINE r == [world.rtc EXCEPT !.rate = f]
<1>2. r \in RtcRecord /\ r.age = world.rtc.age
  BY InLoop DEF RtcRecord
<1>3. r.age >= -1
  BY <1>2, InLoop DEF WorldFits
<1>4. Instruction([world EXCEPT !.rtc = Retimed(r)], cpu)
  BY <1>1
<1> QED BY <1>2, <1>3, <1>4, Timekeeping

LEMMA RegisterB ==
  ASSUME IInv, WriteRegisterB
  PROVE  IInv'
<1>1. PICK e \in use.enables :
        Instruction([world EXCEPT !.rtc = Retimed([@ EXCEPT !.enabled = e])], cpu)
  BY DEF WriteRegisterB
<1> DEFINE r == [world.rtc EXCEPT !.enabled = e]
<1>2. e \in SUBSET Interrupts
  BY InLoop DEF Use, Interrupts
<1>3. r \in RtcRecord /\ r.age = world.rtc.age
  BY <1>2, InLoop DEF RtcRecord
<1>4. r.age >= -1
  BY <1>3, InLoop DEF WorldFits
<1>5. Instruction([world EXCEPT !.rtc = Retimed(r)], cpu)
  BY <1>1
<1> QED BY <1>3, <1>4, <1>5, Timekeeping

\* Writes to the APIC's timer and to the power management's enable bit.
LEMMA ApicWritten ==
  ASSUME IInv, cpu.at = "in", NEW apic \in ApicRecord, NEW c \in {cpu, Cancelled(cpu)},
         Instruction([world EXCEPT !.apic = apic], c)
  PROVE  IInv'
<1> DEFINE w == [world EXCEPT !.apic = apic]
<1>1. /\ w \in WorldRecord /\ w.pit = world.pit /\ w.rtc = world.rtc
      /\ w.elapsed = world.elapsed
  BY InLoop DEF WorldRecord
<1>2. Instruction(w, c)
  OBVIOUS
<1> HIDE DEF w
<1>3. WorldFits(w)
  BY <1>1, InLoop DEF WorldFits
<1> QED BY <1>1, <1>2, <1>3, InLoop, OneInstruction

LEMMA InitialCounts ==
  ASSUME IInv, WriteInitialCount
  PROVE  IInv'
<1>1. PICK n \in use.counts :
        Instruction([world EXCEPT !.apic.count = n, !.apic.left = n], Cancelled(cpu))
  BY DEF WriteInitialCount
<1> DEFINE apic == [world.apic EXCEPT !.count = n, !.left = n]
<1>2. n \in Nat /\ n \in Int
  BY InLoop DEF Use
<1>3. apic \in ApicRecord
  BY <1>2, InLoop DEF ApicRecord
<1>4. [world EXCEPT !.apic.count = n, !.apic.left = n] = [world EXCEPT !.apic = apic]
  BY InLoop DEF WorldRecord, ApicRecord
<1>5. cpu.at = "in"
  BY <1>1 DEF Instruction
<1> HIDE DEF apic
<1> QED BY <1>1, <1>3, <1>4, <1>5, ApicWritten

LEMMA TimerEntries ==
  ASSUME IInv, WriteTimerEntry
  PROVE  IInv'
<1>1. PICK m \in use.masked, p \in BOOLEAN :
        Instruction([world EXCEPT !.apic.masked = m, !.apic.periodic = p], cpu)
  BY DEF WriteTimerEntry
<1> DEFINE apic == [world.apic EXCEPT !.masked = m, !.periodic = p]
<1>2. m \in BOOLEAN /\ p \in BOOLEAN
  BY InLoop DEF Use
<1>3. apic \in ApicRecord
  BY <1>2, InLoop DEF ApicRecord
<1>4. [world EXCEPT !.apic.masked = m, !.apic.periodic = p] = [world EXCEPT !.apic = apic]
  BY InLoop DEF WorldRecord, ApicRecord
<1>5. cpu.at = "in"
  BY <1>1 DEF Instruction
<1> HIDE DEF apic
<1> QED BY <1>1, <1>3, <1>4, <1>5, ApicWritten

LEMMA PowerManagement ==
  ASSUME IInv, WritePowerManagement
  PROVE  IInv'
<1>1. PICK e \in BOOLEAN : Instruction([world EXCEPT !.acpi.enabled = e], cpu)
  BY DEF WritePowerManagement
<1> DEFINE acpi == [world.acpi EXCEPT !.enabled = e]
           w == [world EXCEPT !.acpi = acpi]
<1>2. acpi \in AcpiRecord
  BY InLoop DEF AcpiRecord
<1>3. Instruction(w, cpu) /\ cpu.at = "in"
  BY <1>1, InLoop DEF Instruction, WorldRecord
<1> HIDE DEF acpi
<1>4. /\ w \in WorldRecord /\ w.pit = world.pit /\ w.rtc = world.rtc
      /\ w.elapsed = world.elapsed
  BY <1>2, InLoop DEF WorldRecord
<1> HIDE DEF w
<1>5. WorldFits(w)
  BY <1>4, InLoop DEF WorldFits
<1> QED BY <1>3, <1>4, <1>5, InLoop, OneInstruction

\* IF and the handler that runs are no part of the account.
LEMMA FlagsFree ==
  ASSUME NEW c \in CpuRecord, NEW f \in BOOLEAN, NEW h \in Sources \cup {"none"}, NEW e \in Int,
         c.at = "in", Clocked(c, e)
  PROVE  LET d == [c EXCEPT !.if = f, !.handling = h]
         IN  d \in CpuRecord /\ d.at = "in" /\ Clocked(d, e)
<1> DEFINE d == [c EXCEPT !.if = f, !.handling = h]
<1>1. /\ d \in CpuRecord /\ d.at = "in" /\ d.toRun = c.toRun /\ d.offset = c.offset
      /\ d.cycles = c.cycles /\ d.refill = c.refill /\ d.slice = c.slice /\ d.blocked = c.blocked
  BY DEF CpuRecord
<1> HIDE DEF d
<1>2. Clocked(d, e)
  BY <1>1 DEF Clocked, Now
<1> QED BY <1>1, <1>2 DEF d

LEMMA FlagsChanged ==
  ASSUME IInv, cpu.at = "in", NEW w, WorldFits(w), w.elapsed = world.elapsed,
         NEW f \in BOOLEAN, NEW h \in Sources \cup {"none"}, NEW d, NEW c,
         d = [cpu EXCEPT !.if = f, !.handling = h], c \in {d, LoopExit(d), Guarded(d)},
         Instruction(w, c)
  PROVE  IInv'
<1>1. world.elapsed \in Int /\ cpu \in CpuRecord /\ Clocked(cpu, world.elapsed)
  BY InLoop DEF IInv
<1>2. d \in CpuRecord /\ d.at = "in" /\ Clocked(d, world.elapsed)
  BY <1>1, FlagsFree
<1>3. c \in CpuRecord /\ Ready(c, world.elapsed)
  BY <1>1, <1>2, LoopFits
<1> QED BY <1>3, OneInstruction

LEMMA Flags ==
  ASSUME IInv, Hlt \/ Cli \/ Popf \/ Sti \/ LoadStackSegment
  PROVE  IInv'
<1>1. /\ cpu.at = "in" /\ WorldFits(world) /\ cpu \in CpuRecord
      /\ cpu.handling \in Sources \cup {"none"} /\ cpu.if \in BOOLEAN
  BY InLoop DEF Hlt, Cli, Popf, Sti, LoadStackSegment, Instruction, CpuRecord
<1>2. CASE Hlt
  BY <1>1, <1>2, InLoop, OneInstruction DEF Hlt
<1>3. CASE LoadStackSegment
  BY <1>1, <1>3, InLoop, OneInstruction DEF LoadStackSegment
<1> DEFINE d(f) == [cpu EXCEPT !.if = f, !.handling = cpu.handling]
<1>4. \A f \in BOOLEAN : [cpu EXCEPT !.if = f] = d(f)
  BY <1>1 DEF CpuRecord
<1>5. ASSUME NEW f \in BOOLEAN, NEW c \in {d(f), LoopExit(d(f)), Guarded(d(f))},
             Instruction(world, c)
      PROVE  IInv'
  BY <1>1, <1>5, FlagsChanged
<1>6. TRUE \in BOOLEAN /\ FALSE \in BOOLEAN /\ (~cpu.if) \in BOOLEAN
  OBVIOUS
<1>7. CASE Cli
  <2>1. Instruction(world, [cpu EXCEPT !.if = FALSE])
    BY <1>7 DEF Cli
  <2>2. Instruction(world, d(FALSE))
    BY <1>4, <1>6, <2>1, Zenon
  <2> HIDE DEF d
  <2> QED BY <1>5, <1>6, <2>2
<1>8. CASE Popf
  <2>1. Instruction(world, LoopExit([cpu EXCEPT !.if = ~cpu.if]))
    BY <1>8 DEF Popf
  <2>2. Instruction(world, LoopExit(d(~cpu.if)))
    BY <1>4, <1>6, <2>1, Zenon
  <2> HIDE DEF d
  <2> QED BY <1>5, <1>6, <2>2
<1>9. CASE Sti
  <2>1. Instruction(world, Guarded([cpu EXCEPT !.if = TRUE]))
    BY <1>9 DEF Sti
  <2>2. Instruction(world, Guarded(d(TRUE)))
    BY <1>4, <1>6, <2>1, Zenon
  <2> HIDE DEF d
  <2> QED BY <1>5, <1>6, <2>2
<1> QED BY <1>2, <1>3, <1>7, <1>8, <1>9

LEMMA Returning ==
  ASSUME IInv, ReturnFromHandler
  PROVE  IInv'
<1> DEFINE none == {}
           rtc == [world.rtc EXCEPT !.flags = none]
           pins == world.pins \ {"rtc"}
           pending == world.pending \ {"rtc"}
           read == [world EXCEPT !.rtc = rtc, !.pins = pins, !.pending = pending]
           w == IF cpu.handling = "rtc" THEN read ELSE world
           d == [cpu EXCEPT !.if = TRUE, !.handling = "none"]
<1>1. /\ cpu.at = "in" /\ world \in WorldRecord /\ WorldFits(world)
  BY InLoop DEF ReturnFromHandler, Instruction
<1>2. Instruction(w, LoopExit(d))
  <2>1. read = [world EXCEPT !.rtc.flags = {}, !.pins = @ \ {"rtc"}, !.pending = @ \ {"rtc"}]
    BY <1>1 DEF WorldRecord
  <2> QED BY <2>1 DEF ReturnFromHandler
<1>3. rtc \in RtcRecord /\ rtc.age = world.rtc.age
  BY InLoop DEF RtcRecord
<1>4. pins \in SUBSET Pins /\ pending \in SUBSET Sources
  BY <1>1 DEF WorldRecord
<1> HIDE DEF rtc, pins, pending
<1>5. /\ read \in WorldRecord /\ read.pit = world.pit /\ read.rtc = rtc
      /\ read.elapsed = world.elapsed
  BY <1>1, <1>3, <1>4 DEF WorldRecord
<1> HIDE DEF read
<1>6. WorldFits(w) /\ w.elapsed = world.elapsed
  BY <1>1, <1>3, <1>5 DEF WorldFits
<1>7. TRUE \in BOOLEAN /\ "none" \in Sources \cup {"none"}
  OBVIOUS
<1> HIDE DEF w
<1> QED BY <1>1, <1>2, <1>6, <1>7, FlagsChanged
-----------------------------------------------------------------------------
LEMMA Guests ==
  ASSUME IInv, Guest
  PROVE  IInv'
BY Counts, Modes, RegisterA, RegisterB, InitialCounts, TimerEntries, PowerManagement, Flags,
   Returning DEF Guest

LEMMA Inductive ==
  IInv /\ [Next]_vars => IInv'
<1> SUFFICES ASSUME IInv, [Next]_vars PROVE IInv'
  OBVIOUS
<1>1. CASE Emulator
  BY <1>1, Polling, Entering, Interrupting, Ending, Running DEF Emulator
<1>2. CASE Compute
  BY <1>2, Computing
<1>3. CASE Guest
  BY <1>3, Guests
<1>4. CASE UNCHANGED vars
  BY <1>4 DEF vars, IInv, Types, WorldFits, Clocked, Timely, Stalls, Now, LateByAPeriod, Counting
<1> QED BY <1>1, <1>2, <1>3, <1>4 DEF Next

LEMMA Always == Spec => []IInv
<1>1. Init => IInv
  BY Initially
<1>2. IInv /\ [Next]_vars => IInv'
  BY Inductive
<1> QED BY <1>1, <1>2, PTL DEF Spec

\* The cycle counters of cpu_run(), the waits of the devices and the PIT's
\* counter keep their types, whatever the clocks.
THEOREM TypeCorrect == Spec => []TypeOK
<1>1. IInv => TypeOK
  <2> SUFFICES ASSUME IInv PROVE TypeOK
    OBVIOUS
  <2>1. /\ cpu.at \in {"poll", "top", "in", "done", "lost"}
        /\ {cpu.toRun, cpu.offset, cpu.refill, cpu.slice} \subseteq 0 .. Never
        /\ cpu.halted \in BOOLEAN /\ cpu.if \in BOOLEAN /\ cpu.blocked \in BOOLEAN
        /\ cpu.handling \in Sources \cup {"none"}
    BY InLoop, Sizes DEF CpuRecord
  <2>2. /\ world.pins \in SUBSET Pins /\ world.pending \in SUBSET Sources
        /\ world.owed \in -MaxOwed .. MaxOwed
    BY InLoop DEF WorldRecord
  <2>3. world.pit.mode \in 0 .. 5 /\ {world.pit.count, world.pit.last} \subseteq 0 .. Reload
    BY InLoop DEF PitRecord
  <2> QED BY <2>1, <2>2, <2>3 DEF TypeOK
<1> QED BY <1>1, Always, PTL

\* cpu_run() accounts for the instructions it executes, at most one more than
\* it was asked for, wherever its loop is shortened, left and refilled.
THEOREM AccountsForAll == Spec => []ClockInStep
<1>1. IInv => ClockInStep
  <2> SUFFICES ASSUME IInv, Executing PROVE ClockInStep
    BY DEF ClockInStep
  <2>1. Now(cpu) = world.elapsed
    BY DEF IInv, Clocked, Executing
  <2>2. /\ world.elapsed \in Int /\ cpu.toRun \in Nat /\ cpu.refill \in Nat /\ cpu.slice \in Nat
    BY InLoop, Sizes DEF CpuRecord
  <2>3. world.elapsed <= cpu.slice + 1
    BY <2>2 DEF IInv, Clocked, Executing
  <2> QED BY <2>1, <2>3 DEF ClockInStep
<1> QED BY <1>1, Always, PTL

\* The CPU is asked for no cycles at all only for a masked APIC timer that is
\* late by a period: every other wait a poll returns is a cycle or more.
THEOREM WaitsAreReal == Spec => []OnlyMaskedTimerStalls
<1>1. IInv => OnlyMaskedTimerStalls
  BY DEF IInv, Stalls, LateByAPeriod, OnlyMaskedTimerStalls
<1> QED BY <1>1, Always, PTL
-----------------------------------------------------------------------------
(* The CMOS clock's seconds.                                               *)

Parts == {"pit", "rtc", "apic", "acpi", "pins", "pending", "fresh", "unseen", "owed", "phase",
          "second", "gap", "elapsed"}

\* With a rate selected, the clock counts periods of that rate or whole seconds.
RtcStands(r) ==
  /\ r.rate \in use.rates \cup {BootRate}
  /\ IF "periodic" \in r.enabled
     THEN r.period = TicksPerSecond \div r.rate /\ r.max = r.rate /\ r.ticks < r.rate
     ELSE r.period = TicksPerSecond

\* What the clock has counted of the second that is going on.
Counted(r) == r.age + (IF "periodic" \in r.enabled THEN r.ticks * r.period ELSE 0)

\* It has not counted more than has passed, but for the cycle that is skipped backwards.
KeepsUp(r, second) ==
  /\ second >= -Back
  /\ second >= Min2(Counted(r), TicksPerSecond) - Back

LongEnough(gap) ==
  \E f \in use.rates \cup {BootRate} : gap >= TicksPerSecond - (TicksPerSecond % f) - Back

SecondsFit(w) ==
  0 \notin use.rates =>
    /\ RtcStands(w.rtc) /\ LongEnough(w.gap)
    /\ use.rates # {} => KeepsUp(w.rtc, w.second)

\* An instruction makes up for the cycle.  A CPU is halted, and an APIC timer counts, only
\* where the use has it.
SecondsInv ==
  /\ SecondsFit(world)
  /\ cpu.halted => "halt" \in use.ops
  /\ Counting(world.apic) => use.counts # {}
  /\ 0 \notin use.rates /\ use.rates # {} /\ cpu.at \in {"top", "in", "done"} /\ world.elapsed > 0 =>
       world.second >= 0

LEMMA Difference ==
  ASSUME NEW f \in Nat, NEW k \in Nat, NEW p \in Nat
  PROVE  (f - k) * p = f * p - k * p
BY SMT

\* What is to be counted in a second.
LEMMA Periods ==
  ASSUME NEW f \in 1 .. TicksPerSecond, NEW p, p = TicksPerSecond \div f
  PROVE  /\ f \in Nat /\ p \in Nat /\ p >= 1 /\ p <= TicksPerSecond
         /\ f * p \in Nat
         /\ f * p = TicksPerSecond - (TicksPerSecond % f) /\ f * p <= TicksPerSecond
<1>1. f \in Nat /\ f > 0 /\ TicksPerSecond \in Nat /\ TicksPerSecond >= f
  BY Sizes
<1>2. /\ p \in Nat /\ p >= 1 /\ p <= TicksPerSecond
      /\ TicksPerSecond = f * p + (TicksPerSecond % f)
      /\ TicksPerSecond % f \in 0 .. f - 1
  BY <1>1, DivNat, SMT
<1>3. f * p \in Nat
  BY <1>1, <1>2, Product
<1> QED BY <1>1, <1>2, <1>3

\* What k periods of f are.
LEMMA PeriodsPassed ==
  ASSUME NEW f \in Nat, NEW p \in Nat, NEW k \in Nat, k < f
  PROVE  /\ k * p \in Nat /\ (k + 1) * p = k * p + p
         /\ k * p + p <= f * p
<1>1. k * p \in Nat /\ (k + 1) * p = k * p + p
  BY Product, OneMore
<1>2. f - (k + 1) \in Nat /\ k + 1 \in Nat
  OBVIOUS
<1>3. (f - (k + 1)) * p \in Nat
  BY <1>2, Product
<1>4. (f - (k + 1)) * p = f * p - (k + 1) * p
  BY <1>2, Difference
<1>5. f * p \in Int /\ (k + 1) * p \in Int
  BY <1>2, Product
<1> QED BY <1>1, <1>3, <1>4, <1>5

\* What a call of the clock's handler makes of its numbers.
LEMMA PolledClock ==
  ASSUME NEW r \in RtcRecord
  PROVE  LET q == RtcPolled(r) IN
         /\ q.rate = r.rate /\ q.enabled = r.enabled /\ q.period = r.period /\ q.max = r.max
         /\ q.age = IF RtcDue(r) THEN 0 ELSE r.age
         /\ q.ticks = IF ~RtcDue(r) \/ "periodic" \notin r.enabled THEN r.ticks
                      ELSE IF Updates(r) THEN 0 ELSE Min2(r.ticks + 1, TicksPerSecond)
<1> DEFINE ticks == IF "periodic" \in r.enabled /\ ~Updates(r)
                      THEN Min2(r.ticks + 1, TicksPerSecond)
                      ELSE IF "periodic" \in r.enabled THEN 0 ELSE r.ticks
           flags == IF Reasons(r) = {} THEN r.flags ELSE Reasons(r)
<1>1. RtcPolled(r) = IF ~RtcDue(r) THEN r
                     ELSE [r EXCEPT !.age = 0, !.ticks = ticks, !.flags = flags]
  BY DEF RtcPolled, RtcRecord
<1>2. ticks = IF "periodic" \notin r.enabled THEN r.ticks
              ELSE IF Updates(r) THEN 0 ELSE Min2(r.ticks + 1, TicksPerSecond)
  OBVIOUS
<1> HIDE DEF ticks, flags
<1>3. LET q == [r EXCEPT !.age = 0, !.ticks = ticks, !.flags = flags]
      IN  /\ q.rate = r.rate /\ q.enabled = r.enabled /\ q.period = r.period /\ q.max = r.max
          /\ q.age = 0 /\ q.ticks = ticks
  BY DEF RtcRecord
<1> QED BY <1>1, <1>2, <1>3

\* A call of the handler counts no more than has passed; and where it turns the second,
\* a second has passed.
LEMMA SecondsPolled ==
  ASSUME NEW r \in RtcRecord, r.age >= -1, 0 \notin use.rates, use.rates \subseteq 0 .. TicksPerSecond,
         RtcStands(r)
  PROVE  LET q == RtcPolled(r) IN
         /\ RtcStands(q) /\ Counted(q) \in Int /\ Counted(q) < TicksPerSecond
         /\ RtcDue(r) /\ Updates(r) => Counted(q) = 0
         /\ ~(RtcDue(r) /\ Updates(r)) => Counted(q) <= Counted(r)
         /\ RtcDue(r) /\ Updates(r) =>
              \A second \in Int : KeepsUp(r, second) => LongEnough(second)
<1> DEFINE q == RtcPolled(r)
           f == r.rate
           p == r.period
           periodic == "periodic" \in r.enabled
<1>1. /\ q.rate = f /\ q.enabled = r.enabled /\ q.period = p /\ q.max = r.max
      /\ q.age = IF RtcDue(r) THEN 0 ELSE r.age
      /\ q.ticks = IF ~RtcDue(r) \/ ~periodic THEN r.ticks
                   ELSE IF Updates(r) THEN 0 ELSE Min2(r.ticks + 1, TicksPerSecond)
  BY PolledClock
<1>2. /\ f \in 1 .. TicksPerSecond /\ f \in use.rates \cup {BootRate} /\ p \in Nat
      /\ r.age \in Int /\ r.ticks \in Nat /\ Back \in {0, 1} /\ TicksPerSecond \in Nat
  BY Sizes DEF RtcStands, RtcRecord, Back
<1>3. RtcDue(r) <=> r.age >= p
  BY DEF RtcDue
<1>4. CASE periodic
  <2>1. p = TicksPerSecond \div f /\ r.max = f /\ r.ticks < f
    BY <1>4 DEF RtcStands
  <2>2. Updates(r) <=> r.ticks + 1 = f
    BY <1>4, <2>1 DEF Updates
  <2>3. /\ Counted(r) = r.age + r.ticks * p
        /\ Counted(q) = q.age + q.ticks * p
    BY <1>1, <1>4 DEF Counted
  <2> HIDE DEF q, f, p
  <2>4. /\ f \in Nat /\ p >= 1 /\ f * p \in Nat
        /\ f * p = TicksPerSecond - (TicksPerSecond % f) /\ f * p <= TicksPerSecond
    BY <1>2, <2>1, Periods
  <2>5. /\ r.ticks * p \in Nat /\ r.ticks * p + p <= f * p
        /\ (r.ticks + 1) * p = r.ticks * p + p
    BY <1>2, <2>1, <2>4, PeriodsPassed
  <2>6. CASE ~RtcDue(r)
    <3>1. q.age = r.age /\ q.ticks = r.ticks /\ r.age < p
      BY <1>1, <1>2, <1>3, <2>6
    <3>2. RtcStands(q)
      BY <1>1, <1>2, <1>4, <2>1, <3>1 DEF RtcStands
    <3>3. Counted(q) = r.age + r.ticks * p /\ Counted(q) = Counted(r)
      BY <2>3, <3>1
    <3>4. Counted(q) \in Int /\ Counted(q) < TicksPerSecond
      <4> DEFINE t == r.ticks * p
                 full == f * p
      <4>1. t \in Nat /\ t + p <= full /\ full <= TicksPerSecond /\ full \in Nat
        BY <2>4, <2>5
      <4>2. Counted(q) = r.age + t
        BY <3>3
      <4> HIDE DEF t, full
      <4> QED BY <1>2, <3>1, <4>1, <4>2
    <3> QED BY <2>6, <3>2, <3>3, <3>4 DEF q
  <2>7. CASE RtcDue(r) /\ ~Updates(r)
    <3>1. r.ticks + 1 < f /\ r.ticks + 1 \in Nat /\ r.age >= p
      BY <1>2, <1>3, <2>1, <2>2, <2>7
    <3>2. q.age = 0 /\ q.ticks = r.ticks + 1
      BY <1>1, <1>2, <1>4, <2>7, <3>1 DEF Min2
    <3>3. RtcStands(q)
      BY <1>1, <1>2, <1>4, <2>1, <3>1, <3>2 DEF RtcStands
    <3>4. /\ Counted(q) = (r.ticks + 1) * p
          /\ (r.ticks + 1) * p + p <= f * p /\ (r.ticks + 1) * p \in Nat
      <4>1. Counted(q) = 0 + (r.ticks + 1) * p
        BY <2>3, <3>2
      <4>2. (r.ticks + 1) * p + p <= f * p /\ (r.ticks + 1) * p \in Nat
        BY <1>2, <2>4, <3>1, PeriodsPassed
      <4> QED BY <4>1, <4>2
    <3>5. Counted(q) \in Int /\ Counted(q) < TicksPerSecond /\ Counted(q) <= Counted(r)
      BY <1>2, <2>3, <2>4, <2>5, <3>1, <3>4
    <3> QED BY <2>7, <3>3, <3>5 DEF q
  <2>8. CASE RtcDue(r) /\ Updates(r)
    <3>1. r.ticks + 1 = f /\ r.age >= p /\ q.age = 0 /\ q.ticks = 0
      BY <1>1, <1>3, <1>4, <2>2, <2>8
    <3>2. RtcStands(q)
      BY <1>1, <1>2, <1>4, <2>1, <3>1 DEF RtcStands
    <3>3. Counted(q) = 0
      BY <1>2, <2>3, <3>1
    <3>4. Counted(r) >= f * p /\ Counted(r) \in Int
      <4>1. f * p = r.ticks * p + p
        BY <2>5, <3>1
      <4> QED BY <1>2, <2>3, <2>5, <3>1, <4>1
    <3>5. ASSUME NEW second \in Int, KeepsUp(r, second)
          PROVE  LongEnough(second)
      <4>1. second >= TicksPerSecond - (TicksPerSecond % f) - Back
        <5>1. second >= Min2(Counted(r), TicksPerSecond) - Back
          BY <3>5 DEF KeepsUp
        <5>2. Min2(Counted(r), TicksPerSecond) >= f * p /\ Min2(Counted(r), TicksPerSecond) \in Int
          BY <1>2, <2>4, <3>4 DEF Min2
        <5>3. second >= f * p - Back
          BY <1>2, <2>4, <5>1, <5>2
        <5> QED BY <2>4, <5>3
      <4> QED BY <1>2, <4>1 DEF LongEnough
    <3> QED BY <1>2, <2>8, <3>2, <3>3, <3>5 DEF q
  <2> QED BY <2>6, <2>7, <2>8
<1>5. CASE ~periodic
  <2>1. p = TicksPerSecond /\ Updates(r) /\ Counted(r) = r.age + 0 /\ Counted(q) = q.age + 0
    BY <1>1, <1>5 DEF RtcStands, Updates, Counted
  <2>2. RtcStands(q)
    BY <1>1, <1>2, <1>5, <2>1 DEF RtcStands
  <2>3. CASE ~RtcDue(r)
    <3>1. q.age = r.age /\ r.age < TicksPerSecond
      BY <1>1, <1>2, <1>3, <2>1, <2>3
    <3> QED BY <1>2, <2>1, <2>2, <2>3, <3>1
  <2>4. CASE RtcDue(r)
    <3>1. q.age = 0 /\ r.age >= TicksPerSecond
      BY <1>1, <1>3, <2>1, <2>4
    <3>2. BootRate \in 1 .. TicksPerSecond /\ TicksPerSecond % BootRate \in Nat
      BY DivInt, Sizes
    <3>3. ASSUME NEW second \in Int, KeepsUp(r, second)
          PROVE  LongEnough(second)
      <4>1. second >= TicksPerSecond - Back
        BY <1>2, <2>1, <3>1, <3>3 DEF KeepsUp, Min2
      <4>2. second >= TicksPerSecond - (TicksPerSecond % BootRate) - Back
        BY <1>2, <3>2, <4>1
      <4> QED BY <4>2 DEF LongEnough
    <3>4. Counted(q) = 0 /\ 0 < TicksPerSecond
      BY <2>1, <3>1, Sizes
    <3> QED BY <1>2, <2>1, <2>2, <2>4, <3>3, <3>4
  <2> QED BY <2>3, <2>4
<1> QED BY <1>4, <1>5

\* The clock and its second after a while.
LEMMA AgedClock ==
  ASSUME NEW w, DOMAIN w = Parts, w.apic \in ApicRecord, NEW n \in Int
  PROVE  /\ Aged(w, n).rtc = [w.rtc EXCEPT !.age = w.rtc.age + n]
         /\ Aged(w, n).gap = w.gap
         /\ use.rates # {} => Aged(w, n).second = Min2(w.second + n, TicksPerSecond)
         /\ Aged(w, n).apic.count = w.apic.count
BY DEF Aged, Parts, ApicRecord

LEMMA AgedSeconds ==
  ASSUME NEW w, DOMAIN w = Parts, w.rtc \in RtcRecord, w.apic \in ApicRecord, w.second \in Int,
         SecondsFit(w), NEW n \in Int,
         n >= 0 \/ (/\ n = -1 /\ Back = 1
                    /\ 0 \notin use.rates /\ use.rates # {} =>
                          Counted(w.rtc) < TicksPerSecond /\ w.second >= 0)
  PROVE  /\ SecondsFit(Aged(w, n))
         /\ 0 \notin use.rates /\ use.rates # {} /\ n > 0 => Aged(w, n).second >= 0
<1> SUFFICES ASSUME 0 \notin use.rates
             PROVE  /\ SecondsFit(Aged(w, n))
                    /\ use.rates # {} /\ n > 0 => Aged(w, n).second >= 0
  BY DEF SecondsFit
<1> DEFINE r == w.rtc
           q == [r EXCEPT !.age = r.age + n]
           s == w.second
           t == Min2(s + n, TicksPerSecond)
<1>1. /\ r \in RtcRecord /\ r.age \in Int /\ r.ticks * r.period \in Int
      /\ s \in Int /\ TicksPerSecond \in Nat /\ TicksPerSecond > 0 /\ Back \in {0, 1}
  BY Sizes, ProductInt DEF RtcRecord, Back
<1>2. /\ Aged(w, n).rtc = q /\ Aged(w, n).gap = w.gap
      /\ use.rates # {} => Aged(w, n).second = t
  BY AgedClock
<1>3. /\ q.age = r.age + n
      /\ \A f \in {"rate", "enabled", "period", "max", "ticks"} : q[f] = r[f]
  BY <1>1 DEF RtcRecord
<1>4. Counted(q) = Counted(r) + n /\ Counted(r) \in Int
  <2> DEFINE k == IF "periodic" \in r.enabled THEN r.ticks * r.period ELSE 0
  <2>1. k \in Int
    BY <1>1
  <2>2. Counted(r) = r.age + k /\ Counted(q) = q.age + k
    BY <1>3 DEF Counted
  <2> HIDE DEF k, q
  <2> QED BY <1>1, <1>3, <2>1, <2>2
<1>5. RtcStands(r) /\ LongEnough(w.gap)
  BY DEF SecondsFit
<1>6. RtcStands(q)
  BY <1>3, <1>5 DEF RtcStands
<1> HIDE DEF q, r, s
<1>7. ASSUME use.rates # {}
      PROVE  KeepsUp(q, t) /\ (n > 0 => t >= 0)
  <2>1. s >= -Back /\ s >= Min2(Counted(r), TicksPerSecond) - Back
    BY <1>7 DEF SecondsFit, KeepsUp, r, s
  <2>2. CASE n >= 0
    <3>1. s + n >= -Back + n /\ t >= -Back /\ (n > 0 => t >= 0)
      BY <1>1, <2>1, <2>2 DEF Min2
    <3>2. t >= Min2(Counted(r) + n, TicksPerSecond) - Back
      BY <1>1, <1>4, <2>1, <2>2 DEF Min2
    <3> QED BY <1>4, <3>1, <3>2 DEF KeepsUp
  <2>3. CASE n = -1 /\ Back = 1 /\ Counted(r) < TicksPerSecond /\ s >= 0
    <3>1. s >= Counted(r) - 1
      BY <1>1, <1>4, <2>1, <2>3 DEF Min2
    <3>2. t >= -1 /\ t >= Min2(Counted(r) - 1, TicksPerSecond) - 1
      BY <1>1, <1>4, <2>3, <3>1 DEF Min2
    <3> QED BY <1>4, <2>3, <3>2 DEF KeepsUp
  <2> QED BY <1>7, <2>2, <2>3 DEF r, s
<1> QED BY <1>2, <1>5, <1>6, <1>7 DEF SecondsFit, r

\* A poll.
LEMMA PolledSeconds ==
  ASSUME NEW w, WorldFits(w), SecondsFit(w), use.rates \subseteq 0 .. TicksPerSecond
  PROVE  /\ SecondsFit(Polled(w)) /\ Polled(w).second \in {w.second, 0}
         /\ 0 \notin use.rates => Counted(Polled(w).rtc) < TicksPerSecond
<1>1. /\ w \in WorldRecord /\ w.rtc \in RtcRecord /\ w.rtc.age >= -1 /\ w.second \in Int
  BY DEF WorldFits, WorldRecord
<1> DEFINE turns == RtcDue(w.rtc) /\ Updates(w.rtc)
<1>2. /\ Polled(w).rtc = RtcPolled(w.rtc)
      /\ Polled(w).second = IF turns THEN 0 ELSE w.second
      /\ Polled(w).gap = IF use.rates # {} /\ turns THEN w.second ELSE w.gap
  BY <1>1 DEF Polled, WorldRecord
<1> HIDE DEF turns
<1>3. ASSUME 0 \notin use.rates
      PROVE  SecondsFit(Polled(w)) /\ Counted(Polled(w).rtc) < TicksPerSecond
  <2> DEFINE r == w.rtc
             q == RtcPolled(w.rtc)
  <2>1. RtcStands(r) /\ LongEnough(w.gap) /\ (use.rates # {} => KeepsUp(r, w.second))
    BY <1>3 DEF SecondsFit
  <2>2. /\ RtcStands(q) /\ Counted(q) \in Int /\ Counted(q) < TicksPerSecond
        /\ turns => Counted(q) = 0
        /\ ~turns => Counted(q) <= Counted(r)
        /\ turns => \A second \in Int : KeepsUp(r, second) => LongEnough(second)
    BY <1>1, <1>3, <2>1, SecondsPolled DEF turns
  <2>3. Counted(r) \in Int
    BY <1>1, ProductInt DEF Counted, RtcRecord
  <2> HIDE DEF r, q
  <2>4. LongEnough(Polled(w).gap)
    BY <1>1, <1>2, <2>1, <2>2
  <2>5. ASSUME use.rates # {}
        PROVE  KeepsUp(q, Polled(w).second)
    <3>1. Back \in {0, 1} /\ TicksPerSecond \in Nat
      BY Sizes DEF Back
    <3>2. CASE turns
      BY <1>2, <2>2, <3>1, <3>2 DEF KeepsUp, Min2
    <3>3. CASE ~turns
      BY <1>1, <1>2, <2>1, <2>2, <2>3, <2>5, <3>1, <3>3 DEF KeepsUp, Min2
    <3> QED BY <3>2, <3>3
  <2> QED BY <1>2, <2>2, <2>4, <2>5 DEF SecondsFit, q
<1>4. Polled(w).second \in {w.second, 0}
  BY <1>2
<1> QED BY <1>3, <1>4 DEF SecondsFit

\* A write to register A or B begins a period.
LEMMA RetimedSeconds ==
  ASSUME NEW r \in RtcRecord, r.rate \in use.rates \cup {BootRate}, 0 \notin use.rates
  PROVE  /\ RtcStands(Retimed(r)) /\ Counted(Retimed(r)) = 0
<1>1. r.rate # 0 /\ r.rate \in Nat
  BY Sizes DEF RtcRecord
<1>2. CASE "periodic" \in r.enabled
  <2> DEFINE q == [r EXCEPT !.period = TicksPerSecond \div r.rate, !.ticks = 0, !.max = r.rate, !.age = 0]
  <2>1. Retimed(r) = q
    BY <1>1, <1>2 DEF Retimed
  <2>2. /\ q.rate = r.rate /\ q.enabled = r.enabled /\ q.period = TicksPerSecond \div r.rate
        /\ q.ticks = 0 /\ q.max = r.rate /\ q.age = 0
    BY DEF RtcRecord
  <2> HIDE DEF q
  <2>3. RtcStands(q)
    BY <1>1, <1>2, <2>2 DEF RtcStands
  <2>4. TicksPerSecond \div r.rate \in Nat
    BY <1>1, DivNat, Sizes
  <2>5. Counted(q) = 0
    <3>1. 0 * (TicksPerSecond \div r.rate) = 0
      BY <2>4
    <3>2. Counted(q) = 0 + 0 * (TicksPerSecond \div r.rate)
      BY <1>2, <2>2 DEF Counted
    <3> QED BY <3>1, <3>2
  <2> QED BY <2>1, <2>3, <2>5
<1>3. CASE "periodic" \notin r.enabled
  <2> DEFINE q == [r EXCEPT !.period = TicksPerSecond, !.age = 0]
  <2>1. Retimed(r) = q
    BY <1>1, <1>3 DEF Retimed
  <2>2. q.rate = r.rate /\ q.enabled = r.enabled /\ q.period = TicksPerSecond /\ q.age = 0
    BY DEF RtcRecord
  <2> QED BY <1>3, <2>1, <2>2 DEF RtcStands, Counted
<1> QED BY <1>2, <1>3

\* What every state has.
LEMMA Shape ==
  ASSUME IInv
  PROVE  /\ DOMAIN world = Parts /\ world.second \in Int /\ world.rtc \in RtcRecord
         /\ world.apic \in ApicRecord /\ world.rtc.age >= -1
         /\ use.rates \subseteq 0 .. TicksPerSecond
<1>1. world \in WorldRecord /\ WorldFits(world)
  BY InLoop
<1>2. DOMAIN world = Parts
  BY <1>1 DEF WorldRecord, Parts
<1> QED BY <1>1, <1>2, InLoop DEF WorldFits, WorldRecord

\* Instructions, with what they do to devices and loop.
LEMMA InstructionSeconds ==
  ASSUME IInv, SecondsInv, NEW w, DOMAIN w = Parts, w.rtc \in RtcRecord, w.apic \in ApicRecord,
         w.second \in Int, SecondsFit(w), NEW n \in Nat, n > 0, world' = Aged(w, n),
         UNCHANGED use, cpu'.halted => "halt" \in use.ops, Counting(w.apic) => use.counts # {}
  PROVE  SecondsInv'
<1>1. SecondsFit(Aged(w, n))
  BY AgedSeconds
<1>2. 0 \notin use.rates /\ use.rates # {} => Aged(w, n).second >= 0
  BY AgedSeconds
<1>3. Aged(w, n).apic.count = w.apic.count
  <2>1. n \in Int
    OBVIOUS
  <2> QED BY <2>1, AgedClock, Zenon
<1>4. SecondsFit(world)'
  BY <1>1 DEF SecondsFit, RtcStands, LongEnough, KeepsUp, Back, GoesBack, Counted
<1>5. (Counting(world.apic) => use.counts # {})'
  BY <1>3 DEF Counting
<1> QED BY <1>2, <1>4, <1>5 DEF SecondsInv

\* An instruction that has nothing to do with the clock.
LEMMA ElsewhereSeconds ==
  ASSUME IInv, SecondsInv, NEW w, NEW c, Instruction(w, c), DOMAIN w = Parts,
         w.rtc = world.rtc, w.second = world.second, w.gap = world.gap, w.apic \in ApicRecord,
         Counting(w.apic) => use.counts # {}, "halted" \in DOMAIN c,
         c.halted => "halt" \in use.ops
  PROVE  SecondsInv'
<1>1. world' = Aged(w, 1) /\ cpu' = Executed(c, 1) /\ use' = use
  BY DEF Instruction
<1>2. cpu'.halted = c.halted
  BY <1>1 DEF Executed
<1>3. SecondsFit(w)
  BY DEF SecondsInv, SecondsFit
<1>4. w.rtc \in RtcRecord /\ w.second \in Int
  BY Shape
<1> QED BY <1>1, <1>2, <1>3, <1>4, InstructionSeconds

LEMMA GuestSeconds ==
  ASSUME IInv, SecondsInv, Guest
  PROVE  SecondsInv'
<1>1. /\ DOMAIN world = Parts /\ world.rtc \in RtcRecord /\ world.apic \in ApicRecord
      /\ world \in WorldRecord /\ cpu \in CpuRecord /\ use \in Use /\ world.second \in Int
      /\ use.rates \subseteq 0 .. TicksPerSecond
      /\ (Counting(world.apic) => use.counts # {}) /\ (cpu.halted => "halt" \in use.ops)
  BY Shape, InLoop DEF SecondsInv
<1>2. CASE WriteCount
  <2>1. PICK v \in use.loads :
          Instruction([world EXCEPT !.pit = Loaded(@, v), !.owed = 0, !.phase = 0, !.fresh = TRUE,
                                    !.unseen = FALSE], cpu)
    BY <1>2 DEF WriteCount
  <2> DEFINE w == [world EXCEPT !.pit = Loaded(world.pit, v), !.owed = 0, !.phase = 0,
                                !.fresh = TRUE, !.unseen = FALSE]
  <2>2. /\ DOMAIN w = Parts /\ w.rtc = world.rtc /\ w.second = world.second /\ w.gap = world.gap
        /\ w.apic = world.apic
    BY <1>1 DEF Parts
  <2>3. Instruction(w, cpu)
    BY <2>1
  <2> HIDE DEF w
  <2> QED BY <1>1, <2>2, <2>3, ElsewhereSeconds DEF CpuRecord
<1>3. CASE WriteMode
  <2>1. PICK m \in use.modes :
          LET edge == m = 2 /\ "pit" \notin world.pins IN
          Instruction([world EXCEPT !.pit.mode = m,
                                    !.pins = @ \cup (IF m = 2 THEN {"pit"} ELSE {}),
                                    !.pending = @ \cup (IF edge THEN {"pit"} ELSE {})],
                      IF edge THEN LoopExit(cpu) ELSE cpu)
    BY <1>3 DEF WriteMode
  <2> DEFINE edge == m = 2 /\ "pit" \notin world.pins
             w == [world EXCEPT !.pit.mode = m,
                                !.pins = @ \cup (IF m = 2 THEN {"pit"} ELSE {}),
                                !.pending = @ \cup (IF edge THEN {"pit"} ELSE {})]
             c == IF edge THEN LoopExit(cpu) ELSE cpu
  <2>2. /\ DOMAIN w = Parts /\ w.rtc = world.rtc /\ w.second = world.second /\ w.gap = world.gap
        /\ w.apic = world.apic
    BY <1>1 DEF Parts
  <2>3. "halted" \in DOMAIN c /\ c.halted = cpu.halted
    BY <1>1 DEF CpuRecord, LoopExit
  <2>4. Instruction(w, c)
    BY <2>1
  <2> HIDE DEF w, c
  <2> QED BY <1>1, <2>2, <2>3, <2>4, ElsewhereSeconds
<1>4. CASE WriteInitialCount
  <2>1. PICK n \in use.counts :
          Instruction([world EXCEPT !.apic.count = n, !.apic.left = n], Cancelled(cpu))
    BY <1>4 DEF WriteInitialCount
  <2> DEFINE w == [world EXCEPT !.apic.count = n, !.apic.left = n]
  <2>2. /\ DOMAIN w = Parts /\ w.rtc = world.rtc /\ w.second = world.second /\ w.gap = world.gap
        /\ use.counts # {}
    BY <1>1 DEF Parts
  <2>3. n \in Nat /\ n \in Int
    BY <1>1 DEF Use
  <2>4. w.apic \in ApicRecord
    BY <1>1, <2>3 DEF Parts, ApicRecord
  <2>5. "halted" \in DOMAIN Cancelled(cpu) /\ ~Cancelled(cpu).halted
    BY <1>1 DEF CpuRecord, Cancelled
  <2> HIDE DEF w
  <2> QED BY <2>1, <2>2, <2>4, <2>5, ElsewhereSeconds DEF w
<1>5. CASE WriteTimerEntry
  <2>1. PICK m \in use.masked, p \in BOOLEAN :
          Instruction([world EXCEPT !.apic.masked = m, !.apic.periodic = p], cpu)
    BY <1>5 DEF WriteTimerEntry
  <2> DEFINE w == [world EXCEPT !.apic.masked = m, !.apic.periodic = p]
  <2>2. /\ DOMAIN w = Parts /\ w.rtc = world.rtc /\ w.second = world.second /\ w.gap = world.gap
    BY <1>1 DEF Parts
  <2>3. m \in BOOLEAN /\ p \in BOOLEAN
    BY <1>1 DEF Use
  <2>4. w.apic \in ApicRecord /\ w.apic.count = world.apic.count
    BY <1>1, <2>3 DEF Parts, ApicRecord
  <2>5. "halted" \in DOMAIN cpu
    BY <1>1 DEF CpuRecord
  <2> HIDE DEF w
  <2> QED BY <1>1, <2>1, <2>2, <2>4, <2>5, ElsewhereSeconds DEF w, Counting
<1>6. CASE WritePowerManagement
  <2>1. PICK e \in BOOLEAN : Instruction([world EXCEPT !.acpi.enabled = e], cpu)
    BY <1>6 DEF WritePowerManagement
  <2> DEFINE w == [world EXCEPT !.acpi.enabled = e]
  <2>2. /\ DOMAIN w = Parts /\ w.rtc = world.rtc /\ w.second = world.second /\ w.gap = world.gap
        /\ w.apic = world.apic
    BY <1>1 DEF Parts
  <2> HIDE DEF w
  <2> QED BY <1>1, <2>1, <2>2, ElsewhereSeconds DEF w, CpuRecord
<1>7. CASE Hlt \/ Cli \/ Popf \/ Sti \/ LoadStackSegment
  <2>1. ASSUME NEW c, Instruction(world, c), "halted" \in DOMAIN c, c.halted => "halt" \in use.ops
        PROVE  SecondsInv'
    BY <1>1, <2>1, ElsewhereSeconds
  <2>2. CASE Hlt
    BY <1>1, <2>1, <2>2 DEF Hlt, Halted, Cancelled, CpuRecord
  <2>3. CASE Cli
    BY <1>1, <2>1, <2>3 DEF Cli, CpuRecord
  <2>4. CASE Popf
    BY <1>1, <2>1, <2>4 DEF Popf, LoopExit, CpuRecord
  <2>5. CASE Sti
    BY <1>1, <2>1, <2>5 DEF Sti, Guarded, CpuRecord
  <2>6. CASE LoadStackSegment
    BY <1>1, <2>1, <2>6 DEF LoadStackSegment, Guarded, CpuRecord
  <2> QED BY <1>7, <2>2, <2>3, <2>4, <2>5, <2>6
<1>8. CASE ReturnFromHandler
  <2> DEFINE w == IF cpu.handling = "rtc"
                  THEN [world EXCEPT !.rtc.flags = {}, !.pins = @ \ {"rtc"}, !.pending = @ \ {"rtc"}]
                  ELSE world
             c == LoopExit([cpu EXCEPT !.if = TRUE, !.handling = "none"])
  <2>1. Instruction(w, c)
    BY <1>8 DEF ReturnFromHandler
  <2>2. /\ DOMAIN w = Parts /\ w.second = world.second /\ w.gap = world.gap
        /\ w.apic = world.apic
    BY <1>1 DEF Parts
  <2>3. w.rtc = [world.rtc EXCEPT !.flags = {}] \/ w.rtc = world.rtc
    BY <1>1 DEF Parts
  <2>4. "halted" \in DOMAIN c /\ c.halted = cpu.halted
    BY <1>1 DEF CpuRecord, LoopExit
  <2>5. w.rtc \in RtcRecord
    BY <1>1, <2>3 DEF RtcRecord, Interrupts
  <2>6. \A f \in {"rate", "enabled", "period", "max", "ticks", "age"} : w.rtc[f] = world.rtc[f]
    BY <1>1, <2>3 DEF RtcRecord
  <2>7. world' = Aged(w, 1) /\ cpu' = Executed(c, 1) /\ use' = use
    BY <2>1 DEF Instruction
  <2>8. cpu'.halted = c.halted
    BY <2>4, <2>7 DEF Executed
  <2> HIDE DEF w, c
  <2>9. SecondsFit(w)
    BY <2>2, <2>6 DEF SecondsInv, SecondsFit, RtcStands, KeepsUp, Counted
  <2> QED BY <1>1, <2>2, <2>4, <2>5, <2>7, <2>8, <2>9, InstructionSeconds
<1>9. ASSUME NEW r \in RtcRecord, Instruction([world EXCEPT !.rtc = Retimed(r)], cpu),
             r.age >= -1, 0 \notin use.rates => r.rate \in use.rates \cup {BootRate}
      PROVE  SecondsInv'
  <2> DEFINE w == [world EXCEPT !.rtc = Retimed(r)]
  <2>1. /\ DOMAIN w = Parts /\ w.rtc = Retimed(r) /\ w.second = world.second /\ w.gap = world.gap
        /\ w.apic = world.apic
    BY <1>1 DEF Parts
  <2>2. w.rtc \in RtcRecord
    BY <1>9, <2>1, RetimedFits
  <2>3. world' = Aged(w, 1) /\ cpu' = Executed(cpu, 1) /\ use' = use
    BY <1>9 DEF Instruction
  <2>4. cpu'.halted = cpu.halted
    BY <1>1, <2>3 DEF Executed, CpuRecord
  <2> HIDE DEF w
  <2>5. SecondsFit(w)
    <3> SUFFICES ASSUME 0 \notin use.rates PROVE SecondsFit(w)
      BY DEF SecondsFit
    <3>1. RtcStands(w.rtc) /\ Counted(w.rtc) = 0
      BY <1>9, <2>1, RetimedSeconds
    <3>2. LongEnough(w.gap) /\ (use.rates # {} => world.second >= -Back)
      BY <2>1 DEF SecondsInv, SecondsFit, KeepsUp
    <3>3. Min2(0, TicksPerSecond) = 0 /\ Back \in {0, 1}
      BY Sizes DEF Min2, Back
    <3>4. use.rates # {} => KeepsUp(w.rtc, w.second)
      BY <1>1, <2>1, <3>1, <3>2, <3>3 DEF KeepsUp
    <3> QED BY <3>1, <3>2, <3>4 DEF SecondsFit
  <2> QED BY <1>1, <2>1, <2>2, <2>3, <2>4, <2>5, InstructionSeconds
<1>10. CASE WriteRegisterA
  <2>1. PICK f \in use.rates : Instruction([world EXCEPT !.rtc = Retimed([@ EXCEPT !.rate = f])], cpu)
    BY <1>10 DEF WriteRegisterA
  <2> DEFINE r == [world.rtc EXCEPT !.rate = f]
  <2>2. r \in RtcRecord /\ r.age = world.rtc.age /\ r.rate = f
    BY <1>1 DEF RtcRecord
  <2>3. Instruction([world EXCEPT !.rtc = Retimed(r)], cpu)
    BY <2>1
  <2> HIDE DEF r
  <2>4. r.age >= -1
    BY <2>2, Shape
  <2> QED BY <1>9, <2>2, <2>3, <2>4
<1>11. CASE WriteRegisterB
  <2>1. PICK e \in use.enables :
          Instruction([world EXCEPT !.rtc = Retimed([@ EXCEPT !.enabled = e])], cpu)
    BY <1>11 DEF WriteRegisterB
  <2> DEFINE r == [world.rtc EXCEPT !.enabled = e]
  <2>2. e \in SUBSET Interrupts
    BY <1>1 DEF Use, Interrupts
  <2>3. r \in RtcRecord /\ r.age = world.rtc.age /\ r.rate = world.rtc.rate
    BY <1>1, <2>2 DEF RtcRecord
  <2>4. Instruction([world EXCEPT !.rtc = Retimed(r)], cpu)
    BY <2>1
  <2> HIDE DEF r
  <2>5. r.age >= -1 /\ (0 \notin use.rates => r.rate \in use.rates \cup {BootRate})
    BY <2>3, Shape DEF SecondsInv, SecondsFit, RtcStands
  <2> QED BY <1>9, <2>3, <2>4, <2>5
<1> QED BY <1>2, <1>3, <1>4, <1>5, <1>6, <1>7, <1>8, <1>10, <1>11 DEF Guest

\* The clock and its second stay, or all that the property looks at.
LEMMA SecondsStay ==
  ASSUME UNCHANGED use, NEW w, SecondsFit(w), world'.rtc = w.rtc, world'.gap = w.gap,
         world'.second = w.second
  PROVE  SecondsFit(world)'
BY DEF SecondsFit, RtcStands, LongEnough, KeepsUp, Back, GoesBack, Counted

LEMMA ComputeSeconds ==
  ASSUME IInv, SecondsInv, Compute
  PROVE  SecondsInv'
<1>1. PICK n \in 1 .. cpu.toRun : cpu' = Executed(cpu, n) /\ world' = Aged(world, n)
  BY DEF Compute
<1>2. n \in Nat /\ n > 0 /\ use' = use
  BY InLoop, Sizes DEF Compute, CpuRecord
<1>3. cpu'.halted = cpu.halted
  BY <1>1, InLoop DEF Executed, CpuRecord
<1>4. SecondsFit(world) /\ (cpu.halted => "halt" \in use.ops) /\ (Counting(world.apic) => use.counts # {})
  BY DEF SecondsInv
<1> QED BY <1>1, <1>2, <1>3, <1>4, Shape, InstructionSeconds

LEMMA StartSeconds ==
  ASSUME IInv, SecondsInv, StartSlice
  PROVE  SecondsInv'
<1> DEFINE w == Polled(world)
<1>1. /\ world \in WorldRecord /\ WorldFits(world) /\ cpu \in CpuRecord /\ SecondsFit(world)
      /\ use' = use /\ world' = [w EXCEPT !.elapsed = 0]
  BY InLoop DEF StartSlice, SecondsInv
<1>2. w \in WorldRecord /\ SecondsFit(w) /\ w.apic = ApicPolled(world.apic)
  BY <1>1, Shape, PollFits, PolledSeconds DEF WorldFits
<1>3. w.apic.count = world.apic.count
  BY <1>2, Shape, ApicKept
<1> HIDE DEF w
<1>4. /\ world'.rtc = w.rtc /\ world'.gap = w.gap /\ world'.second = w.second
      /\ world'.apic = w.apic /\ world'.elapsed = 0
  BY <1>1, <1>2 DEF WorldRecord
<1>5. SecondsFit(world)'
  BY <1>1, <1>2, <1>4, SecondsStay
<1>6. cpu'.halted = cpu.halted
  BY <1>1 DEF StartSlice, CpuRecord
<1> QED BY <1>1, <1>3, <1>4, <1>5, <1>6 DEF SecondsInv, Counting

\* The top of the loop.
LEMMA LoopSeconds ==
  ASSUME IInv, SecondsInv, EnterLoop \/ TakeInterrupt
  PROVE  SecondsInv'
<1>1. world \in WorldRecord /\ cpu \in CpuRecord /\ SecondsFit(world)
  BY InLoop DEF SecondsInv
<1>2. CASE EnterLoop
  <2>1. world' = world /\ use' = use /\ cpu' = Entered(cpu) /\ cpu.at = "top"
    BY <1>2 DEF EnterLoop
  <2>2. cpu'.halted = cpu.halted
    BY <1>1, <2>1 DEF Entered, CpuRecord
  <2>3. SecondsFit(world)'
    BY <1>1, <2>1, SecondsStay
  <2> QED BY <2>1, <2>2, <2>3 DEF SecondsInv
<1>3. CASE TakeInterrupt
  <2>1. PICK d \in world.pending :
          /\ world' = [world EXCEPT !.pending = @ \ {d}]
          /\ cpu' = Entered([cpu EXCEPT !.if = FALSE, !.halted = FALSE, !.handling = d])
    BY <1>3 DEF TakeInterrupt
  <2>2. cpu.at = "top" /\ use' = use
    BY <1>3 DEF TakeInterrupt
  <2>3. /\ world'.rtc = world.rtc /\ world'.gap = world.gap /\ world'.second = world.second
        /\ world'.apic = world.apic /\ world'.elapsed = world.elapsed
    BY <1>1, <2>1 DEF WorldRecord
  <2>4. ~cpu'.halted
    BY <1>1, <2>1 DEF Entered, CpuRecord
  <2>5. SecondsFit(world)'
    BY <1>1, <2>2, <2>3, SecondsStay
  <2> QED BY <2>2, <2>3, <2>4, <2>5 DEF SecondsInv
<1> QED BY <1>2, <1>3

\* A CPU that halts skips -1 cycles at worst, and only where an APIC timer counts.
LEMMA EndSeconds ==
  ASSUME IInv, SecondsInv, EndSlice
  PROVE  SecondsInv'
<1> DEFINE n == cpu.slice - (IF cpu.toRun = 0 THEN cpu.cycles ELSE 0) + LeastWait(world)
           w == Polled(world)
<1>1. /\ world \in WorldRecord /\ WorldFits(world) /\ cpu \in CpuRecord /\ SecondsFit(world)
      /\ use' = use /\ world.second \in Int /\ world.elapsed \in Int
      /\ use.rates \subseteq 0 .. TicksPerSecond
      /\ world' = IF cpu.halted /\ cpu.if THEN Aged(w, n) ELSE world
      /\ cpu.at = "done" /\ cpu'.at = "poll" /\ cpu'.halted = cpu.halted
  BY InLoop, Shape DEF EndSlice, SecondsInv, CpuRecord
<1>2. LeastWait(world) \in Nat /\ (LeastWait(world) = 0 => LateByAPeriod(w))
  BY <1>1, WaitFits
<1>3. n \in Int /\ (n < 0 => n = -1 /\ world.elapsed > 0 /\ LeastWait(world) = 0)
  <2>1. /\ cpu.slice \in Nat /\ cpu.cycles \in Int /\ cpu.toRun \in Nat /\ cpu.offset = cpu.toRun
        /\ cpu.cycles + cpu.offset - cpu.toRun = world.elapsed
        /\ world.elapsed <= cpu.slice + 1
    BY <1>1 DEF IInv, Clocked, Now, CpuRecord
  <2> QED BY <1>1, <1>2, <2>1
<1>4. /\ w \in WorldRecord /\ SecondsFit(w) /\ w.apic = ApicPolled(world.apic)
      /\ w.second \in {world.second, 0}
      /\ 0 \notin use.rates => Counted(w.rtc) < TicksPerSecond
  BY <1>1, PollFits, PolledSeconds DEF WorldFits
<1>5. w.apic.count = world.apic.count
  BY <1>4, Shape, ApicKept
<1> HIDE DEF n, w
<1>6. /\ DOMAIN w = Parts /\ w.rtc \in RtcRecord /\ w.apic \in ApicRecord /\ w.second \in Int
  BY <1>4 DEF WorldRecord, Parts
<1>7. ASSUME cpu.halted
      PROVE  n >= 0 \/ (/\ n = -1 /\ Back = 1
                        /\ 0 \notin use.rates /\ use.rates # {} =>
                              Counted(w.rtc) < TicksPerSecond /\ w.second >= 0)
  <2> SUFFICES ASSUME n < 0
               PROVE  /\ n = -1 /\ Back = 1
                      /\ 0 \notin use.rates /\ use.rates # {} =>
                            Counted(w.rtc) < TicksPerSecond /\ w.second >= 0
    BY <1>3
  <2>1. n = -1 /\ world.elapsed > 0 /\ LateByAPeriod(w)
    BY <1>2, <1>3
  <2>2. Counting(world.apic)
    BY <1>5, <2>1 DEF LateByAPeriod, Counting
  <2>3. Back = 1
    BY <1>7, <2>2 DEF SecondsInv, Back, GoesBack
  <2>4. 0 \notin use.rates /\ use.rates # {} => world.second >= 0
    BY <1>1, <2>1 DEF SecondsInv
  <2>5. 0 \notin use.rates /\ use.rates # {} => w.second >= 0
    BY <1>4, <2>4
  <2> QED BY <1>4, <2>1, <2>3, <2>5
<1>8. ASSUME cpu.halted
      PROVE  SecondsFit(Aged(w, n))
  BY <1>3, <1>4, <1>6, <1>7, <1>8, AgedSeconds, Zenon
<1>9. Aged(w, n).apic.count = w.apic.count
  BY <1>3, <1>6, AgedClock, Zenon
<1>10. CASE cpu.halted /\ cpu.if
  <2>1. world' = Aged(w, n)
    BY <1>1, <1>10
  <2>2. SecondsFit(Aged(w, n))
    BY <1>8, <1>10
  <2>3. SecondsFit(world)'
    BY <1>1, <2>1, <2>2, SecondsStay
  <2> QED BY <1>1, <1>5, <1>9, <2>1, <2>3 DEF SecondsInv, Counting
<1>11. CASE ~(cpu.halted /\ cpu.if)
  <2>1. world' = world
    BY <1>1, <1>11
  <2>2. SecondsFit(world)'
    BY <1>1, <2>1, SecondsStay
  <2> QED BY <1>1, <2>1, <2>2 DEF SecondsInv
<1> QED BY <1>10, <1>11

LEMMA RunOnSeconds ==
  ASSUME IInv, SecondsInv, RunOn
  PROVE  SecondsInv'
<1> DEFINE w == Aged(world, 1)
<1>1. /\ world \in WorldRecord /\ WorldFits(world) /\ SecondsFit(world) /\ cpu' = cpu /\ use' = use
      /\ cpu.at = "lost" /\ world.second \in Int /\ TicksPerSecond \in Nat /\ Back \in {0, 1}
      /\ world' = [w EXCEPT !.elapsed = world.elapsed, !.rtc = world.rtc, !.apic = world.apic]
  BY InLoop, Shape, Sizes DEF RunOn, SecondsInv, Back
<1>2. /\ DOMAIN world = Parts /\ world.rtc \in RtcRecord /\ world.apic \in ApicRecord
      /\ 1 \in Int /\ world.rtc.age >= -1
  BY Shape
<1>3. w \in WorldRecord
  BY <1>1, <1>2, AgeFits DEF WorldFits, RtcRecord
<1>4. w.gap = world.gap /\ (use.rates # {} => w.second = Min2(world.second + 1, TicksPerSecond))
  BY <1>2, AgedClock
<1> HIDE DEF w
<1>5. /\ world'.rtc = world.rtc /\ world'.gap = world.gap /\ world'.second = w.second
      /\ world'.apic = world.apic
  BY <1>1, <1>3, <1>4 DEF WorldRecord
<1>6. ASSUME KeepsUp(world.rtc, world.second), use.rates # {}
      PROVE  KeepsUp(world.rtc, w.second)
  <2>1. Counted(world.rtc) \in Int
    BY <1>2, ProductInt DEF Counted, RtcRecord
  <2> QED BY <1>1, <1>4, <1>6, <2>1 DEF KeepsUp, Min2
<1>7. SecondsFit(world)'
  BY <1>1, <1>5, <1>6 DEF SecondsFit, RtcStands, LongEnough, KeepsUp, Back, GoesBack, Counted
<1> QED BY <1>1, <1>5, <1>7 DEF SecondsInv

LEMMA InitialSeconds ==
  ASSUME Init
  PROVE  SecondsInv
<1>1. /\ world.rtc.rate = BootRate /\ world.rtc.enabled = {} /\ world.rtc.period = TicksPerSecond
      /\ world.rtc.age = 0 /\ world.second = 0 /\ world.gap = TicksPerSecond /\ cpu.at = "poll"
      /\ ~cpu.halted /\ world.apic.count = 0
  BY DEF Init
<1>2. RtcStands(world.rtc) /\ Counted(world.rtc) = 0
  BY <1>1 DEF RtcStands, Counted
<1>3. BootRate \in 1 .. TicksPerSecond /\ TicksPerSecond % BootRate \in Nat /\ Back \in {0, 1}
  BY DivInt, Sizes DEF Back
<1>4. TicksPerSecond >= TicksPerSecond - (TicksPerSecond % BootRate) - Back
  BY <1>3, Sizes
<1>5. LongEnough(world.gap)
  BY <1>1, <1>4 DEF LongEnough
<1>6. KeepsUp(world.rtc, world.second)
  BY <1>1, <1>2, <1>3, Sizes DEF KeepsUp, Min2
<1> QED BY <1>1, <1>2, <1>5, <1>6 DEF SecondsInv, SecondsFit, Counting

\* A second of the CMOS clock is not shorter than its periods, in whatever way the guest
\* programs it and however time is skipped, but for the cycle that may be skipped backwards.
THEOREM SecondsLast == Spec => []SecondsNotShort
<1>1. Init => IInv /\ SecondsInv
  BY Initially, InitialSeconds
<1>2. IInv /\ SecondsInv /\ [Next]_vars => (IInv /\ SecondsInv)'
  <2> SUFFICES ASSUME IInv, SecondsInv, [Next]_vars PROVE SecondsInv'
    BY Inductive
  <2>1. CASE Emulator
    BY <2>1, StartSeconds, LoopSeconds, EndSeconds, RunOnSeconds DEF Emulator
  <2>2. CASE Compute
    BY <2>2, ComputeSeconds
  <2>3. CASE Guest
    BY <2>3, GuestSeconds
  <2>4. CASE UNCHANGED vars
    BY <2>4, SecondsStay DEF vars, SecondsInv, Counting
  <2> QED BY <2>1, <2>2, <2>3, <2>4 DEF Next
<1>3. SecondsInv => SecondsNotShort
  BY DEF SecondsInv, SecondsFit, LongEnough, SecondsNotShort
<1> QED BY <1>1, <1>2, <1>3, PTL DEF Spec
-----------------------------------------------------------------------------
(* The PIT's ticks and the APIC timer's periods.                           *)

\* The cycle at which the PIT is polled next, at the latest.
Horizon(c, w) == IF c.at \in {"top", "in", "done"} THEN c.slice ELSE w.elapsed

\* Without interrupt guards no slice is longer than it was asked for.
Unguarded(c, e) ==
  /\ ~c.halted /\ ~c.blocked
  /\ e >= 0 /\ c.slice <= MaxSlice /\ e <= MaxSlice
  /\ c.at \in {"top", "in"} => e + c.toRun + c.refill <= c.slice
  /\ c.at = "done" => e <= c.slice

\* An APIC timer is not later than the last poll.
Punctual(a, e) == Counting(a) /\ a.count >= MaxSlice => a.left >= -e

\* Counts of the PIT's period that had passed when it was polled last.
Seen(p) == p.count - p.last

Length(p) == p.count * TicksPerSecond

\* k periods have ended since then, and the balance is what it was but for them.
Within(w, k) ==
  /\ w.owed - k \in {-1, 0}
  /\ Seen(w.pit) * TicksPerSecond <= w.phase + k * Length(w.pit) - w.elapsed * PitClock
  /\ w.phase + k * Length(w.pit) - w.elapsed * PitClock < (Seen(w.pit) + 1) * TicksPerSecond

Polls(c, w) ==
  /\ w.pit.last \in 1 .. w.pit.count - 1
  /\ Horizon(c, w) * PitClock <= Seen(w.pit) * TicksPerSecond
  /\ \E k \in {0, 1} : Within(w, k)

InPhase(w) == w.phase = (w.pit.age * PitClock) % Length(w.pit)

PitFits(c, w) ==
  w.pit.running /\ ~w.unseen /\ Wide % w.pit.count = 0 =>
    /\ InPhase(w)
    /\ w.fresh => w.pit.last = 0 /\ w.owed >= 0
    /\ ~w.fresh /\ c.at # "lost" => Polls(c, w)

TicksFit(c, w) == Unguarded(c, w.elapsed) /\ Punctual(w.apic, w.elapsed) /\ PitFits(c, w)

TicksInv == Steady => TicksFit(cpu, world)

LEMMA DividedOnce ==
  ASSUME NEW s \in Nat, s > 0, NEW x \in 0 .. s - 1
  PROVE  /\ x % s = x /\ x \div s = 0
         /\ (x + s) % s = x /\ (x + s) \div s = 1
<1>1. \A m \in {0, 1}, y \in Int : y = x + m * s => y % s = x /\ y \div s = m
  BY DividedIs
<1>2. x = x + 0 * s /\ x + s = x + 1 * s /\ x \in Int /\ x + s \in Int
  OBVIOUS
<1> QED BY <1>1, <1>2

LEMMA Sum ==
  ASSUME NEW a \in Int, NEW b \in Int, NEW p \in Int
  PROVE  (a + b) * p = a * p + b * p /\ (a - b) * p = a * p - b * p
BY SMT

LEMMA Nested3 ==
  ASSUME NEW a \in Int, NEW b \in Int, NEW c \in Int
  PROVE  a * (b * c) = (a * b) * c /\ (a * b) * c \in Int
BY SMT

\* The PIT's age turns with its counter, so the position in its period does not jump.
LEMMA PhaseKept ==
  ASSUME NEW c \in Nat, c > 0, Wide % c = 0, NEW age \in Nat, NEW n \in Int
  PROVE  LET span == c * TicksPerSecond
         IN  (((age + n) % PitTurn) * PitClock) % span
               = (((age * PitClock) % span) + n * PitClock) % span
<1> DEFINE T == TicksPerSecond
           P == PitClock
           turn == PitTurn
           span == c * T
           r == (age + n) % turn
           j == (age + n) \div turn
           i == (age * P) \div span
           ph == (age * P) % span
           u == (turn * P) \div (Wide * T)
           q == u * (Wide \div c)
           m == (ph + n * P) % span
           d == (ph + n * P) \div span
<1>1. /\ T \in Nat /\ T > 0 /\ P \in Nat /\ P > 0 /\ P <= T /\ Wide \in Nat /\ Wide > 0
  BY Sizes
<1> HIDE DEF T, P
<1>2. Wide * T \in Nat /\ Wide * T >= T /\ span \in Nat /\ span > 0
  BY <1>1, Product
<1> HIDE DEF span
<1>3. turn \in Nat /\ turn > 0 /\ u \in Int /\ turn * P = u * (Wide * T)
  <2>1. turn \in Nat /\ turn > 0 /\ (turn * P) % (Wide * T) = 0
    BY Turns DEF T, P
  <2> HIDE DEF turn
  <2>2. turn * P \in Int /\ Wide * T > 0
    BY <1>1, <1>2, <2>1, ProductInt
  <2>3. turn * P = u * (Wide * T) + ((turn * P) % (Wide * T)) /\ u \in Int
    BY <1>2, <2>2, Divided
  <2>4. u * (Wide * T) \in Int
    BY <1>2, <2>3, ProductInt
  <2> QED BY <2>1, <2>3, <2>4
<1> HIDE DEF turn, u
<1>4. q \in Int /\ Wide * u = q * c
  <2> DEFINE k == Wide \div c
  <2>1. k \in Int /\ Wide = k * c
    BY <1>1, Divided
  <2> HIDE DEF k
  <2>2. u * k \in Int /\ u * (k * c) = (u * k) * c
    BY <1>3, <2>1, ProductInt, Nested3
  <2> QED BY <1>1, <1>3, <2>1, <2>2, ProductInt DEF k
<1> HIDE DEF q
<1>5. turn * P = q * span
  <2>1. u * (Wide * T) = (Wide * u) * T
    BY <1>1, <1>3, Nested3
  <2>2. (q * c) * T = q * (c * T)
    BY <1>1, <1>4, Nested3
  <2> QED BY <1>3, <1>4, <2>1, <2>2 DEF span
<1>6. r \in Nat /\ j \in Int /\ age + n = j * turn + r
  BY <1>3, Divided
<1> HIDE DEF r, j
<1>7. age * P \in Int /\ n * P \in Int
  BY <1>1, ProductInt
<1>8. i \in Int /\ ph \in 0 .. span - 1 /\ age * P = i * span + ph
  BY <1>2, <1>7, Divided
<1> HIDE DEF i, ph
<1>9. d \in Int /\ m \in 0 .. span - 1 /\ ph + n * P = d * span + m
  BY <1>2, <1>7, <1>8, Divided
<1>m. m = (ph + n * P) % span
  OBVIOUS
<1> HIDE DEF d, m
<1>10. (age + n) * P = age * P + n * P
  BY <1>1, Sum
<1>11. (age + n) * P = (j * turn) * P + r * P
  <2>1. j * turn \in Int
    BY <1>3, <1>6, ProductInt
  <2> QED BY <1>1, <1>6, <2>1, Sum
<1>12. (j * turn) * P = (j * q) * span
  BY <1>1, <1>2, <1>3, <1>4, <1>5, <1>6, Nested3
<1>13. j * q \in Int /\ (i + d) * span = i * span + d * span
       /\ (i + d - j * q) * span = (i + d) * span - (j * q) * span
  BY <1>2, <1>4, <1>6, <1>8, <1>9, ProductInt, Sum
<1>14. r * P \in Int /\ i * span \in Int /\ d * span \in Int /\ (j * q) * span \in Int
  BY <1>1, <1>2, <1>6, <1>8, <1>9, <1>13, ProductInt
<1>15. r * P = m + (i + d - j * q) * span
  <2> DEFINE a == age * P
             b == n * P
             e == i * span
             f == d * span
             g == (j * q) * span
             h == (i + d - j * q) * span
             k == r * P
  <2>1. /\ a + b = g + k /\ a = e + ph /\ ph + b = f + m
        /\ h = (e + f) - g
    BY <1>8, <1>9, <1>10, <1>11, <1>12, <1>13
  <2>2. a \in Int /\ b \in Int /\ e \in Int /\ f \in Int /\ g \in Int /\ k \in Int
        /\ ph \in Int /\ m \in Int
    BY <1>2, <1>7, <1>8, <1>9, <1>14
  <2> HIDE DEF a, b, e, f, g, h, k
  <2>3. k = m + h
    BY <2>1, <2>2
  <2> QED BY <2>3 DEF h, k
<1>16. (r * P) % span = m
  <2>1. i + d - j * q \in Int
    BY <1>8, <1>9, <1>13
  <2> HIDE DEF T, P
  <2> QED BY <1>2, <1>9, <1>15, <2>1, DividedIs
<1> QED BY <1>16, <1>m DEF r, m, ph, span, turn, T, P

LEMMA PhaseAged ==
  ASSUME NEW p \in PitRecord, p.count # 0, Wide % p.count = 0, NEW n \in Int
  PROVE  (((p.age + n) % PitTurn) * PitClock) % Length(p)
           = (((p.age * PitClock) % Length(p)) + n * PitClock) % Length(p)
<1> DEFINE c == p.count
           a == p.age
<1>1. c \in Nat /\ c > 0 /\ Wide % c = 0 /\ a \in Nat
  BY Sizes DEF PitRecord
<1>2. Length(p) = c * TicksPerSecond
  BY DEF Length
<1> HIDE DEF a, c
<1>3. (((a + n) % PitTurn) * PitClock) % (c * TicksPerSecond)
        = (((a * PitClock) % (c * TicksPerSecond)) + n * PitClock) % (c * TicksPerSecond)
  BY <1>1, PhaseKept, Zenon
<1> QED BY <1>2, <1>3, Zenon DEF a

\* What is left of the count is what the position says.
LEMMA CountIs ==
  ASSUME NEW p \in PitRecord, p.count # 0, Wide % p.count = 0,
         NEW ph, ph = (p.age * PitClock) % Length(p)
  PROVE  LET v == ph \div TicksPerSecond IN
         /\ v \in 0 .. p.count - 1
         /\ PitCount(p) = IF v = 0 THEN 0 ELSE p.count - v
         /\ ph \in Nat /\ ph < Length(p) /\ Length(p) \in Nat
         /\ v * TicksPerSecond \in Nat
         /\ v * TicksPerSecond <= ph /\ ph < v * TicksPerSecond + TicksPerSecond
<1> DEFINE T == TicksPerSecond
           c == p.count
           span == Length(p)
           v == ph \div T
           i == (p.age * PitClock) \div span
           q == Wide \div c
           n == ToCounter(p.age)
<1>1. /\ T \in Nat /\ T > 0 /\ PitClock \in Nat /\ Wide \in Nat /\ Wide > 0
      /\ c \in Nat /\ c > 0 /\ p.age \in Nat
  BY Sizes DEF PitRecord
<1>2. span \in Nat /\ span > 0 /\ span = c * T
  BY <1>1, Product DEF Length
<1>n. n = (p.age * PitClock) \div T
  BY DEF ToCounter
<1> HIDE DEF T, c, span, n
<1>3. p.age * PitClock \in Int
  BY <1>1, ProductInt
<1>4. i \in Int /\ ph \in 0 .. span - 1 /\ p.age * PitClock = i * span + ph
  BY <1>2, <1>3, Divided DEF span
<1> HIDE DEF i
<1>5. v \in Int /\ ph % T \in 0 .. T - 1 /\ v * T \in Int /\ ph = v * T + (ph % T)
  <2>1. ph \in Int
    BY <1>2, <1>4
  <2> QED BY <1>1, <2>1, Divided
<1> HIDE DEF v
<1>6. v >= 0 /\ v < c
  <2>1. CASE v <= -1
    <3>1. (-v - 1) * T \in Nat /\ (v + 1) * T = v * T + 1 * T /\ (-v - 1) * T = -((v + 1) * T)
      BY <1>1, <1>5, <2>1, Product, Sum, SMT
    <3> QED BY <1>1, <1>4, <1>5, <3>1
  <2>2. CASE v >= c
    <3>1. (v - c) * T \in Nat /\ (v - c) * T = v * T - c * T
      BY <1>1, <1>5, <2>2, Product, Sum
    <3> QED BY <1>1, <1>2, <1>4, <1>5, <3>1
  <2> QED BY <1>1, <1>5, <2>1, <2>2
<1>7. n = i * c + v
  <2>1. i * span = (i * c) * T /\ i * c \in Int
    BY <1>1, <1>2, <1>4, Nested3, ProductInt
  <2>2. (i * c + v) * T = (i * c) * T + v * T /\ (i * c) * T \in Int
    <3> DEFINE a == i * c
    <3>1. a \in Int /\ T \in Int
      BY <1>1, <2>1
    <3> HIDE DEF a
    <3>2. (a + v) * T = a * T + v * T /\ a * T \in Int
      BY <1>5, <3>1, Sum, ProductInt
    <3> QED BY <3>2 DEF a
  <2>3. p.age * PitClock = (ph % T) + (i * c + v) * T
    BY <1>4, <1>5, <2>1, <2>2
  <2> QED BY <1>1, <1>5, <1>n, <2>1, <2>3, DividedIs
<1>8. q \in Int /\ Wide = q * c
  BY <1>1, Divided DEF c
<1> HIDE DEF q
<1> DEFINE x == c - n
           j == x \div Wide
           y == x % Wide
<1>9. j \in Int /\ y \in Nat /\ x = j * Wide + y /\ n \in Int
  <2>1. i * c \in Int
    BY <1>1, <1>4, ProductInt
  <2>2. x \in Int /\ n \in Int
    BY <1>1, <1>5, <1>7, <2>1
  <2> HIDE DEF x
  <2> QED BY <1>1, <2>2, Divided
<1>y. y = (c - n) % Wide
  OBVIOUS
<1>x. x = c - n
  OBVIOUS
<1> HIDE DEF x, y, j
<1>10. y = (c - v) + (-(i + j * q)) * c
  <2>1. j * Wide = (j * q) * c /\ j * q \in Int /\ i * c \in Int
    BY <1>1, <1>4, <1>8, <1>9, Nested3, ProductInt
  <2>2. (i + j * q) * c = i * c + (j * q) * c /\ (j * q) * c \in Int
    BY <1>1, <1>4, <2>1, Sum, ProductInt
  <2>3. (-(i + j * q)) * c = -((i + j * q) * c)
    BY <1>1, <1>4, <2>1, SMT
  <2> DEFINE a == i * c
             b == (j * q) * c
             d == (-(i + j * q)) * c
             e == j * Wide
  <2>4. /\ a \in Int /\ b \in Int /\ d = -(a + b) /\ e = b /\ x = e + y /\ n = a + v
    BY <1>7, <1>9, <2>1, <2>2, <2>3
  <2> HIDE DEF a, b, d, e
  <2>5. y = (c - v) + d
    BY <1>1, <1>5, <1>9, <1>x, <2>4
  <2> QED BY <2>5 DEF d
<1>11. y % c = IF v = 0 THEN 0 ELSE c - v
  <2>1. i + j * q \in Int
    BY <1>4, <1>8, <1>9, ProductInt
  <2>2. CASE v # 0
    <3>1. c - v \in 0 .. c - 1 /\ -(i + j * q) \in Int
      BY <1>1, <1>5, <1>6, <2>1, <2>2
    <3> QED BY <1>1, <1>10, <2>2, <3>1, DividedIs
  <2>3. CASE v = 0
    <3>1. (1 - (i + j * q)) * c = 1 * c - (i + j * q) * c
          /\ (-(i + j * q)) * c = -((i + j * q) * c) /\ (i + j * q) * c \in Int
      BY <1>1, <2>1, Sum, ProductInt, SMT
    <3>2. y = 0 + (1 - (i + j * q)) * c /\ 0 \in 0 .. c - 1 /\ 1 - (i + j * q) \in Int
      BY <1>1, <1>10, <2>1, <2>3, <3>1
    <3> QED BY <1>1, <2>3, <3>2, DividedIs
  <2> QED BY <2>2, <2>3
<1>12. PitCount(p) = y % c
  BY <1>y DEF PitCount, c, n
<1>13. v \in 0 .. c - 1
  BY <1>1, <1>5, <1>6
<1>14. v * T \in Nat /\ v * T <= ph /\ ph < v * T + T
  BY <1>1, <1>4, <1>5, <1>6, Product
<1> QED BY <1>2, <1>4, <1>11, <1>12, <1>13, <1>14 DEF c, v, T, span

\* The balance over n cycles that end before the next poll.  In counts of the CPU's clock
\* times those of the PIT's: s the period, a what had passed of it at the last poll, e and
\* b the cycles since then and the n.
InBalance(s, t, a, ph, e, owed, k) ==
  /\ s \in Nat /\ t \in Nat /\ a \in Nat /\ t > 0 /\ s >= a + t
  /\ ph \in 0 .. s - 1 /\ e \in Nat /\ owed \in Int /\ k \in {0, 1} /\ owed - k \in {-1, 0}
  /\ a <= ph + k * s - e /\ ph + k * s - e < a + t

LEMMA BalanceAged ==
  ASSUME NEW s, NEW t, NEW a, NEW ph, NEW e, NEW owed, NEW k, InBalance(s, t, a, ph, e, owed, k),
         NEW b \in Nat, e + b <= a
  PROVE  LET turns == (ph + b) \div s
         IN  /\ InBalance(s, t, a, (ph + b) % s, e + b, owed + turns, k + turns)
             /\ owed + turns \in -1 .. 1
<1> USE DEF InBalance
<1>1. k * s = IF k = 1 THEN s ELSE 0
  OBVIOUS
<1>2. CASE ph + b < s
  <2>1. ph + b \in 0 .. s - 1 /\ s > 0
    BY <1>2
  <2>2. (ph + b) % s = ph + b /\ (ph + b) \div s = 0
    BY <2>1, DividedOnce
  <2> QED BY <1>1, <2>2
<1>3. CASE ph + b >= s
  <2> DEFINE x == ph + b - s
  <2>1. k = 0 /\ x \in 0 .. s - 1 /\ s > 0 /\ ph + b = x + s
    BY <1>1, <1>3
  <2> HIDE DEF x
  <2>2. (ph + b) % s = x /\ (ph + b) \div s = 1
    BY <2>1, DividedOnce
  <2> QED BY <1>1, <2>1, <2>2
<1> QED BY <1>2, <1>3

\* The balance at the next poll, which sees that v counts have passed and the count at
\* n - v: it raises the interrupt if a period has ended since the one that saw l.
LEMMA BalancePolled ==
  ASSUME NEW t \in Nat, t > 0, NEW n \in Nat, NEW l \in 1 .. n - 1, NEW v \in 1 .. n - 1,
         NEW ph \in Nat, NEW e \in Nat, e <= l * t, v * t <= ph, ph < v * t + t,
         NEW owed \in Int, NEW k \in {0, 1}, owed - k \in {-1, 0},
         l * t <= ph + k * (n * t) - e, ph + k * (n * t) - e < (l + 1) * t
  PROVE  owed - (IF n - v > n - l THEN 1 ELSE 0) \in {-1, 0}
<1>1. /\ l * t \in Nat /\ v * t \in Nat /\ n * t \in Nat /\ (l + 1) * t = l * t + t
      /\ (v + 1) * t = v * t + t
  BY Product, OneMore
<1>2. CASE k = 0
  <2>1. v >= l
    <3> SUFFICES ASSUME l >= v + 1 PROVE FALSE
      OBVIOUS
    <3>1. (l - (v + 1)) * t \in Nat /\ (l - (v + 1)) * t = l * t - (v + 1) * t
      BY Product, Sum
    <3> QED BY <1>1, <1>2, <3>1
  <2> QED BY <1>2, <2>1
<1>3. CASE k = 1
  <2>1. v < l
    <3> SUFFICES ASSUME v >= l PROVE FALSE
      OBVIOUS
    <3>1. (v - l) * t \in Nat /\ (v - l) * t = v * t - l * t
      BY Product, Sum
    <3>2. (n - (l + 1)) * t \in Nat /\ (n - (l + 1)) * t = n * t - (l + 1) * t
      BY Product, Sum
    <3> QED BY <1>1, <1>3, <3>1, <3>2
  <2> QED BY <1>3, <2>1
<1> QED BY <1>2, <1>3

\* The part of the world the balance is about.
PitStands(w) ==
  /\ DOMAIN w = Parts /\ w.pit \in PitRecord /\ (w.pit.running => w.pit.count # 0)
  /\ w.phase \in Nat /\ w.owed \in Int /\ w.elapsed \in Int

\* What n cycles make of the PIT and of the balance.
LEMMA AgedPit ==
  ASSUME NEW w, PitStands(w), NEW n \in Int, Steady
  PROVE  LET x == Aged(w, n)
             on == w.pit.running /\ ~w.unseen
         IN  /\ x.pit.count = w.pit.count /\ x.pit.last = w.pit.last
             /\ x.pit.running = w.pit.running /\ x.unseen = w.unseen /\ x.fresh = w.fresh
             /\ x.elapsed = w.elapsed + n
             /\ x.pit.age = IF w.pit.count = 0 THEN w.pit.age
                            ELSE (w.pit.age + n) % PitTurn
             /\ x.owed = IF on THEN Clamp(w.owed + (w.phase + n * PitClock) \div Length(w.pit)) ELSE 0
             /\ x.phase = IF on THEN (w.phase + n * PitClock) % Length(w.pit) ELSE 0
             /\ x.apic = [w.apic EXCEPT !.left =
                  IF @ = Never \/ ~Counting(w.apic) THEN @ ELSE IF @ < -Never THEN @ ELSE @ - n]
<1>1. DOMAIN w = Parts /\ w.pit \in PitRecord
  BY DEF PitStands
<1>2. Balanced(w) = (w.pit.running /\ ~w.unseen) /\ Span(w) = Length(w.pit)
  BY <1>1 DEF Balanced, Span, Length
<1> QED BY <1>1, <1>2 DEF Aged, Position, Parts, PitRecord

LEMMA LengthFits ==
  ASSUME NEW p \in PitRecord
  PROVE  /\ p.count \in Nat /\ p.age \in Nat /\ p.last \in Nat
         /\ Length(p) \in Nat /\ (p.count # 0 => Length(p) > 0)
         /\ p.age * PitClock \in Int
BY Sizes, Product, ProductInt DEF PitRecord, Length

\* Cycles that end no later than the next poll.
LEMMA AgedTicks ==
  ASSUME NEW w, PitStands(w), NEW c, NEW d, PitFits(c, w), Steady, NEW n \in Nat,
         d.at = "lost" \/ (/\ c.at # "lost" /\ w.elapsed >= 0
                           /\ w.elapsed + n <= Horizon(c, w)
                           /\ Horizon(d, Aged(w, n)) <= Horizon(c, w)
                           /\ Horizon(c, w) \in Nat /\ Horizon(d, Aged(w, n)) \in Nat)
  PROVE  PitFits(d, Aged(w, n))
<1> DEFINE x == Aged(w, n)
           p == w.pit
<1>1. p \in PitRecord /\ (p.running => p.count # 0)
      /\ w.phase \in Nat /\ w.owed \in Int /\ w.elapsed \in Int
  BY DEF PitStands
<1>2. /\ x.pit.count = p.count /\ x.pit.last = p.last
      /\ x.pit.running = p.running /\ x.unseen = w.unseen /\ x.fresh = w.fresh
      /\ x.elapsed = w.elapsed + n
      /\ x.pit.age = IF p.count = 0 THEN p.age
                     ELSE (p.age + n) % PitTurn
      /\ p.running /\ ~w.unseen =>
           /\ x.owed = Clamp(w.owed + (w.phase + n * PitClock) \div Length(p))
           /\ x.phase = (w.phase + n * PitClock) % Length(p)
  <2>1. n \in Int
    OBVIOUS
  <2> HIDE DEF x
  <2>2. /\ x.pit.count = p.count /\ x.pit.last = p.last
        /\ x.pit.running = p.running /\ x.unseen = w.unseen /\ x.fresh = w.fresh
        /\ x.elapsed = w.elapsed + n
        /\ x.pit.age = IF p.count = 0 THEN p.age
                       ELSE (p.age + n) % PitTurn
        /\ x.owed = IF p.running /\ ~w.unseen
                    THEN Clamp(w.owed + (w.phase + n * PitClock) \div Length(p)) ELSE 0
        /\ x.phase = IF p.running /\ ~w.unseen THEN (w.phase + n * PitClock) % Length(p) ELSE 0
    BY <1>1, <2>1, AgedPit DEF x
  <2> QED BY <2>2
<1>3. Length(x.pit) = Length(p) /\ Seen(x.pit) = Seen(p)
  BY <1>2 DEF Length, Seen
<1> SUFFICES ASSUME p.running, ~w.unseen, Wide % p.count = 0
             PROVE  /\ InPhase(x)
                    /\ w.fresh => p.last = 0 /\ x.owed >= 0
                    /\ ~w.fresh /\ d.at # "lost" => Polls(d, x)
  BY <1>2 DEF PitFits
<1>4. /\ InPhase(w) /\ (w.fresh => p.last = 0 /\ w.owed >= 0)
      /\ ~w.fresh /\ c.at # "lost" => Polls(c, w)
  BY DEF PitFits
<1> HIDE DEF x
<1>5. /\ p.count \in Nat /\ p.count > 0 /\ p.age \in Nat /\ p.last \in Nat
      /\ Length(p) \in Nat /\ Length(p) > 0 /\ p.age * PitClock \in Int
      /\ n * PitClock \in Nat /\ PitClock \in Nat
      /\ TicksPerSecond \in Nat /\ TicksPerSecond > 0
  BY <1>1, LengthFits, Product, Sizes
<1> HIDE DEF p
<1>6. InPhase(x)
  <2>1. (((p.age + n) % PitTurn) * PitClock) % Length(p)
          = (((p.age * PitClock) % Length(p)) + n * PitClock) % Length(p)
    <3>1. n \in Int /\ p \in PitRecord /\ p.count # 0
      BY <1>1, <1>5 DEF p
    <3> QED BY <3>1, PhaseAged, Zenon
  <2> QED BY <1>2, <1>3, <1>4, <1>5, <2>1 DEF InPhase, p
<1> DEFINE turns == (w.phase + n * PitClock) \div Length(p)
<1>7. w.phase \in 0 .. Length(p) - 1
  BY <1>4, <1>5, DivInt DEF InPhase, p
<1>8. w.phase + n * PitClock \in Nat /\ turns \in Nat
  BY <1>5, <1>7, DivNat
<1>9. x.owed = Clamp(w.owed + turns)
  BY <1>2
<1>t. turns = (w.phase + n * PitClock) \div Length(p)
  OBVIOUS
<1> HIDE DEF turns
<1>10. w.fresh => p.last = 0 /\ x.owed >= 0
  BY <1>1, <1>4, <1>8, <1>9, Sizes DEF Clamp, Min2
<1>11. ASSUME ~w.fresh, d.at # "lost"
       PROVE  Polls(d, x)
  <2> DEFINE l == Seen(p)
             a == l * TicksPerSecond
             e == w.elapsed * PitClock
             h == Horizon(c, w) * PitClock
             g == Horizon(d, x) * PitClock
  <2>1. /\ p.last \in 1 .. p.count - 1 /\ h <= a
        /\ Horizon(c, w) \in Nat /\ Horizon(d, x) \in Nat /\ Horizon(d, x) <= Horizon(c, w)
        /\ w.elapsed \in Nat /\ w.elapsed + n <= Horizon(c, w)
    BY <1>1, <1>4, <1>11 DEF Polls, p, x
  <2>2. PICK k \in {0, 1} : Within(w, k)
    BY <1>4, <1>11 DEF Polls
  <2>3. l \in 1 .. p.count - 1
    BY <1>5, <2>1 DEF Seen
  <2> HIDE DEF l
  <2>4. (l + 1) * TicksPerSecond = a + TicksPerSecond /\ a \in Nat
        /\ Length(p) >= a + TicksPerSecond
    <3>1. (l + 1) * TicksPerSecond = l * TicksPerSecond + TicksPerSecond /\ a \in Nat
      BY <1>5, <2>3, OneMore, Product
    <3>2. (p.count - (l + 1)) * TicksPerSecond \in Nat
      BY <1>5, <2>3, Product
    <3>3. (p.count - (l + 1)) * TicksPerSecond = p.count * TicksPerSecond - (l + 1) * TicksPerSecond
      BY <1>5, <2>3, Sum
    <3> QED BY <1>5, <3>1, <3>2, <3>3 DEF Length
  <2>5. /\ e \in Nat /\ h \in Nat /\ g \in Nat /\ g <= h /\ e + n * PitClock <= h
        /\ (w.elapsed + n) * PitClock = e + n * PitClock
    <3>1. (Horizon(c, w) - Horizon(d, x)) * PitClock \in Nat
          /\ (Horizon(c, w) - Horizon(d, x)) * PitClock = h - g
      BY <1>5, <2>1, Product, Sum
    <3>2. (w.elapsed + n) * PitClock = e + n * PitClock
      BY <1>5, <2>1, Sum
    <3>3. (Horizon(c, w) - (w.elapsed + n)) * PitClock \in Nat
          /\ (Horizon(c, w) - (w.elapsed + n)) * PitClock = h - (w.elapsed + n) * PitClock
      BY <1>5, <2>1, Product, Sum
    <3>4. e \in Nat /\ h \in Nat /\ g \in Nat
      BY <1>5, <2>1, Product
    <3> QED BY <1>5, <3>1, <3>2, <3>3, <3>4
  <2>6. /\ w.owed - k \in {-1, 0} /\ a <= w.phase + k * Length(p) - e
        /\ w.phase + k * Length(p) - e < a + TicksPerSecond
    <3>1. /\ w.owed - k \in {-1, 0} /\ l * TicksPerSecond <= w.phase + k * Length(p) - e
          /\ w.phase + k * Length(p) - e < (l + 1) * TicksPerSecond
      BY <2>2 DEF Within, p, l
    <3> QED BY <2>4, <3>1
  <2> HIDE DEF l, a, e, h, g
  <2>7. e + n * PitClock <= a
    BY <1>5, <2>1, <2>4, <2>5
  <2> DEFINE b == n * PitClock
             s == Length(p)
             t == TicksPerSecond
             m == (w.phase + b) % s
             j == k + turns
  <2>8. turns = (w.phase + b) \div s /\ x.phase = m
    BY <1>2, <1>t
  <2>9. b \in Nat /\ e + b <= a /\ InBalance(s, t, a, w.phase, e, w.owed, k)
    BY <1>1, <1>5, <1>7, <2>4, <2>5, <2>6, <2>7 DEF InBalance
  <2> HIDE DEF b, s, t
  <2>10. InBalance(s, t, a, m, e + b, w.owed + turns, j) /\ w.owed + turns \in -1 .. 1
    BY <2>8, <2>9, BalanceAged
  <2> HIDE DEF m, j
  <2>11. Within(x, j)
    <3>1. x.owed = w.owed + turns
      BY <1>9, <2>10, Sizes, TimersAssumption DEF Clamp, Min2
    <3>2. x.elapsed * PitClock = e + b
      BY <1>2, <2>5 DEF b
    <3>3. Length(x.pit) = s /\ Seen(x.pit) = l
      BY <1>3 DEF s, l
    <3>4. (l + 1) * TicksPerSecond = a + TicksPerSecond /\ l * TicksPerSecond = a
      BY <2>4 DEF a
    <3>5. /\ (w.owed + turns) - j \in {-1, 0} /\ a <= m + j * s - (e + b)
          /\ m + j * s - (e + b) < a + t
      BY <2>10 DEF InBalance
    <3>6. t = TicksPerSecond
      BY DEF t
    <3> QED BY <2>8, <3>1, <3>2, <3>3, <3>4, <3>5, <3>6 DEF Within
  <2>12. g <= a /\ Seen(x.pit) = l
    BY <1>3, <2>1, <2>4, <2>5 DEF l
  <2>13. x.pit.last \in 1 .. x.pit.count - 1
    BY <1>2, <2>1
  <2>14. j \in {0, 1}
    BY <2>10 DEF InBalance
  <2> QED BY <2>11, <2>12, <2>13, <2>14 DEF Polls, g, a
<1> QED BY <1>6, <1>10, <1>11

\* A poll, and a slice that ends when the PIT wants to be polled again.
LEMMA PolledTicks ==
  ASSUME NEW w, WorldFits(w), NEW c, c.at = "poll", PitFits(c, w), w.elapsed >= 0,
         NEW d, d.at = "top", d.slice \in Nat, d.slice <= PitWait(w.pit)
  PROVE  PitFits(d, [Polled(w) EXCEPT !.elapsed = 0])
<1> DEFINE x == [Polled(w) EXCEPT !.elapsed = 0]
           p == w.pit
           q == PitPolled(w.pit)
           v == w.phase \div TicksPerSecond
           base == IF w.fresh THEN Min2(w.owed, 1) ELSE w.owed
           raised == IF PitRaises(p) THEN 1 ELSE 0
<1>1. /\ w \in WorldRecord /\ p \in PitRecord /\ w.owed \in Int /\ w.elapsed \in Nat
      /\ TicksPerSecond \in Nat /\ TicksPerSecond > 0 /\ PitClock \in Nat /\ PitClock > 0
  BY Sizes DEF WorldFits, WorldRecord
<1>2. /\ x.pit = q /\ x.fresh = FALSE /\ x.phase = w.phase /\ x.elapsed = 0
      /\ x.unseen = (w.unseen \/ (p.running /\ PitCount(p) = 0))
      /\ x.owed = Clamp(base - raised)
  <2> HIDE DEF p, q, base, raised
  <2>1. x.pit = PitPolled(w.pit) /\ x.fresh = FALSE /\ x.phase = w.phase /\ x.elapsed = 0
    BY <1>1 DEF Polled, WorldRecord
  <2>2. x.unseen = (w.unseen \/ (w.pit.running /\ PitCount(w.pit) = 0))
    BY <1>1 DEF Polled, WorldRecord
  <2>3. x.owed = Clamp((IF w.fresh THEN Min2(w.owed, 1) ELSE w.owed)
                         - (IF PitRaises(w.pit) THEN 1 ELSE 0))
    BY <1>1 DEF Polled, WorldRecord
  <2> QED BY <2>1, <2>2, <2>3 DEF p, q, base, raised
<1>3. q.count = p.count /\ q.age = p.age /\ (q.running => p.running)
  BY <1>1 DEF PitPolled, PitRecord
<1> SUFFICES ASSUME q.running, ~w.unseen, PitCount(p) # 0, Wide % p.count = 0
             PROVE  InPhase(x) /\ Polls(d, x)
  BY <1>2, <1>3 DEF PitFits
<1>4. /\ p.running /\ (PitRaises(p) => Repeats(p)) /\ q.last = PitCount(p) /\ p.count # 0
  BY <1>1, <1>3 DEF PitPolled, PitRecord, PitCount
<1>5. /\ InPhase(w) /\ (w.fresh => p.last = 0 /\ w.owed >= 0)
      /\ ~w.fresh => Polls(c, w)
  BY <1>4 DEF PitFits
<1> HIDE DEF x, q
<1>6. /\ v \in 0 .. p.count - 1 /\ PitCount(p) = (IF v = 0 THEN 0 ELSE p.count - v)
      /\ w.phase \in Nat /\ Length(p) \in Nat /\ v * TicksPerSecond \in Nat
      /\ v * TicksPerSecond <= w.phase /\ w.phase < v * TicksPerSecond + TicksPerSecond
  <2>1. w.phase = (p.age * PitClock) % Length(p)
    BY <1>5 DEF InPhase
  <2> QED BY <1>1, <1>4, <2>1, CountIs
<1> HIDE DEF v
<1>7. p.count \in Nat /\ v \in 1 .. p.count - 1 /\ q.last = p.count - v /\ Seen(q) = v
      /\ Length(q) = Length(p) /\ q.last \in 1 .. q.count - 1
  BY <1>1, <1>3, <1>4, <1>6 DEF Seen, PitRecord, Length
<1>8. d.slice * PitClock <= v * TicksPerSecond
  <2>1. PitWait(p) = (v * TicksPerSecond) \div PitClock
    BY <1>4, <1>7 DEF PitWait, ToTicks
  <2> DEFINE a == v * TicksPerSecond
             k == a \div PitClock
  <2>2. a \in Nat
    BY <1>6
  <2>3. k \in Nat /\ k * PitClock \in Int /\ a = k * PitClock + (a % PitClock)
        /\ a % PitClock \in Nat
    <3> HIDE DEF a
    <3> QED BY <1>1, <2>2, Divided, DivNat
  <2>4. d.slice <= k
    BY <2>1
  <2> HIDE DEF k, a
  <2>5. (k - d.slice) * PitClock \in Nat /\ (k - d.slice) * PitClock = k * PitClock - d.slice * PitClock
    BY <1>1, <2>3, <2>4, Product, Sum
  <2>6. d.slice * PitClock \in Int
    BY <1>1, ProductInt
  <2> QED BY <2>2, <2>3, <2>5, <2>6 DEF a
<1>9. base - raised \in {-1, 0}
  <2>1. CASE w.fresh
    <3>1. PitRaises(p)
      BY <1>4, <1>5, <1>7, <2>1 DEF PitRaises
    <3> QED BY <1>1, <1>5, <2>1, <3>1 DEF Min2
  <2>2. CASE ~w.fresh
    <3> DEFINE l == Seen(p)
               t == TicksPerSecond
               e == w.elapsed * PitClock
               n == p.count
    <3>1. p.last \in 1 .. n - 1 /\ e <= l * t /\ l \in 1 .. n - 1
      BY <1>5, <1>7, <2>2 DEF Polls, Horizon, Seen
    <3>2. PICK k \in {0, 1} : Within(w, k)
      BY <1>5, <2>2 DEF Polls
    <3>3. /\ w.owed - k \in {-1, 0} /\ l * t <= w.phase + k * (n * t) - e
          /\ w.phase + k * (n * t) - e < (l + 1) * t
      BY <3>2 DEF Within, Length
    <3>4. e \in Nat
      BY <1>1, Product
    <3>5. PitRaises(p) <=> n - v > n - l
      BY <1>4, <1>7, <3>1 DEF PitRaises, Seen
    <3> HIDE DEF l, e, n, t
    <3>6. /\ n \in Nat /\ v \in 1 .. n - 1 /\ t \in Nat /\ t > 0 /\ w.phase \in Nat
          /\ v * t <= w.phase /\ w.phase < v * t + t
      BY <1>1, <1>6, <1>7 DEF n, t
    <3>7. w.owed - (IF n - v > n - l THEN 1 ELSE 0) \in {-1, 0}
      BY <1>1, <3>1, <3>3, <3>4, <3>6, BalancePolled
    <3> QED BY <2>2, <3>5, <3>7
  <2> QED BY <2>1, <2>2
<1> HIDE DEF base, raised
<1>10. x.owed = base - raised
  <2>1. base - raised \in Int
    BY <1>9
  <2> QED BY <1>2, <1>9, Sizes, TimersAssumption DEF Clamp, Min2
<1>11. InPhase(x)
  BY <1>2, <1>3, <1>5, <1>7 DEF InPhase
<1>12. Within(x, 0)
  <2>1. /\ x.owed - 0 \in {-1, 0} /\ 0 * Length(q) = 0 /\ 0 * PitClock = 0
        /\ (v + 1) * TicksPerSecond = v * TicksPerSecond + TicksPerSecond
    BY <1>1, <1>6, <1>7, <1>9, <1>10, OneMore
  <2>2. w.phase + 0 - 0 = w.phase
    BY <1>6
  <2> QED BY <1>2, <1>6, <1>7, <2>1, <2>2 DEF Within
<1>13. Horizon(d, x) = d.slice
  BY DEF Horizon
<1> QED BY <1>2, <1>7, <1>8, <1>11, <1>12, <1>13 DEF Polls

\* The deadline after an expiry is not in the past.
LEMMA PolledApic ==
  ASSUME NEW a \in ApicRecord, NEW e, Punctual(a, e), e \in Int, e <= MaxSlice
  PROVE  Punctual(ApicPolled(a), 0)
BY Sizes DEF Punctual, ApicPolled, Expired, Counting, ApicRecord

\* The property looks at the loop and the devices only.
LEMMA TicksStay ==
  ASSUME UNCHANGED use, Steady => TicksFit(cpu', world')
  PROVE  TicksInv'
BY DEF TicksInv, TicksFit, Unguarded, Punctual, PitFits, Polls, Within, InPhase, Horizon, Seen,
       Length, Counting, Steady

\* An instruction, or several: what they did to devices and loop, and their cycles.
LEMMA InstructionTicks ==
  ASSUME Steady, NEW w, PitStands(w), w.apic \in ApicRecord,
         NEW c \in CpuRecord, c.at = "in", c.toRun # 0, TicksFit(c, w),
         NEW n \in 1 .. c.toRun,
         world' = Aged(w, n), cpu' = Executed(c, n), UNCHANGED use
  PROVE  TicksInv'
<1> DEFINE d == Executed(c, n)
           x == Aged(w, n)
<1>1. /\ c.toRun \in Nat /\ c.refill \in Nat /\ c.slice \in Nat /\ n \in Nat /\ n \in Int
      /\ n <= c.toRun /\ w.elapsed \in Int /\ MaxSlice \in Nat
  BY Sizes DEF CpuRecord, PitStands
<1>2. /\ ~c.halted /\ ~c.blocked /\ w.elapsed >= 0 /\ c.slice <= MaxSlice
      /\ w.elapsed + c.toRun + c.refill <= c.slice
  BY DEF TicksFit, Unguarded
<1>3. /\ d.slice = c.slice /\ d.halted = c.halted /\ d.blocked = c.blocked
      /\ IF c.toRun # n THEN d.at = "in" /\ d.toRun = c.toRun - n /\ d.refill = c.refill
         ELSE IF c.refill = 0 THEN d.at = "done"
         ELSE d.at = "top" /\ d.toRun = c.refill /\ d.refill = 0
  BY <1>1 DEF Executed, CpuRecord
<1>4. /\ x.elapsed = w.elapsed + n
      /\ x.apic = [w.apic EXCEPT !.left =
           IF @ = Never \/ ~Counting(w.apic) THEN @ ELSE IF @ < -Never THEN @ ELSE @ - n]
  <2> HIDE DEF x
  <2> QED BY <1>1, AgedPit DEF x
<1> HIDE DEF d, x
<1>5. Unguarded(d, x.elapsed)
  BY <1>1, <1>2, <1>3, <1>4 DEF Unguarded
<1>6. Punctual(x.apic, x.elapsed)
  <2>1. Punctual(w.apic, w.elapsed)
    BY DEF TicksFit
  <2> QED BY <1>1, <1>4, <2>1, Sizes DEF Punctual, Counting, ApicRecord
<1>7. PitFits(d, x)
  <2>1. Horizon(c, w) = c.slice /\ Horizon(d, x) = c.slice
    BY <1>3 DEF Horizon
  <2> QED BY <1>1, <1>2, <2>1, AgedTicks DEF x, TicksFit
<1>8. TicksFit(d, x)
  BY <1>5, <1>6, <1>7 DEF TicksFit
<1>9. cpu' = d /\ world' = x
  BY DEF d, x
<1> QED BY <1>8, <1>9, TicksStay


\* Devices and loop of which neither the balance nor the account knows.
LEMMA PitStays ==
  ASSUME NEW c, NEW w, PitFits(c, w), NEW d, NEW x,
         d.at = "lost" \/ (/\ c.at # "lost" /\ Horizon(d, x) <= Horizon(c, w)
                           /\ Horizon(c, w) \in Nat /\ Horizon(d, x) \in Nat),
         w.pit.running => w.pit \in PitRecord,
         \A f \in {"running", "count", "age", "last"} : x.pit[f] = w.pit[f],
         \A f \in {"unseen", "fresh", "owed", "phase", "elapsed"} : x[f] = w[f]
  PROVE  PitFits(d, x)
<1> SUFFICES ASSUME w.pit.running, ~w.unseen, Wide % w.pit.count = 0
             PROVE  /\ InPhase(x)
                    /\ w.fresh => w.pit.last = 0 /\ w.owed >= 0
                    /\ ~w.fresh /\ d.at # "lost" => Polls(d, x)
  BY DEF PitFits
<1>1. /\ InPhase(w) /\ (w.fresh => w.pit.last = 0 /\ w.owed >= 0)
      /\ ~w.fresh /\ c.at # "lost" => Polls(c, w)
  BY DEF PitFits
<1>2. Seen(x.pit) = Seen(w.pit) /\ Length(x.pit) = Length(w.pit)
  BY DEF Seen, Length
<1>3. InPhase(x)
  BY <1>1, <1>2 DEF InPhase
<1>4. ASSUME ~w.fresh, d.at # "lost"
      PROVE  Polls(d, x)
  <2> DEFINE h == Horizon(c, w) * PitClock
             g == Horizon(d, x) * PitClock
             a == Seen(w.pit) * TicksPerSecond
  <2>1. Polls(c, w)
    BY <1>1, <1>4
  <2>2. g <= a
    <3>1. (Horizon(c, w) - Horizon(d, x)) * PitClock \in Nat
          /\ (Horizon(c, w) - Horizon(d, x)) * PitClock = h - g
          /\ h \in Nat /\ g \in Nat
      BY <1>4, Product, Sum, Sizes
    <3>2. h <= a
      BY <2>1 DEF Polls
    <3>3. a \in Int
      <4>1. Seen(w.pit) \in Int
        BY DEF Seen, PitRecord
      <4> QED BY <4>1, ProductInt, Sizes
    <3> HIDE DEF h, g, a
    <3> QED BY <3>1, <3>2, <3>3
  <2>3. PICK k \in {0, 1} : Within(w, k)
    BY <2>1 DEF Polls
  <2>4. Within(x, k)
    BY <1>2, <2>3 DEF Within
  <2> QED BY <1>2, <2>1, <2>2, <2>4 DEF Polls
<1> QED BY <1>1, <1>3, <1>4

\* What may become of the loop before an instruction ends.
Shortened(d, c) ==
  /\ d \in CpuRecord /\ d.at = c.at /\ d.slice = c.slice /\ d.toRun # 0
  /\ (d.halted => c.halted) /\ (d.blocked => c.blocked)
  /\ d.toRun + d.refill <= c.toRun + c.refill

LEMMA GuestStep ==
  ASSUME IInv, TicksInv, Steady, NEW w, NEW c, Instruction(w, c), Shortened(c, cpu),
         DOMAIN w = Parts, w.apic \in ApicRecord, Punctual(w.apic, world.elapsed),
         w.elapsed = world.elapsed, w.pit \in PitRecord, w.pit.running => w.pit.count # 0,
         w.phase \in Nat, w.owed \in Int, PitFits(c, w)
  PROVE  TicksInv'
<1>1. /\ cpu.at = "in" /\ world' = Aged(w, 1) /\ cpu' = Executed(c, 1) /\ use' = use
      /\ world.elapsed \in Int /\ cpu \in CpuRecord
  BY InLoop DEF Instruction
<1>2. PitStands(w)
  BY <1>1 DEF PitStands
<1>3. c \in CpuRecord /\ c.at = "in" /\ c.toRun # 0 /\ 1 \in 1 .. c.toRun
  BY <1>1 DEF Shortened, CpuRecord
<1>4. TicksFit(c, w)
  <2>1. Unguarded(cpu, world.elapsed)
    BY DEF TicksInv, TicksFit
  <2>2. Unguarded(c, w.elapsed)
    BY <1>1, <1>3, <2>1 DEF Unguarded, Shortened, CpuRecord
  <2> QED BY <2>2 DEF TicksFit
<1> QED BY <1>1, <1>2, <1>3, <1>4, InstructionTicks

\* An instruction that does not touch the PIT's counter.
LEMMA OtherDevices ==
  ASSUME IInv, TicksInv, Steady, NEW w, NEW c, Instruction(w, c), Shortened(c, cpu),
         DOMAIN w = Parts, w.apic \in ApicRecord, Punctual(w.apic, world.elapsed),
         w.pit \in PitRecord,
         \A f \in {"running", "count", "age", "last"} : w.pit[f] = world.pit[f],
         \A f \in {"unseen", "fresh", "owed", "phase", "elapsed"} : w[f] = world[f]
  PROVE  TicksInv'
<1>1. /\ world.pit.running => world.pit.count # 0
      /\ world.phase \in Nat /\ world.owed \in Int
  BY InLoop, Sizes DEF WorldFits, WorldRecord
<1>2. PitFits(cpu, world)
  BY DEF TicksInv, TicksFit
<1>3. PitFits(c, w)
  <2>1. cpu.at = "in" /\ c.at = "in" /\ c.slice = cpu.slice /\ cpu.slice \in Nat
        /\ world.pit \in PitRecord
    BY InLoop, Sizes DEF Instruction, Shortened, CpuRecord
  <2>2. Horizon(c, w) = cpu.slice /\ Horizon(cpu, world) = cpu.slice
    BY <2>1 DEF Horizon
  <2> QED BY <1>2, <2>1, <2>2, PitStays
<1> QED BY <1>1, <1>3, GuestStep

\* What the instructions do to the loop, but for the interrupt guards.
LEMMA Shortening ==
  ASSUME IInv, cpu.at = "in", NEW f \in BOOLEAN, NEW h \in Sources \cup {"none"}
  PROVE  \A c \in {cpu, LoopExit(cpu), Cancelled(cpu), [cpu EXCEPT !.if = f],
                   LoopExit([cpu EXCEPT !.if = f]),
                   LoopExit([cpu EXCEPT !.if = f, !.handling = h])} : Shortened(c, cpu)
<1>1. /\ cpu \in CpuRecord /\ cpu.toRun # 0 /\ Never \in Nat /\ Never >= 1
      /\ \A d \in {LoopExit(cpu), Cancelled(cpu)} : d \in CpuRecord
  BY InLoop, Sizes DEF IInv, Clocked
<1>2. cpu.toRun \in Nat /\ cpu.refill \in Nat /\ cpu.toRun <= Never
  BY <1>1 DEF CpuRecord
<1>3. Shortened(cpu, cpu) /\ Shortened([cpu EXCEPT !.if = f], cpu)
  BY <1>1, <1>2 DEF Shortened, CpuRecord
<1>4. Shortened(Cancelled(cpu), cpu)
  BY <1>1, <1>2 DEF Shortened, CpuRecord, Cancelled
<1>5. ASSUME NEW c \in {cpu, [cpu EXCEPT !.if = f], [cpu EXCEPT !.if = f, !.handling = h]}
      PROVE  Shortened(LoopExit(c), cpu)
  <2> DEFINE now == Now(c)
             refill == c.toRun - 1
             one == 1
             d == [c EXCEPT !.cycles = now, !.refill = refill, !.toRun = one, !.offset = one]
  <2>1. /\ c \in CpuRecord /\ c.toRun = cpu.toRun /\ c.refill = cpu.refill /\ c.at = cpu.at
        /\ c.slice = cpu.slice /\ c.halted = cpu.halted /\ c.blocked = cpu.blocked
    BY <1>1 DEF CpuRecord
  <2>2. now \in Int /\ refill \in 0 .. Never /\ refill = cpu.toRun - 1
        /\ one \in 0 .. Never /\ one = 1
    BY <1>1, <1>2, <2>1 DEF Now, CpuRecord
  <2>3. LoopExit(c) = d
    BY DEF LoopExit
  <2> HIDE DEF now, refill, one
  <2>4. d \in CpuRecord
    BY <2>1, <2>2 DEF CpuRecord
  <2>5. /\ d.toRun = one /\ d.refill = refill /\ d.at = c.at /\ d.slice = c.slice
        /\ d.halted = c.halted /\ d.blocked = c.blocked
    BY <2>1 DEF CpuRecord
  <2> HIDE DEF d
  <2> QED BY <1>2, <2>1, <2>2, <2>3, <2>4, <2>5 DEF Shortened
<1> QED BY <1>3, <1>4, <1>5

LEMMA GuestTicks ==
  ASSUME IInv, TicksInv, Guest
  PROVE  TicksInv'
<1> SUFFICES ASSUME Steady PROVE TicksInv'
  BY TicksStay DEF Guest, WriteCount, WriteMode, WriteRegisterA, WriteRegisterB,
     WriteInitialCount, WriteTimerEntry, WritePowerManagement, Hlt, Cli, Popf, Sti,
     LoadStackSegment, ReturnFromHandler, Instruction, Steady
<1>1. /\ DOMAIN world = Parts /\ world.pit \in PitRecord /\ world.apic \in ApicRecord
      /\ world.elapsed \in Int /\ use \in Use /\ world.elapsed <= MaxSlice
      /\ world.elapsed >= 0 /\ Punctual(world.apic, world.elapsed) /\ MaxSlice \in Nat
      /\ "none" \in Sources \cup {"none"}
  BY InLoop, Sizes DEF WorldRecord, Parts, TicksInv, TicksFit, Unguarded
<1>2. /\ \A f \in BOOLEAN, h \in Sources \cup {"none"} :
           \A c \in {cpu, LoopExit(cpu), Cancelled(cpu), [cpu EXCEPT !.if = f],
                    LoopExit([cpu EXCEPT !.if = f]),
                    LoopExit([cpu EXCEPT !.if = f, !.handling = h])} :
              cpu.at = "in" => Shortened(c, cpu)
  BY Shortening
<1>3. \A c \in {cpu, LoopExit(cpu), Cancelled(cpu)} : cpu.at = "in" => Shortened(c, cpu)
  BY <1>1, <1>2
<1>4. CASE WriteCount
  <2>1. PICK v \in use.loads :
          Instruction([world EXCEPT !.pit = Loaded(@, v), !.owed = 0, !.phase = 0, !.fresh = TRUE,
                                    !.unseen = FALSE], cpu)
    BY <1>4 DEF WriteCount
  <2> DEFINE p == Loaded(world.pit, v)
             w == [world EXCEPT !.pit = p, !.owed = 0, !.phase = 0, !.fresh = TRUE, !.unseen = FALSE]
  <2>2. /\ DOMAIN w = Parts /\ w.apic = world.apic /\ w.elapsed = world.elapsed /\ w.pit = p
        /\ w.owed = 0 /\ w.phase = 0 /\ w.fresh = TRUE /\ w.unseen = FALSE
    BY <1>1 DEF Parts
  <2>3. p \in PitRecord /\ p.running /\ p.count # 0 /\ p.age = 0 /\ p.last = 0
    <3>1. v \in 0 .. Reload - 1
      BY <1>1 DEF Use
    <3> DEFINE n == IF v = 0 THEN Reload ELSE v
               zero == 0
               yes == TRUE
    <3>2. n \in 0 .. Reload /\ n # 0 /\ zero \in Nat /\ zero \in 0 .. Reload /\ yes \in BOOLEAN
      BY <3>1, Sizes
    <3>3. p = [world.pit EXCEPT !.count = n, !.age = zero, !.running = yes, !.last = zero]
      BY DEF Loaded
    <3> HIDE DEF p, n, zero, yes
    <3>4. p \in PitRecord /\ p.running = yes /\ p.count = n /\ p.age = zero /\ p.last = zero
      BY <1>1, <3>2, <3>3 DEF PitRecord
    <3> QED BY <3>2, <3>4 DEF zero, yes
  <2>4. Instruction(w, cpu) /\ Shortened(cpu, cpu)
    BY <1>3, <2>1 DEF Instruction
  <2> HIDE DEF p, w
  <2>5. InPhase(w)
    <3>1. Length(p) \in Nat /\ Length(p) > 0 /\ 0 * PitClock = 0
      BY <2>3, LengthFits, Sizes
    <3>2. 0 % Length(p) = 0
      BY <3>1, DividedOnce
    <3> QED BY <2>2, <2>3, <3>1, <3>2 DEF InPhase
  <2>6. PitFits(cpu, w)
    BY <2>2, <2>3, <2>5 DEF PitFits
  <2> QED BY <1>1, <2>2, <2>3, <2>4, <2>6, GuestStep
<1>5. CASE WriteMode
  <2>1. PICK m \in use.modes :
          LET edge == m = 2 /\ "pit" \notin world.pins IN
          Instruction([world EXCEPT !.pit.mode = m,
                                    !.pins = @ \cup (IF m = 2 THEN {"pit"} ELSE {}),
                                    !.pending = @ \cup (IF edge THEN {"pit"} ELSE {})],
                      IF edge THEN LoopExit(cpu) ELSE cpu)
    BY <1>5 DEF WriteMode
  <2> DEFINE edge == m = 2 /\ "pit" \notin world.pins
             w == [world EXCEPT !.pit.mode = m,
                                !.pins = @ \cup (IF m = 2 THEN {"pit"} ELSE {}),
                                !.pending = @ \cup (IF edge THEN {"pit"} ELSE {})]
             c == IF edge THEN LoopExit(cpu) ELSE cpu
  <2>2. /\ DOMAIN w = Parts /\ w.apic = world.apic /\ w.pit = [world.pit EXCEPT !.mode = m]
        /\ \A f \in {"unseen", "fresh", "owed", "phase", "elapsed"} : w[f] = world[f]
    BY <1>1 DEF Parts
  <2>3. /\ w.pit \in PitRecord
        /\ \A f \in {"running", "count", "age", "last"} : w.pit[f] = world.pit[f]
    <3>1. m \in 0 .. 5
      BY <1>1 DEF Use
    <3> QED BY <1>1, <2>2, <3>1 DEF PitRecord
  <2>4. Instruction(w, c) /\ Shortened(c, cpu)
    BY <1>3, <2>1 DEF Instruction
  <2> HIDE DEF w, c
  <2> QED BY <1>1, <2>2, <2>3, <2>4, OtherDevices
<1>6. ASSUME NEW w, NEW c, Instruction(w, c), Shortened(c, cpu), DOMAIN w = Parts,
             w.apic = world.apic \/ (w.apic \in ApicRecord /\ Punctual(w.apic, world.elapsed)),
             \A f \in {"pit", "unseen", "fresh", "owed", "phase", "elapsed"} : w[f] = world[f]
      PROVE  TicksInv'
  BY <1>1, <1>6, OtherDevices
<1>7. CASE WriteRegisterA
  <2>1. PICK f \in use.rates : Instruction([world EXCEPT !.rtc = Retimed([@ EXCEPT !.rate = f])], cpu)
    BY <1>7 DEF WriteRegisterA
  <2> DEFINE w == [world EXCEPT !.rtc = Retimed([@ EXCEPT !.rate = f])]
  <2>2. /\ DOMAIN w = Parts /\ w.apic = world.apic
        /\ \A g \in {"pit", "unseen", "fresh", "owed", "phase", "elapsed"} : w[g] = world[g]
    BY <1>1 DEF Parts
  <2>3. Instruction(w, cpu) /\ Shortened(cpu, cpu)
    BY <1>3, <2>1 DEF Instruction
  <2> HIDE DEF w
  <2> QED BY <1>6, <2>2, <2>3
<1>8. CASE WriteRegisterB
  <2>1. PICK e \in use.enables :
          Instruction([world EXCEPT !.rtc = Retimed([@ EXCEPT !.enabled = e])], cpu)
    BY <1>8 DEF WriteRegisterB
  <2> DEFINE w == [world EXCEPT !.rtc = Retimed([@ EXCEPT !.enabled = e])]
  <2>2. /\ DOMAIN w = Parts /\ w.apic = world.apic
        /\ \A g \in {"pit", "unseen", "fresh", "owed", "phase", "elapsed"} : w[g] = world[g]
    BY <1>1 DEF Parts
  <2>3. Instruction(w, cpu) /\ Shortened(cpu, cpu)
    BY <1>3, <2>1 DEF Instruction
  <2> HIDE DEF w
  <2> QED BY <1>6, <2>2, <2>3
<1>9. CASE WriteInitialCount
  <2>1. PICK n \in use.counts :
          Instruction([world EXCEPT !.apic.count = n, !.apic.left = n], Cancelled(cpu))
    BY <1>9 DEF WriteInitialCount
  <2> DEFINE w == [world EXCEPT !.apic.count = n, !.apic.left = n]
  <2>2. /\ DOMAIN w = Parts /\ w.apic = [world.apic EXCEPT !.count = n, !.left = n]
        /\ \A g \in {"pit", "unseen", "fresh", "owed", "phase", "elapsed"} : w[g] = world[g]
    BY <1>1 DEF Parts, ApicRecord
  <2>3. w.apic \in ApicRecord /\ Punctual(w.apic, world.elapsed)
    <3>1. n \in Nat /\ n \in Int
      BY <1>1 DEF Use
    <3> DEFINE a == [world.apic EXCEPT !.count = n, !.left = n]
    <3>2. a \in ApicRecord /\ a.count = n /\ a.left = n
      <4>1. world.apic \in ApicRecord
        BY <1>1
      <4>2. a \in ApicRecord
        BY <3>1, <4>1 DEF ApicRecord
      <4>3. a.count = n /\ a.left = n
        BY <4>1 DEF ApicRecord
      <4> QED BY <4>2, <4>3
    <3>3. w.apic = a
      BY <2>2
    <3> HIDE DEF a, w
    <3> QED BY <1>1, <3>1, <3>2, <3>3 DEF Punctual
  <2> DEFINE c == Cancelled(cpu)
  <2>4. Instruction(w, c) /\ Shortened(c, cpu)
    BY <1>3, <2>1 DEF Instruction
  <2> HIDE DEF w, c
  <2> QED BY <1>6, <2>2, <2>3, <2>4
<1>10. CASE WriteTimerEntry
  <2>1. PICK m \in use.masked, p \in BOOLEAN :
          Instruction([world EXCEPT !.apic.masked = m, !.apic.periodic = p], cpu)
    BY <1>10 DEF WriteTimerEntry
  <2> DEFINE w == [world EXCEPT !.apic.masked = m, !.apic.periodic = p]
  <2>2. /\ DOMAIN w = Parts /\ w.apic = [world.apic EXCEPT !.masked = m, !.periodic = p]
        /\ \A g \in {"pit", "unseen", "fresh", "owed", "phase", "elapsed"} : w[g] = world[g]
    BY <1>1 DEF Parts, ApicRecord
  <2>3. w.apic \in ApicRecord /\ Punctual(w.apic, world.elapsed)
    <3>1. m \in BOOLEAN
      BY <1>1 DEF Use
    <3> DEFINE a == [world.apic EXCEPT !.masked = m, !.periodic = p]
    <3>2. a \in ApicRecord /\ a.count = world.apic.count /\ a.left = world.apic.left
      BY <1>1, <3>1 DEF ApicRecord
    <3>3. w.apic = a
      BY <2>2
    <3> HIDE DEF a, w
    <3> QED BY <1>1, <3>2, <3>3 DEF Punctual, Counting
  <2>4. Instruction(w, cpu) /\ Shortened(cpu, cpu)
    BY <1>3, <2>1 DEF Instruction
  <2> HIDE DEF w
  <2> QED BY <1>6, <2>2, <2>3, <2>4
<1>11. CASE WritePowerManagement
  <2>1. PICK e \in BOOLEAN : Instruction([world EXCEPT !.acpi.enabled = e], cpu)
    BY <1>11 DEF WritePowerManagement
  <2> DEFINE w == [world EXCEPT !.acpi.enabled = e]
  <2>2. /\ DOMAIN w = Parts /\ w.apic = world.apic
        /\ \A g \in {"pit", "unseen", "fresh", "owed", "phase", "elapsed"} : w[g] = world[g]
    BY <1>1 DEF Parts
  <2>3. Instruction(w, cpu) /\ Shortened(cpu, cpu)
    BY <1>3, <2>1 DEF Instruction
  <2> HIDE DEF w
  <2> QED BY <1>6, <2>2, <2>3
<1>12. CASE Hlt \/ Sti \/ LoadStackSegment
  BY <1>12 DEF Hlt, Sti, LoadStackSegment, Steady
<1>13. CASE Cli \/ Popf
  <2> DEFINE f == ~cpu.if
  <2>1. f \in BOOLEAN /\ FALSE \in BOOLEAN
    OBVIOUS
  <2>2. Instruction(world, [cpu EXCEPT !.if = FALSE]) \/ Instruction(world, LoopExit([cpu EXCEPT !.if = f]))
    BY <1>13 DEF Cli, Popf
  <2> HIDE DEF f
  <2>3. PICK c : Instruction(world, c) /\ Shortened(c, cpu)
    BY <1>1, <1>2, <2>1, <2>2 DEF Instruction
  <2> QED BY <1>1, <1>6, <2>3
<1>14. CASE ReturnFromHandler
  <2> DEFINE w == IF cpu.handling = "rtc"
                  THEN [world EXCEPT !.rtc.flags = {}, !.pins = @ \ {"rtc"}, !.pending = @ \ {"rtc"}]
                  ELSE world
             c == LoopExit([cpu EXCEPT !.if = TRUE, !.handling = "none"])
  <2>1. Instruction(w, c)
    BY <1>14 DEF ReturnFromHandler
  <2>2. /\ DOMAIN w = Parts /\ w.apic = world.apic
        /\ \A g \in {"pit", "unseen", "fresh", "owed", "phase", "elapsed"} : w[g] = world[g]
    BY <1>1 DEF Parts
  <2>3. Shortened(c, cpu)
    BY <1>1, <1>2, <2>1 DEF Instruction
  <2> HIDE DEF w, c
  <2> QED BY <1>6, <2>1, <2>2, <2>3
<1> QED BY <1>4, <1>5, <1>7, <1>8, <1>9, <1>10, <1>11, <1>12, <1>13, <1>14 DEF Guest

LEMMA ComputeTicks ==
  ASSUME IInv, TicksInv, Compute
  PROVE  TicksInv'
<1>1. PICK n \in 1 .. cpu.toRun : cpu' = Executed(cpu, n) /\ world' = Aged(world, n)
  BY DEF Compute
<1>2. cpu.at = "in" /\ use' = use /\ cpu \in CpuRecord /\ cpu.toRun # 0
  BY InLoop DEF Compute, IInv, Clocked
<1>3. PitStands(world) /\ world.apic \in ApicRecord
  BY InLoop, Shape, Sizes DEF PitStands, WorldFits, WorldRecord
<1>4. CASE Steady
  <2>1. TicksFit(cpu, world)
    BY <1>4 DEF TicksInv
  <2> QED BY <1>1, <1>2, <1>3, <1>4, <2>1, InstructionTicks
<1>5. CASE ~Steady
  BY <1>2, <1>5, TicksStay
<1> QED BY <1>4, <1>5

LEMMA WaitForPit ==
  ASSUME NEW w, WorldFits(w)
  PROVE  LeastWait(w) <= PitWait(w.pit)
<1> DEFINE r == RtcWait(w.rtc)
           p == PitWait(w.pit)
           a == ApicWait(w.apic)
           c == AcpiWait(w.acpi)
<1>1. /\ w.pit \in PitRecord /\ w.rtc \in RtcRecord /\ w.apic \in ApicRecord
      /\ w.acpi \in AcpiRecord
  BY DEF WorldFits, WorldRecord
<1>2. r \in Int /\ p \in Nat /\ c \in Nat /\ a \in Nat
  BY <1>1, RtcWaits, PitWaits, AcpiWaits, ApicWaits DEF WorldFits
<1> HIDE DEF r, p, a, c
<1>3. \E m \in {r, p, a, c} : \A n \in {r, p, a, c} : m <= n
  BY <1>2
<1>4. Least({r, p, a, c}) <= p
  BY <1>3, LeastIs
<1> QED BY <1>4 DEF LeastWait, r, p, a, c

LEMMA StartTicks ==
  ASSUME IInv, TicksInv, StartSlice
  PROVE  TicksInv'
<1> SUFFICES ASSUME Steady PROVE TicksFit(cpu', world')
  BY TicksStay DEF StartSlice
<1> DEFINE w == Polled(world)
           n == Slice(cpu, world)
<1>1. /\ cpu.at = "poll" /\ world' = [w EXCEPT !.elapsed = 0]
      /\ cpu' = [cpu EXCEPT !.at = "top", !.slice = n, !.cycles = 0, !.refill = 0,
                            !.toRun = n, !.offset = n]
      /\ WorldFits(world) /\ cpu \in CpuRecord /\ MaxSlice \in Nat
      /\ world.apic \in ApicRecord /\ world.pit \in PitRecord
  BY InLoop, Sizes DEF StartSlice
<1>2. /\ Unguarded(cpu, world.elapsed) /\ Punctual(world.apic, world.elapsed)
      /\ PitFits(cpu, world) /\ world.elapsed \in Int
  BY <1>1 DEF TicksInv, TicksFit, WorldFits, WorldRecord
<1>3. n \in Nat /\ n <= MaxSlice /\ n <= PitWait(world.pit)
  <2>1. LeastWait(world) \in Nat /\ LeastWait(world) <= PitWait(world.pit) /\ PitWait(world.pit) \in Nat
    BY <1>1, WaitFits, WaitForPit, PitWaits, Sizes DEF WorldFits
  <2> QED BY <1>1, <1>2, <2>1 DEF Slice, Min2, Unguarded
<1>4. WorldFits(w) /\ w.apic = ApicPolled(world.apic)
  BY <1>1, PollFits
<1> HIDE DEF n
<1>5. /\ cpu'.at = "top" /\ cpu'.slice = n /\ cpu'.toRun = n /\ cpu'.refill = 0
      /\ cpu'.halted = cpu.halted /\ cpu'.blocked = cpu.blocked
  BY <1>1 DEF CpuRecord
<1>6. PitFits(cpu', world')
  BY <1>1, <1>2, <1>3, <1>5, PolledTicks DEF Unguarded
<1> HIDE DEF w
<1>7. world'.apic = w.apic /\ world'.elapsed = 0
  BY <1>1, <1>4 DEF WorldFits, WorldRecord
<1>8. Punctual(world'.apic, 0)
  BY <1>1, <1>2, <1>4, <1>7, PolledApic DEF Unguarded
<1>9. Unguarded(cpu', 0)
  BY <1>1, <1>2, <1>3, <1>5 DEF Unguarded
<1> QED BY <1>6, <1>7, <1>8, <1>9 DEF TicksFit

\* The top of the loop, and a slice that ends.
LEMMA LoopTicks ==
  ASSUME IInv, TicksInv, EnterLoop \/ TakeInterrupt \/ EndSlice
  PROVE  TicksInv'
<1> SUFFICES ASSUME Steady PROVE TicksFit(cpu', world')
  BY TicksStay DEF EnterLoop, TakeInterrupt, EndSlice
<1>1. /\ world \in WorldRecord /\ cpu \in CpuRecord /\ world.elapsed \in Int
      /\ world.pit \in PitRecord /\ world.apic \in ApicRecord
      /\ cpu.slice \in Nat /\ cpu.toRun \in Nat /\ cpu.refill \in Nat
  BY InLoop, Sizes DEF CpuRecord
<1>2. /\ Unguarded(cpu, world.elapsed) /\ Punctual(world.apic, world.elapsed)
      /\ PitFits(cpu, world)
  BY DEF TicksInv, TicksFit
<1>3. ~cpu.halted /\ ~cpu.blocked /\ world.elapsed >= 0
  BY <1>2 DEF Unguarded
<1>4. /\ \A f \in {"pit", "apic", "unseen", "fresh", "owed", "phase", "elapsed"} :
           world'[f] = world[f]
      /\ ~cpu'.halted /\ ~cpu'.blocked
      /\ \/ cpu.at = "top" /\ cpu'.at = "lost" /\ cpu'.slice = cpu.slice
         \/ /\ cpu.at = "top" /\ cpu'.at = "in" /\ cpu'.slice = cpu.slice
            /\ cpu'.toRun = cpu.toRun /\ cpu'.refill = cpu.refill
         \/ cpu.at = "done" /\ cpu'.at = "poll" /\ cpu'.slice = 0
  <2>1. CASE EnterLoop
    BY <1>1, <1>3, <2>1 DEF EnterLoop, Entered, CpuRecord
  <2>2. CASE TakeInterrupt
    <3>1. PICK d \in world.pending :
            /\ world' = [world EXCEPT !.pending = @ \ {d}]
            /\ cpu' = Entered([cpu EXCEPT !.if = FALSE, !.halted = FALSE, !.handling = d])
      BY <2>2 DEF TakeInterrupt
    <3> DEFINE c == [cpu EXCEPT !.if = FALSE, !.halted = FALSE, !.handling = d]
    <3>2. cpu.at = "top" /\ cpu' = Entered(c)
      BY <2>2, <3>1 DEF TakeInterrupt
    <3>3. /\ ~c.halted /\ ~c.blocked /\ c.at = "top" /\ c.slice = cpu.slice
          /\ c.toRun = cpu.toRun /\ c.refill = cpu.refill /\ DOMAIN c = DOMAIN cpu
          /\ {"at", "halted", "blocked", "slice", "toRun", "refill"} \subseteq DOMAIN c
      BY <1>1, <1>3, <3>2 DEF CpuRecord
    <3> HIDE DEF c
    <3>4. \A f \in {"pit", "apic", "unseen", "fresh", "owed", "phase", "elapsed"} :
             world'[f] = world[f]
      BY <1>1, <3>1 DEF WorldRecord
    <3> QED BY <3>2, <3>3, <3>4 DEF Entered
  <2>3. CASE EndSlice
    BY <1>1, <1>3, <2>3 DEF EndSlice, CpuRecord
  <2> QED BY <2>1, <2>2, <2>3
<1>5. Unguarded(cpu', world'.elapsed)
  BY <1>1, <1>2, <1>4 , Sizes DEF Unguarded
<1>6. Punctual(world'.apic, world'.elapsed)
  BY <1>2, <1>4
<1>7. PitFits(cpu', world')
  <2>1. cpu'.at = "lost" \/ (/\ cpu.at # "lost" /\ Horizon(cpu', world') <= Horizon(cpu, world)
                             /\ Horizon(cpu, world) \in Nat /\ Horizon(cpu', world') \in Nat)
    BY <1>1, <1>2, <1>4 DEF Horizon, Unguarded
  <2> QED BY <1>1, <1>2, <1>4, <2>1, PitStays
<1> QED BY <1>5, <1>6, <1>7 DEF TicksFit

LEMMA RunOnTicks ==
  ASSUME IInv, TicksInv, RunOn
  PROVE  TicksInv'
<1> SUFFICES ASSUME Steady PROVE TicksFit(cpu', world')
  BY TicksStay DEF RunOn
<1> DEFINE x == Aged(world, 1)
<1>1. /\ cpu.at = "lost" /\ cpu' = cpu /\ DOMAIN world = Parts /\ PitStands(world)
      /\ world' = [x EXCEPT !.elapsed = world.elapsed, !.rtc = world.rtc, !.apic = world.apic]
      /\ DOMAIN x = Parts
  BY InLoop, Shape, Sizes DEF RunOn, PitStands, WorldFits, WorldRecord, Aged, Parts
<1>2. TicksFit(cpu, world)
  BY DEF TicksInv
<1>3. PitFits(cpu, x)
  BY <1>1, <1>2, AgedTicks DEF TicksFit
<1> HIDE DEF x
<1>4. /\ world'.elapsed = world.elapsed /\ world'.apic = world.apic
      /\ \A f \in {"pit", "unseen", "fresh", "owed", "phase"} : world'[f] = x[f]
  BY <1>1 DEF Parts
<1>5. PitFits(cpu, world')
  BY <1>1, <1>3, <1>4 DEF PitFits, InPhase, Length
<1> QED BY <1>1, <1>2, <1>4, <1>5 DEF TicksFit

LEMMA InitialTicks ==
  ASSUME Init
  PROVE  TicksInv
<1>1. /\ ~world.pit.running /\ world.apic.count = 0 /\ world.elapsed = 0
      /\ cpu.at = "poll" /\ ~cpu.halted /\ ~cpu.blocked /\ cpu.slice = 0
  BY DEF Init
<1> QED BY <1>1, Sizes DEF TicksInv, TicksFit, Unguarded, Punctual, Counting, PitFits

\* While the CPU does not halt, the PIT's interrupts are one ahead of its periods to one
\* behind, and no APIC timer is late by more than a slice: for clocks, counts and slices of
\* any size, whatever else the guest does.
THEOREM TicksCounted == Spec => []TicksKept
<1>1. Init => IInv /\ TicksInv
  BY Initially, InitialTicks
<1>2. IInv /\ TicksInv /\ [Next]_vars => (IInv /\ TicksInv)'
  <2> SUFFICES ASSUME IInv, TicksInv, [Next]_vars PROVE TicksInv'
    BY Inductive
  <2>1. CASE Emulator
    BY <2>1, StartTicks, LoopTicks, RunOnTicks DEF Emulator
  <2>2. CASE Compute
    BY <2>2, ComputeTicks
  <2>3. CASE Guest
    BY <2>3, GuestTicks
  <2>4. CASE UNCHANGED vars
    BY <2>4, TicksStay DEF vars, TicksInv
  <2> QED BY <2>1, <2>2, <2>3, <2>4 DEF Next
<1>3. IInv /\ TicksInv => TicksKept
  <2> SUFFICES ASSUME IInv, TicksInv, Steady PROVE TicksKept
    BY DEF TicksKept
  <2>1. /\ Unguarded(cpu, world.elapsed) /\ Punctual(world.apic, world.elapsed)
        /\ PitFits(cpu, world) /\ world.elapsed \in Int /\ world.owed \in Int
        /\ world.apic \in ApicRecord /\ MaxSlice \in Nat
    BY InLoop, Sizes DEF TicksInv, TicksFit, WorldRecord
  <2>2. Counting(world.apic) /\ world.apic.count >= MaxSlice => world.apic.left >= -MaxSlice
    BY <2>1 DEF Punctual, Unguarded, ApicRecord
  <2>3. Balanced(world) /\ ~world.fresh /\ cpu.at # "lost" /\ Wide % world.pit.count = 0 =>
           world.owed \in -1 .. 1
    BY <2>1 DEF Balanced, PitFits, Polls, Within
  <2> QED BY <2>2, <2>3 DEF TicksKept
<1> QED BY <1>1, <1>2, <1>3, PTL DEF Spec
=============================================================================
