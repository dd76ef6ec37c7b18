-------------------------------- MODULE Apic --------------------------------
(***************************************************************************)
(* The I/O APIC (src/hardware/ioapic.c), the local APIC                    *)
(* (src/hardware/apic.c) and the CPU's INTR line, which they share with    *)
(* the 8259 pair.  Of the 8259s only their use of that line is kept: see   *)
(* Pic for the rest.  The 256-bit registers irr, isr and tmr are sets of   *)
(* vectors.  Left out: the error registers, processor_priority (stored,    *)
(* never read), the timer's counter, and the delivery modes NMI, SMI, INIT *)
(* (a fatal error in the code) and ExtINT.                                 *)
(***************************************************************************)
EXTENDS Integers, FiniteSets

CONSTANTS
    Lines,      \* ISA interrupt lines devices drive
    Vectors,    \* vectors the guest programs
    LevelVectors,   \* those it keeps for level-triggered interrupts
    Priorities, \* values the guest writes to the task priority register
    Uses        \* ways the machine is used, one for a behaviour: see Use

AllCommands == {"redirect", "mask", "clearirr", "tpr", "ipi", "ppr", "registers",
                "share", "pic", "icw1", "reset"}

\* commands: what guest and devices do beyond raising lines and ending
\* interrupts.  levels: the pins the guest programs as level-triggered.
\* maxRaises: bound on assertions, messages and 8259 signals.
Use == [commands : SUBSET AllCommands, levels : SUBSET Nat, maxRaises : Nat]

ASSUME ApicAssumption ==
    /\ Lines \subseteq 0 .. 23
    /\ Vectors \subseteq 16 .. 255
    /\ LevelVectors \subseteq Vectors
    /\ Priorities \subseteq Nat
    /\ \A u \in Uses : u \in Use

VARIABLES
    ioapic,     \* pin_state, irr and the low words of redtbl
    apic,       \* irr, isr, tmr, task_priority and intr_line_state
    pic,        \* the 8259s have signalled a request that is still there
    intr,       \* cpu.intr_line_state
    aborted,    \* APIC_FATAL was reached
    use, raises

vars == <<ioapic, apic, pic, intr, aborted, use, raises>>

\* IRQ0 is redirected to pin 2
PinOf(line) == IF line = 0 THEN 2 ELSE line
Pins == {PinOf(line) : line \in Lines}

Entry == [vector : Vectors \cup {0}, level : BOOLEAN, masked : BOOLEAN, rirr : BOOLEAN]
ResetEntry == [vector |-> 0, level |-> FALSE, masked |-> TRUE, rirr |-> FALSE]

IoApic == [pin : SUBSET Pins, irr : SUBSET Pins, redtbl : [Pins -> Entry]]
LocalApic == [irr : SUBSET (Vectors \cup {0}), isr : SUBSET (Vectors \cup {0}),
              tmr : SUBSET (Vectors \cup {0}), tpr : 0 .. 255, line : BOOLEAN]

-----------------------------------------------------------------------------
(* The local APIC.                                                          *)

Class(v) == v \div 16
Highest(S) == CHOOSE v \in S : \A w \in S : w <= v

\* the test of apic_send_highest_priority_interrupt(): the highest request beats
\* everything in service and the task priority
Deliverable(a) ==
    \E v \in a.irr : (\A w \in a.isr : w < v) /\ Class(v) > Class(a.tpr)

\* apic_send_highest_priority_interrupt(), as the end of a handler that leaves a:
\* INTR is raised unless this APIC has signalled already
Send(a) ==
    /\ apic' = [a EXCEPT !.line = @ \/ Deliverable(a)]
    /\ intr' = (intr \/ (~a.line /\ Deliverable(a)))

\* mutant: the APIC goes on believing that its signal is up
InServiceStillSignalled(a) ==
    [a EXCEPT !.irr = @ \ {Highest(a.irr)}, !.isr = @ \cup {Highest(a.irr)}]

\* apic_get_interrupt()
InService(a) ==
    [a EXCEPT !.irr = @ \ {Highest(a.irr)}, !.isr = @ \cup {Highest(a.irr)}, !.line = FALSE]

\* mutant: the trigger mode of a message is not recorded
ReceivedAsEdge(a, vs, levels) == [a EXCEPT !.irr = @ \cup vs, !.tmr = @ \ vs]

\* apic_receive_bus_message() for a set of messages: one already requested is dropped
Received(a, vs, levels) ==
    [a EXCEPT !.irr = @ \cup vs,
              !.tmr = (@ \ (vs \ a.irr)) \cup (levels \ a.irr)]

\* dropped messages end the call early
Receive(vs, levels) ==
    IF vs \subseteq apic.irr THEN UNCHANGED <<apic, intr>>
    ELSE Send(Received(apic, vs, levels))

-----------------------------------------------------------------------------
(* The I/O APIC.                                                            *)

\* ioapic_update(): an edge request is consumed by sending it, a level request
\* stays and is sent again by every update
Sendable(io) == {p \in io.irr : ~io.redtbl[p].masked}

IoUpdate(io) ==
    LET sent   == Sendable(io)
        levels == {p \in sent : io.redtbl[p].level}
        \* of two pins with one vector the lower is sent first and sets the mode
        first(p) == \A q \in sent : io.redtbl[q].vector = io.redtbl[p].vector => p <= q
    IN /\ ioapic' = [io EXCEPT !.irr = @ \ (sent \ levels)]
       /\ Receive({io.redtbl[p].vector : p \in sent},
                  {io.redtbl[p].vector : p \in {q \in levels : first(q)}})

Asserted(io, p) == [io EXCEPT !.pin = @ \cup {p}, !.irr = @ \cup {p}]

CountRaise == raises < use.maxRaises /\ raises' = raises + 1 /\ UNCHANGED use

Running == ~aborted

\* a vector serves interrupts of one trigger mode, unless the guest shares them
ModeFits(v, level) == "share" \in use.commands \/ (v \in LevelVectors <=> level)

RaiseIrq(line) ==
    LET p == PinOf(line) IN
    /\ Running
    /\ CountRaise
    /\ UNCHANGED <<pic, aborted>>
    /\ \/ /\ ioapic.redtbl[p].level
          /\ ioapic.redtbl[p].rirr      \* "discarding interrupt"
          /\ UNCHANGED <<ioapic, apic, intr>>
       \/ /\ ioapic.redtbl[p].level
          /\ ~ioapic.redtbl[p].rirr
          /\ IoUpdate([Asserted(ioapic, p) EXCEPT !.redtbl[p].rirr = TRUE])
       \/ /\ ~ioapic.redtbl[p].level
          /\ p \in ioapic.pin
          /\ UNCHANGED <<ioapic, apic, intr>>
       \/ /\ ~ioapic.redtbl[p].level
          /\ p \notin ioapic.pin
          /\ IoUpdate(Asserted(ioapic, p))

LowerIrq(line) ==
    LET p == PinOf(line) IN
    /\ Running
    /\ ioapic' = [ioapic EXCEPT !.pin = @ \ {p},
                                !.irr = IF ioapic.redtbl[p].level THEN @ \ {p} ELSE @]
    /\ UNCHANGED <<apic, pic, intr, aborted, use, raises>>

\* ioapic_remote_eoi()
RemoteEoi(io, v) ==
    [io EXCEPT !.redtbl = [p \in Pins |->
        IF @[p].vector = v THEN [@[p] EXCEPT !.rirr = FALSE] ELSE @[p]]]

\* A write to a redirection entry that changes it, in the low word or the high
\* word (which is not kept): the remote IRR bit is written like the others, the
\* guest writes it as it read it or as zero.
WriteRedirection(p, v, masked) ==
    LET old == ioapic.redtbl[p]
        new == [vector |-> v, level |-> p \in use.levels, masked |-> masked, rirr |-> old.rirr]
    IN /\ Running
       /\ ModeFits(v, p \in use.levels)
       /\ old.vector # 0 =>
             IF v = old.vector THEN "mask" \in use.commands ELSE "redirect" \in use.commands
       /\ \/ IoUpdate([ioapic EXCEPT !.redtbl[p] = new])
          \/ /\ "clearirr" \in use.commands
             /\ IoUpdate([ioapic EXCEPT !.redtbl[p] = [new EXCEPT !.rirr = FALSE]])
       /\ UNCHANGED <<pic, aborted, use, raises>>

-----------------------------------------------------------------------------
(* The guest and the local APIC.                                            *)

\* An interprocessor interrupt to itself, or the timer's message
LocalMessage(v, level) ==
    /\ Running
    /\ "ipi" \in use.commands
    /\ ModeFits(v, level)
    /\ CountRaise
    /\ Receive({v}, IF level THEN {v} ELSE {})
    /\ UNCHANGED <<ioapic, pic, aborted>>

WriteTaskPriority(t) ==
    /\ Running
    /\ "tpr" \in use.commands
    /\ Send([apic EXCEPT !.tpr = t % 256])
    /\ UNCHANGED <<ioapic, pic, aborted, use, raises>>

\* mutant: the end of an interrupt does not look for the next one
WriteEoiQuiet ==
    /\ Running
    /\ apic.isr # {}
    /\ LET v == Highest(apic.isr) IN
       /\ ioapic' = IF v \in apic.tmr THEN RemoteEoi(ioapic, v) ELSE ioapic
       /\ apic' = [apic EXCEPT !.isr = @ \ {v}]
    /\ UNCHANGED <<pic, intr, aborted, use, raises>>

WriteEoi ==
    /\ Running
    /\ apic.isr # {}
    /\ LET v == Highest(apic.isr) IN
       /\ ioapic' = IF v \in apic.tmr THEN RemoteEoi(ioapic, v) ELSE ioapic
       /\ Send([apic EXCEPT !.isr = @ \ {v}])
    /\ UNCHANGED <<pic, aborted, use, raises>>

\* Reading the processor priority calls apic_get_interrupt() for its value: with a
\* request it goes into service and INTR is lowered, without one the program ends.
ReadProcessorPriority ==
    /\ Running
    /\ "ppr" \in use.commands
    /\ IF apic.irr = {}
       THEN aborted' = TRUE /\ UNCHANGED <<apic, intr>>
       ELSE apic' = InService(apic) /\ intr' = FALSE /\ UNCHANGED aborted
    /\ UNCHANGED <<ioapic, pic, use, raises>>

\* irr, isr and tmr accept writes, which signal nothing
WriteRegisters(vs) ==
    /\ Running
    /\ "registers" \in use.commands
    /\ \E field \in {"irr", "isr", "tmr"} : apic' = [apic EXCEPT ![field] = vs]
    /\ UNCHANGED <<ioapic, pic, intr, aborted, use, raises>>

\* ioapic_reset(); apic_reset() touches nothing of this state
Reset ==
    /\ Running
    /\ "reset" \in use.commands
    /\ ioapic' = [ioapic EXCEPT !.redtbl = [p \in Pins |-> ResetEntry]]
    /\ UNCHANGED <<apic, pic, intr, aborted, use, raises>>

-----------------------------------------------------------------------------
(* The 8259s on the same line, and the CPU.                                 *)

PicSignals ==
    /\ Running
    /\ "pic" \in use.commands
    /\ CountRaise
    /\ pic' = TRUE
    /\ intr' = TRUE
    /\ UNCHANGED <<ioapic, apic, aborted>>

PicIcw1 ==
    /\ Running
    /\ "icw1" \in use.commands
    /\ pic' = FALSE
    /\ intr' = FALSE
    /\ UNCHANGED <<ioapic, apic, aborted, use, raises>>

\* pic_get_interrupt(), called by cpu_run(): the APIC's interrupt comes first
GetInterrupt ==
    /\ Running
    /\ intr
    /\ \/ /\ apic.line
          /\ IF apic.irr = {}
             THEN aborted' = TRUE /\ UNCHANGED <<apic, intr>>
             ELSE apic' = InService(apic) /\ intr' = FALSE /\ UNCHANGED aborted
          /\ UNCHANGED pic
       \/ /\ ~apic.line
          /\ pic' = FALSE
          /\ intr' = FALSE
          /\ UNCHANGED <<apic, aborted>>
    /\ UNCHANGED <<ioapic, use, raises>>

-----------------------------------------------------------------------------
Init ==
    /\ use \in Uses
    /\ ioapic = [pin |-> {}, irr |-> {}, redtbl |-> [p \in Pins |-> ResetEntry]]
    /\ apic = [irr |-> {}, isr |-> {}, tmr |-> {}, tpr |-> 0, line |-> FALSE]
    /\ pic = FALSE
    /\ intr = FALSE
    /\ aborted = FALSE
    /\ raises = 0

Next ==
    \/ \E line \in Lines : RaiseIrq(line) \/ LowerIrq(line)
    \/ \E p \in Pins, v \in Vectors, masked \in BOOLEAN : WriteRedirection(p, v, masked)
    \/ \E v \in Vectors, level \in BOOLEAN : LocalMessage(v, level)
    \/ \E t \in Priorities : WriteTaskPriority(t)
    \/ WriteEoi
    \/ ReadProcessorPriority
    \/ \E vs \in SUBSET Vectors : WriteRegisters(vs)
    \/ Reset
    \/ PicSignals
    \/ PicIcw1
    \/ GetInterrupt

Spec == Init /\ [][Next]_vars

\* The CPU takes interrupts when INTR stays up, and its handlers end with an EOI.
FairSpec == Spec /\ WF_vars(GetInterrupt) /\ WF_vars(WriteEoi)

-----------------------------------------------------------------------------
(* Properties.                                                              *)

TypeOK ==
    /\ ioapic \in IoApic
    /\ apic \in LocalApic
    /\ pic \in BOOLEAN /\ intr \in BOOLEAN /\ aborted \in BOOLEAN
    /\ use \in Uses
    /\ raises \in Nat

Without(commands) == use.commands \cap commands = {}

\* A request the local APIC may deliver has been signalled, and the signal is still
\* on the CPU's line, although the local APIC signals once and never looks again
\* at a line that the 8259s raise and lower too.
NoLostInterrupt ==
    /\ Without({"registers"}) /\ Deliverable(apic) => apic.line
    /\ Without({"icw1"}) /\ apic.line => intr

\* apic_get_interrupt() does not check what it takes ("TODO: check PPR"): still, when
\* it is called for a signalled interrupt there is a request, and one above
\* everything in service, so no vector is nested in itself and nothing aborts.
TakenOutranks ==
    Without({"registers"}) =>
        /\ apic.line => \E v \in apic.irr : \A w \in apic.isr : w < v
        /\ Without({"ppr"}) => ~aborted

\* The remote IRR bit of an unmasked level-triggered pin is set only while its
\* vector is on its way or in service: otherwise no end of interrupt would clear
\* it and ioapic_raise_irq() would discard every later interrupt of the pin.
LevelInFlight ==
    Without({"mask", "redirect", "registers", "share"}) =>
        \A p \in Pins :
            LET e == ioapic.redtbl[p] IN
            e.level /\ e.rirr /\ ~e.masked => e.vector \in apic.irr \cup apic.isr

\* An interrupt that reached the local APIC is taken by the CPU in the end.
RequestTaken ==
    use.commands \subseteq {"ipi", "clearirr"} =>
        \A v \in Vectors : v \in apic.irr ~> v \notin apic.irr

\* apic.c:185: "we simply need to kick the CPU out from its loop and wait for it to
\* acknowledge the interrupt": nothing goes into service but by the CPU taking it.
OnlyCpuAcknowledges == [][apic'.isr \subseteq apic.isr \/ GetInterrupt]_vars
=============================================================================
