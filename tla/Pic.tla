-------------------------------- MODULE Pic --------------------------------
(***************************************************************************)
(* The pair of cascaded 8259 interrupt controllers of src/hardware/pic.c   *)
(* and the CPU's INTR line they share.  A controller is a record of the    *)
(* fields of struct pic_controller; registers that hold one bit per input  *)
(* are sets of inputs.  Vectors are left out: an interrupt is identified   *)
(* by the controller and the input it came in on.  read_isr and elcr are   *)
(* left out too: they only choose what a port read returns.                *)
(***************************************************************************)
EXTENDS Integers, FiniteSets

CONSTANTS
    NumLines,       \* inputs of one controller (8 in the code)
    Cascade,        \* the master's input the slave is wired to (2 in the code)
    DeviceLines,    \* <<chip, input>> pairs that devices drive
    Masks,          \* values the guest writes to an interrupt mask register
    Uses            \* ways the machine is used, one for a behaviour: see Use

Lines == 0 .. NumLines - 1
Chips == {"master", "slave"}
AllCommands == {"ocw1", "eoi", "specific", "rotate", "setprio", "rotateaeoi",
                "special", "readselect", "autoeoi", "reset"}

\* commands: what the guest writes.  pulse: lines driven by lower-then-raise in one
\* call (PIT, KBD, FPU).  withdraw: lines a device may lower before they are
\* acknowledged.  powerOn: start at power-on, or as the BIOS leaves the pair.
\* maxRaises, maxInits: bounds on the assertions by devices and on the ICW1
\* writes to one controller.
Use == [commands : SUBSET AllCommands, pulse : SUBSET DeviceLines,
        withdraw : SUBSET DeviceLines, powerOn : BOOLEAN,
        maxRaises : Nat, maxInits : Nat]

ASSUME PicAssumption ==
    /\ NumLines \in Nat \ {0}
    /\ Cascade \in Lines
    /\ DeviceLines \subseteq (Chips \X Lines) \ {<<"master", Cascade>>}
    /\ Masks \subseteq SUBSET Lines
    /\ \A u \in Uses : u \in Use

VARIABLES
    master, slave,  \* pic.ctrl[0] and pic.ctrl[1]
    intr,           \* cpu.intr_line_state
    use,            \* the use made of them in this behaviour, fixed by Init
    raises,         \* assertions so far, for use.maxRaises
    inits           \* ICW1 writes so far to each controller, for use.maxInits

vars == <<master, slave, intr, use, raises, inits>>

-----------------------------------------------------------------------------
(* One controller.                                                          *)

\* todo: the initialization words still expected; in_initialization is todo # {}
Controller ==
    [imr : SUBSET Lines, irr : SUBSET Lines, isr : SUBSET Lines,
     pin : SUBSET Lines, hp : Lines, base : Lines,
     special : BOOLEAN, aeoi : BOOLEAN, raeoi : BOOLEAN, todo : SUBSET {2, 3, 4}]

\* rol(): the place of input i in the order of priority, 0 the highest
Rank(c, i) == (i - c.base - 1) % NumLines

Unmasked(c) == c.irr \ c.imr

\* mutant: an input in service does not shut out a request on the same input
NestedCandidateInclusive(c) ==
    {i \in Unmasked(c) : /\ \A j \in Unmasked(c) : Rank(c, i) <= Rank(c, j)
                         /\ \A j \in c.isr : Rank(c, i) <= Rank(c, j)}

\* pic_internal_update() without its special mask mode: the first requested
\* input in order of priority, unless one in service comes no later
NestedCandidate(c) ==
    {i \in Unmasked(c) : /\ \A j \in Unmasked(c) : Rank(c, i) <= Rank(c, j)
                         /\ \A j \in c.isr : Rank(c, i) < Rank(c, j)}

SpecialCandidate(c) ==
    {i \in Unmasked(c) \ c.isr :
        \A j \in Unmasked(c) \ c.isr : Rank(c, i) <= Rank(c, j)}

Candidate(c) == IF c.special THEN SpecialCandidate(c) ELSE NestedCandidate(c)

Signals(c) == Candidate(c) # {}

Latched(c) ==
    IF Signals(c) THEN [c EXCEPT !.hp = CHOOSE i \in Candidate(c) : TRUE] ELSE c

Asserted(c, i)   == [c EXCEPT !.irr = @ \cup {i}, !.pin = @ \cup {i}]
Deasserted(c, i) == [c EXCEPT !.irr = @ \ {i}, !.pin = @ \ {i}]

\* pic_internal_get_interrupt() on one controller: a latched input that is no
\* longer requested gives the spurious vector and changes nothing
Genuine(c) == c.hp \in c.irr

Acknowledged(c) ==
    IF ~Genuine(c) THEN c
    ELSE [c EXCEPT !.irr = @ \ {c.hp},
                   !.isr = IF c.aeoi THEN @ ELSE @ \cup {c.hp},
                   !.base = IF c.aeoi /\ c.raeoi THEN c.hp ELSE @]

\* pic_clear_highest_priority()
TopInService(c) == {i \in c.isr : \A j \in c.isr : Rank(c, i) <= Rank(c, j)}

Initialized(c, todo) ==
    [c EXCEPT !.imr = {}, !.irr = {}, !.isr = {}, !.base = NumLines - 1,
              !.aeoi = FALSE, !.raeoi = FALSE, !.todo = todo]

-----------------------------------------------------------------------------
(* The pair: a master that signals raises INTR, a slave that signals pulses *)
(* the master's cascade input.                                              *)

\* mutant: the check the code has commented out, wait for the signalled interrupt
UpdateMasterWhenLow(m) ==
    IF intr THEN master' = m /\ UNCHANGED intr
    ELSE master' = Latched(m) /\ intr' = Signals(m)

UpdateMaster(m) ==
    /\ master' = Latched(m)
    /\ intr' = (intr \/ Signals(m))

\* mutant: the slave raises the cascade input without lowering it first
UpdateSlaveNoPulse(s, m) ==
    /\ slave' = Latched(s)
    /\ IF Signals(s) /\ Cascade \notin m.pin
       THEN UpdateMaster(Asserted(m, Cascade))
       ELSE master' = m /\ UNCHANGED intr

\* m is the master as the calls made so far by the handler leave it
UpdateSlave(s, m) ==
    /\ slave' = Latched(s)
    /\ IF Signals(s)
       THEN UpdateMaster(Asserted(m, Cascade))
       ELSE master' = m /\ UNCHANGED intr

\* the slave lowers its output when nothing is requested of it any more
MasterBehind(s) == IF s.irr = {} THEN Deasserted(master, Cascade) ELSE master

Update(chip, c) ==
    \/ chip = "master" /\ UpdateMaster(c) /\ UNCHANGED slave
    \/ chip = "slave"  /\ UpdateSlave(c, master)

Store(chip, c) ==
    \/ chip = "master" /\ master' = c /\ UNCHANGED slave
    \/ chip = "slave"  /\ slave' = c /\ UNCHANGED master

ControllerOf(chip) == IF chip = "master" THEN master ELSE slave

-----------------------------------------------------------------------------
(* Devices.                                                                 *)

CountRaise ==
    /\ raises < use.maxRaises
    /\ raises' = raises + 1
    /\ UNCHANGED <<use, inits>>

RaiseIrq(chip, i) ==
    /\ i \notin ControllerOf(chip).pin
    /\ CountRaise
    /\ Update(chip, Asserted(ControllerOf(chip), i))

\* also called for a line that is low already
LowerIrq(chip, i) ==
    /\ i \in ControllerOf(chip).irr => <<chip, i>> \in use.withdraw
    /\ \/ /\ chip = "master"
          /\ master' = Deasserted(master, i)
          /\ UNCHANGED slave
       \/ /\ chip = "slave"
          /\ slave' = Deasserted(slave, i)
          /\ master' = MasterBehind(slave')
    /\ UNCHANGED <<intr, use, raises, inits>>

PulseIrq(chip, i) ==
    /\ <<chip, i>> \in use.pulse
    /\ CountRaise
    /\ \/ /\ chip = "master"
          /\ UpdateMaster(Asserted(master, i))
          /\ UNCHANGED slave
       \/ /\ chip = "slave"
          /\ UpdateSlave(Asserted(slave, i), MasterBehind(Deasserted(slave, i)))

-----------------------------------------------------------------------------
(* The CPU accepts the interrupt: pic_get_interrupt(), called by cpu_run(). *)

GetInterrupt ==
    /\ intr
    /\ intr' = FALSE
    /\ master' = Acknowledged(master)
    /\ slave' = IF Genuine(master) /\ master.hp = Cascade
                THEN Acknowledged(slave) ELSE slave
    /\ UNCHANGED <<use, raises, inits>>

-----------------------------------------------------------------------------
(* Guest writes to the command port and the data port.                      *)

\* ICW1, either controller: the shared INTR line goes low; the input pins, the
\* latched input and special mask mode stay.  The words that follow are ICW2,
\* ICW3 unless single, ICW4 if asked for.
WriteIcw1(chip) ==
    /\ inits[chip] < use.maxInits
    /\ inits' = [inits EXCEPT ![chip] = @ + 1]
    /\ \E single, icw4 \in BOOLEAN :
          Store(chip, Initialized(ControllerOf(chip),
                 {2} \cup (IF single THEN {} ELSE {3}) \cup (IF icw4 THEN {4} ELSE {})))
    /\ intr' = FALSE
    /\ UNCHANGED <<use, raises>>

WriteIcw(chip) ==
    LET c == ControllerOf(chip) IN
    \E word \in c.todo, aeoi \in BOOLEAN :
        /\ \A other \in c.todo : word <= other
        /\ aeoi => word = 4 /\ "autoeoi" \in use.commands
        /\ Store(chip, [c EXCEPT !.todo = @ \ {word},
                                 !.aeoi = IF word = 4 THEN aeoi ELSE @])
        /\ UNCHANGED <<intr, use, raises, inits>>

\* mutant: unmasking does not update
WriteOcw1Quiet(chip, mask) ==
    /\ "ocw1" \in use.commands
    /\ ControllerOf(chip).todo = {}
    /\ Store(chip, [ControllerOf(chip) EXCEPT !.imr = mask])
    /\ UNCHANGED <<intr, use, raises, inits>>

WriteOcw1(chip, mask) ==
    /\ "ocw1" \in use.commands
    /\ ControllerOf(chip).todo = {}
    /\ Update(chip, [ControllerOf(chip) EXCEPT !.imr = mask])
    /\ UNCHANGED <<use, raises, inits>>

\* mutant: an EOI does not update
WriteEoiQuiet(chip, level) ==
    LET c == ControllerOf(chip) IN
    \E specific, rotate \in BOOLEAN :
        /\ IF specific THEN "specific" \in use.commands ELSE "eoi" \in use.commands
        /\ rotate => "rotate" \in use.commands
        /\ Store(chip, [c EXCEPT !.isr = @ \ (IF specific THEN {level} ELSE TopInService(c)),
                                 !.base = IF rotate THEN level ELSE @])
        /\ UNCHANGED <<intr, use, raises, inits>>

\* OCW2 with the EOI bit.  The rotating forms take the new lowest priority from
\* the command's low three bits, in the non-specific form too.
WriteEoi(chip, level) ==
    LET c == ControllerOf(chip) IN
    \E specific, rotate \in BOOLEAN :
        /\ IF specific THEN "specific" \in use.commands ELSE "eoi" \in use.commands
        /\ rotate => "rotate" \in use.commands
        /\ Update(chip, [c EXCEPT !.isr = @ \ (IF specific THEN {level} ELSE TopInService(c)),
                                  !.base = IF rotate THEN level ELSE @])
        /\ UNCHANGED <<use, raises, inits>>

\* OCW2 without it: no update follows
WriteSetPriority(chip, level) ==
    /\ "setprio" \in use.commands
    /\ Store(chip, [ControllerOf(chip) EXCEPT !.base = level])
    /\ UNCHANGED <<intr, use, raises, inits>>

WriteRotateInAutoEoi(chip) ==
    /\ "rotateaeoi" \in use.commands
    /\ \E on \in BOOLEAN : Store(chip, [ControllerOf(chip) EXCEPT !.raeoi = on])
    /\ UNCHANGED <<intr, use, raises, inits>>

\* OCW3: every write replaces ocw[3], so selecting the register to read leaves
\* special mask mode
WriteOcw3(chip) ==
    /\ \E on \in BOOLEAN :
          /\ (IF on THEN "special" ELSE "readselect") \in use.commands
          /\ Store(chip, [ControllerOf(chip) EXCEPT !.special = on])
    /\ UNCHANGED <<intr, use, raises, inits>>

\* pic_reset(): INTR, the pins, the latched inputs and the modes stay
Cleared(c) == [c EXCEPT !.imr = Lines, !.irr = {}, !.isr = {}, !.todo = {}]

Reset ==
    /\ "reset" \in use.commands
    /\ master' = Cleared(master)
    /\ slave' = Cleared(slave)
    /\ UNCHANGED <<intr, use, raises, inits>>

-----------------------------------------------------------------------------
PowerOnController ==
    [imr |-> Lines, irr |-> {}, isr |-> {}, pin |-> {}, hp |-> 0, base |-> 0,
     special |-> FALSE, aeoi |-> FALSE, raeoi |-> FALSE, todo |-> {}]

BiosController(mask) ==
    [PowerOnController EXCEPT !.imr = mask, !.base = NumLines - 1]

Init ==
    /\ use \in Uses
    /\ IF use.powerOn
       THEN master = PowerOnController /\ slave = PowerOnController
       ELSE \E m, s \in Masks :
               master = BiosController(m) /\ slave = BiosController(s)
    /\ intr = FALSE
    /\ raises = 0
    /\ inits = [chip \in Chips |-> 0]

Device == \E l \in DeviceLines : \/ RaiseIrq(l[1], l[2])
                                 \/ LowerIrq(l[1], l[2])
                                 \/ PulseIrq(l[1], l[2])

Guest == \E chip \in Chips :
            \/ WriteIcw1(chip)
            \/ WriteIcw(chip)
            \/ \E mask \in Masks : WriteOcw1(chip, mask)
            \/ \E level \in Lines : WriteEoi(chip, level) \/ WriteSetPriority(chip, level)
            \/ WriteRotateInAutoEoi(chip)
            \/ WriteOcw3(chip)

Next == Device \/ GetInterrupt \/ Guest \/ Reset

Spec == Init /\ [][Next]_vars

\* The CPU takes interrupts when INTR stays up, and its handlers end with an EOI.
EndService(chip) ==
    /\ ControllerOf(chip).isr # {}
    /\ WriteEoi(chip, 0)

Fairness ==
    /\ WF_vars(GetInterrupt)
    /\ \A chip \in Chips : WF_vars(EndService(chip))

FairSpec == Spec /\ Fairness

-----------------------------------------------------------------------------
(* Properties.                                                              *)

TypeOK ==
    /\ master \in Controller
    /\ slave \in Controller
    /\ intr \in BOOLEAN
    /\ use \in Uses
    /\ raises \in Nat
    /\ inits \in [Chips -> Nat]

\* pic_get_interrupt() trusts an input latched by an earlier update: whatever the
\* guest and the devices did in between, an interrupt that is still in service is
\* never handed to the CPU a second time, on either controller.
NoReentry ==
    /\ intr => master.hp \notin master.isr
    /\ Cascade \in master.irr => slave.hp \notin slave.isr

FixedPriority == use.commands \cap {"rotate", "setprio", "special"} = {}

\* With fixed priorities a nested interrupt outranks every interrupt it nests in,
\* on the master when the CPU is signalled and on the slave when the cascade
\* input is requested, although both act on an input latched earlier.
NestingOrder ==
    FixedPriority =>
        /\ intr => \A j \in master.isr : Rank(master, master.hp) < Rank(master, j)
        /\ Cascade \in master.irr => \A j \in slave.isr : Rank(slave, slave.hp) < Rank(slave, j)

Outranking(c) ==
    {i \in Unmasked(c) : \A j \in c.isr : Rank(c, i) < Rank(c, j)}

\* Devices hold a request until it is acknowledged, and the guest uses the
\* controllers in fully nested mode and leaves them programmed.
PlainUse ==
    /\ use.withdraw = {} /\ use.maxInits = 0 /\ ~use.powerOn
    /\ use.commands \subseteq {"eoi", "specific"}

\* Under plain use no request is stranded: one that outranks everything in
\* service has been passed on, by the master to the CPU and by the slave to the
\* master, although acknowledging updates neither controller; and nothing else
\* is, so that the CPU never gets the spurious vector from either.
NoLostRequest ==
    PlainUse => /\ Outranking(master) # {} => intr
                /\ Outranking(slave) # {} => Cascade \in master.irr
                /\ intr => Genuine(master)
                /\ Cascade \in master.irr => Genuine(slave)

\* pic.c:13: "If ISR is empty and interrupt is not masked, then raise INTR line to
\* signal CPU".
EmptyIsrSignals == master.isr = {} /\ Unmasked(master) # {} => intr

\* An acknowledged request was the first in order of priority of those that could
\* have been delivered, however long before the acknowledgement it was latched.
HighestFirst ==
    [][GetInterrupt /\ FixedPriority /\ Genuine(master) /\ NestedCandidate(master) # {}
          => master.hp \in NestedCandidate(master)]_vars

\* A request the master should signal, while INTR is low.
Stranded == Signals(master) /\ ~intr

\* Whatever the use, only these steps leave a request of the master without the
\* CPU being signalled: taking an interrupt other than the one that should be
\* signalled, taking one in automatic EOI or special mask mode, ICW1 to the slave,
\* and the changes of priority and mode that the code lets no update follow.
StrandingSteps ==
    [][Stranded' => \/ Stranded
                    \/ GetInterrupt /\
                          (master.hp \notin Candidate(master) \/ master.aeoi \/ master.special)
                    \/ WriteIcw1("slave")
                    \/ \E level \in Lines : WriteSetPriority("master", level)
                    \/ WriteOcw3("master")]_vars

\* Every request the guest leaves unmasked is acknowledged in the end.
AllServed ==
    PlainUse => \A l \in DeviceLines :
        (/\ l[2] \in Unmasked(ControllerOf(l[1]))
         /\ l[1] = "slave" => Cascade \notin master.imr)
            ~> l[2] \notin ControllerOf(l[1]).irr
=============================================================================
