------------------------------ MODULE MCParts ------------------------------
(***************************************************************************)
(* Instances of Decode, Kbd and Fdc for TLC: a behaviour is one of the     *)
(* decoder, of the keyboard controller or of the floppy controller.  The   *)
(* three share nothing.                                                    *)
(***************************************************************************)
EXTENDS Decode, Kbd, Fdc

VARIABLE part    \* "decoder", "keyboard" or "floppy"

Op(mod, rm, base5) == [mod |-> mod, rm |-> rm, base5 |-> base5]

\* A ModR/M byte of each form.
MCOperands ==
  {Op(3, 0, FALSE), Op(0, 0, FALSE), Op(0, 4, FALSE), Op(0, 4, TRUE), Op(0, 5, FALSE),
   Op(0, 6, FALSE), Op(1, 1, FALSE), Op(2, 4, FALSE)}

After(prefix, n) == <<prefix>> \o [k \in 1 .. n |-> "seg"]

\* No prefix, one, all of them, more than an instruction may have, and as many as
\* it may have after one that makes it longer or shorter.
MCPrefixLists ==
  {<<>>, <<"66">>, <<"67">>, <<"seg", "lock">>, <<"66", "67", "seg", "lock", "rep">>,
   <<"seg", "66", "67", "66">>, [k \in 1 .. 9 |-> "seg"], [k \in 1 .. 14 |-> "rep"],
   After("67", 13), After("66", 5)}

\* In the page's last bytes, and before them.
MCRooms == {1, 2, 3, 5, 7, 10, 12, 15, 16, 17, 20}

\* A working system: both interrupts are enabled, the mouse reports.
BaseKbd == [host |-> {}, commands |-> {}, polls |-> FALSE, tidy |-> TRUE, events |-> 6]
Working == [BaseKbd EXCEPT !.host = {"key", "move", "click"}, !.events = 9,
                           !.commands = {"ram", "mouse", "data", "report"}]

\* Drivers that look for the devices and set them up, with keys and moves.
Setup == [BaseKbd EXCEPT !.host = {"key"}, !.polls = TRUE,
                         !.commands = {"query", "enable", "ram", "gate", "outKbd", "outAux", "data"}
                                      \cup KeyboardCommands]
MouseSetup == [BaseKbd EXCEPT !.host = {"move", "click"}, !.polls = TRUE,
                              !.commands = {"mouse", "data"} \cup MouseCommands]

\* Commands while bytes wait.
Hasty == [BaseKbd EXCEPT !.host = {"key", "click"}, !.tidy = FALSE,
                         !.commands = {"ram", "data", "enable", "defaults", "resetKbd"}]

MCKbdUses == {Working, Setup, MouseSetup, Hasty}

Job(op, d, first, n) ==
  [op |-> op, drive |-> d, first |-> first, count |-> n, bad |-> FALSE]

\* A driver that waits for IRQ 6 and writes the digital output register first.
BaseFdc == [jobs |-> {}, runs |-> 3, polls |-> FALSE, dor |-> TRUE, late |-> FALSE,
            resets |-> FALSE, reselects |-> FALSE]

\* Both drives; sectors of one block and of two; the channel ready late.
Copying == [BaseFdc EXCEPT !.late = TRUE,
  !.jobs = {Job("read", 0, 2, 2), Job("write", 0, 3, 1), Job("write", 0, 2, 2),
            Job("read", 1, 1, 1), Job("write", 1, 0, 1)}]

\* Tracks whose blocks are loaded, one of them, and none.
Formatting == [BaseFdc EXCEPT !.polls = TRUE,
  !.jobs = {Job("read", 0, 0, 1), Job("read", 0, 3, 1), Job("format", 0, 0, 2),
            Job("format", 0, 2, 2)}]

\* Every command, and those that are refused.
Odd == [BaseFdc EXCEPT
  !.jobs = {Job("read", 0, 2, 1), Job("calibrate", 0, 0, 1), Job("sense", 0, 0, 1),
            Job("version", 0, 0, 1), Job("configure", 0, 0, 1), Job("write", 1, 0, 1),
            [Job("read", 0, 0, 1) EXCEPT !.bad = TRUE],
            [Job("format", 0, 0, 2) EXCEPT !.bad = TRUE]}]

\* A driver that leaves the digital output register alone.
Quiet == [BaseFdc EXCEPT !.dor = FALSE,
  !.jobs = {Job("read", 0, 2, 1), Job("sense", 0, 0, 1)}]

\* Resets, and motors, before, during and after a transfer.
Resetting == [BaseFdc EXCEPT !.resets = TRUE, !.late = TRUE,
  !.jobs = {Job("read", 0, 2, 2), Job("write", 0, 2, 1)}]
Selecting == [Resetting EXCEPT !.resets = FALSE, !.reselects = TRUE, !.runs = 2]

MCFdcUses == {Copying, Formatting, Odd, Quiet, Resetting, Selecting}

\* A part that is not looked at stays in a state of its own.
DecoderIdle ==
  /\ code16 = FALSE /\ phase = "idle" /\ left = 0 /\ count = 0 /\ fetched = FALSE
  /\ insn = None /\ segPrefix = FALSE /\ badLocks = FALSE /\ cached = FALSE

KeyboardIdle == kuse = Working /\ KbdInit

FloppyIdle == fuse = Quiet /\ FdcInit

PartInit ==
  \/ part = "decoder" /\ Init /\ KeyboardIdle /\ FloppyIdle
  \/ part = "keyboard" /\ KbdInit /\ DecoderIdle /\ FloppyIdle
  \/ part = "floppy" /\ FdcInit /\ DecoderIdle /\ KeyboardIdle

PartNext ==
  \/ part = "decoder" /\ Next /\ UNCHANGED <<part, kbdVars, fdcVars>>
  \/ part = "keyboard" /\ KbdNext /\ UNCHANGED <<part, vars, fdcVars>>
  \/ part = "floppy" /\ FdcNext /\ UNCHANGED <<part, vars, kbdVars>>

\* In the other parts every action of the floppy controller is disabled.
PartSpec == PartInit /\ [][PartNext]_<<part, vars, kbdVars, fdcVars>> /\ FdcFairness

-----------------------------------------------------------------------------
\* The types of each; where it is not looked at it rests in an initial state.
TypesOK == TypeOK /\ KbdTypeOK /\ FdcTypeOK
=============================================================================
