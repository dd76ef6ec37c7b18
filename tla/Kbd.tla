-------------------------------- MODULE Kbd --------------------------------
(***************************************************************************)
(* The keyboard controller (src/src/hardware/kbd.c): the queues of the     *)
(* keyboard and the mouse, the output buffer they share, the status bits   *)
(* that say whose byte it holds, and IRQs 1 and 12.                        *)
(*                                                                         *)
(* A byte is its device and its number; what it says does not matter.  The *)
(* guest is a driver: it gives commands, and reads the status port and     *)
(* then the data port, in an interrupt handler or by polling.  The host    *)
(* types, moves and clicks at any time.                                    *)
(***************************************************************************)
EXTENDS Naturals, Sequences

CONSTANTS QueueSize,   \* of kbd_queue.data
          KbdUses      \* what host and guest do, see KbdUse

Devs == {"kbd", "aux"}
Other(d) == IF d = "kbd" THEN "aux" ELSE "kbd"

\* host: what the user does; commands: what the guest writes; polls: the guest
\* does not wait for interrupts; tidy: it gives commands when nothing waits to
\* be read; events: how much of both there is.
KbdUse == [host : SUBSET {"key", "move", "click"}, commands : SUBSET STRING,
           polls : BOOLEAN, tidy : BOOLEAN, events : Nat]

ASSUME KbdAssumption == QueueSize \in Nat \ {0, 1} /\ KbdUses \subseteq KbdUse

VARIABLES kuse,     \* an element of KbdUses, chosen at the start
          kbd,      \* struct kbd, and what the 8259s have of its IRQs
          cpu,      \* "run", or in a "handler"
          seen,     \* what the status port said: "none", "kbd", "aux"
          taken,    \* the number of the byte read last, of each device
          events    \* what host and guest have done

kbdVars == <<kuse, kbd, cpu, seen, taken, events>>

(***************************************************************************)
(* kbd is a record: queue of each device, data and unread (the negation of *)
(* data_has_been_read), full and shown (STATUS_OFULL, STATUS_AUX), enabled *)
(* (the interrupt bits of ram[0]), current (current_interrupt_raised),     *)
(* command, mouse (mouse_command), scanning, stream; irr, the requests the *)
(* 8259s hold of it; and, not in the code, sent, the number of the byte    *)
(* sent last, lost, those of the last bytes of what was lost, and late,    *)
(* that an interrupt was enabled when the byte in the buffer had come      *)
(* already.                                                                *)
(***************************************************************************)

\* Mutant: the status is that of a device whose interrupt is enabled.
RaiseKbdIrqIf(k, d) ==
  IF d \notin k.enabled THEN [k EXCEPT !.full = TRUE]
  ELSE [k EXCEPT !.full = TRUE, !.shown = d, !.irr = @ \cup {d}, !.current = d]

\* kbd_raise_irq(): the line is lowered and raised.
RaiseKbdIrq(k, d) ==
  [k EXCEPT !.full = TRUE, !.shown = d,
            !.irr = IF d \in k.enabled THEN @ \cup {d} ELSE @,
            !.current = IF d \in k.enabled THEN d ELSE @]

\* The queues in the order of their priority.
HasItems(k) == {d \in Devs : k.queue[d] # <<>>}
FirstQueue(k) == IF "kbd" \in HasItems(k) THEN "kbd" ELSE "aux"

\* Mutant: a byte that has not been read yet is overwritten.
RefillOver(k) ==
  LET d == FirstQueue(k)
  IN IF HasItems(k) = {} THEN k
     ELSE RaiseKbdIrq([k EXCEPT !.unread = TRUE, !.data = [dev |-> d, n |-> Head(k.queue[d])],
                                !.queue[d] = Tail(@)], d)

\* Mutant: nothing is raised while a byte waits.
RefillQuiet(k) == IF k.unread THEN k ELSE RefillOver(k)

\* kbd_refill_output(): while a byte waits, the interrupt and the status are
\* those of the queue that is next.
Refill(k) ==
  LET d == FirstQueue(k)
  IN CASE HasItems(k) = {} -> k
       [] HasItems(k) # {} /\ k.unread -> RaiseKbdIrq(k, d)
       [] OTHER ->
            RaiseKbdIrq([k EXCEPT !.unread = TRUE, !.late = FALSE,
                                  !.data = [dev |-> d, n |-> Head(k.queue[d])],
                                  !.queue[d] = Tail(@)], d)

\* kbd_queue_add().  A full queue looks empty: read_pos = write_pos.
QueueAdd(k, d) ==
  LET n == k.sent[d] + 1
      wraps == Len(k.queue[d]) = QueueSize - 1
  IN [k EXCEPT !.sent[d] = n,
               !.lost[d] = IF wraps THEN @ \cup {n} ELSE @,
               !.queue[d] = IF wraps THEN <<>> ELSE Append(@, n)]

\* kbd_add().
AddByte(k, d) == Refill(QueueAdd(k, d))

AddBytes(k, d, count) ==
  LET two   == AddByte(AddByte(k, d), d)
      three == AddByte(two, d)
  IN CASE count = 1 -> AddByte(k, d)
       [] count = 2 -> two
       [] count = 3 -> three
       [] count = 4 -> AddByte(three, d)

\* kbd_reset_port(): the interrupt bits are those of the power on.
ResetPort(k, d) ==
  IF d = "kbd" THEN [k EXCEPT !.scanning = TRUE, !.enabled = {"kbd"}]
  ELSE [k EXCEPT !.stream = FALSE]

\* kbd_reset().
ResetKbd(k) ==
  ResetPort(ResetPort([k EXCEPT !.queue = [d \in Devs |-> <<>>],
                                !.lost = [d \in Devs |-> @[d] \cup {k.sent[d]}],
                                !.unread = FALSE, !.full = FALSE, !.shown = "kbd",
                                !.late = FALSE], "kbd"), "aux")

\* current_interrupt_raised is 0, the timer's, until the first read.
PowerOn ==
  [queue |-> [d \in Devs |-> <<>>], data |-> [dev |-> "kbd", n |-> 0],
   unread |-> FALSE, full |-> FALSE, shown |-> "kbd", enabled |-> {"kbd"},
   current |-> "timer", command |-> "none", mouse |-> "none", scanning |-> TRUE,
   stream |-> FALSE, irr |-> {}, sent |-> [d \in Devs |-> 0],
   lost |-> [d \in Devs |-> {}], late |-> FALSE]

KbdInit ==
  /\ kuse \in KbdUses /\ kbd = PowerOn
  /\ cpu = "run" /\ seen = "none" /\ taken = [d \in Devs |-> 0] /\ events = 0

(***************************************************************************)
(* The host.                                                               *)
(***************************************************************************)
HostEvent(e) ==
  /\ e \in kuse.host /\ events < kuse.events /\ events' = events + 1
  /\ UNCHANGED <<kuse, cpu, seen, taken>>

\* kbd_add_key().
Key ==
  /\ HostEvent("key")
  /\ kbd' = IF kbd.scanning THEN AddByte(kbd, "kbd") ELSE kbd

\* kbd_send_mouse_move(): no packet while another one is in the queue.
Move ==
  /\ HostEvent("move")
  /\ kbd' = IF kbd.stream /\ kbd.queue["aux"] = <<>> THEN AddBytes(kbd, "aux", 3) ELSE kbd

\* kbd_mouse_down(): a packet, whether the mouse may send or not.  (A packet of a
\* wheel mouse has a fourth byte, which is left out.)
Click ==
  /\ HostEvent("click")
  /\ kbd' = AddBytes(kbd, "aux", 3)

(***************************************************************************)
(* Commands.                                                               *)
(***************************************************************************)
Writes(c) ==
  /\ c \in kuse.commands /\ events < kuse.events /\ events' = events + 1
  /\ cpu = "run" /\ seen = "none" /\ (kuse.tidy => ~kbd.full)
  /\ UNCHANGED <<kuse, cpu, seen, taken>>

\* Port 64: what answers with a byte of the keyboard's queue (20, A1, A9, AA,
\* AB, C0).
ControllerQuery ==
  /\ Writes("query")
  /\ kbd' = AddByte(kbd, "kbd")

\* A8 and AE: the buffer is announced for the device that is enabled, whoever
\* it belongs to.  A7 and AD set a bit nothing looks at.
EnablePort(d) ==
  /\ Writes("enable")
  /\ LET k == Refill(kbd) IN kbd' = IF k.unread THEN RaiseKbdIrq(k, d) ELSE k

\* 60, D1 to D4: the command waits for its data.
TwoByteCommand(c) ==
  /\ Writes(c)
  /\ kbd' = [kbd EXCEPT !.command = c]

\* Port 60 after 60: the command byte.
WriteRam(bits) ==
  /\ kbd.command = "ram"
  /\ kbd' = Refill([kbd EXCEPT !.command = "none", !.enabled = bits,
                               !.late = kbd.unread /\ HasItems(kbd) = {}])

\* After D2 and D3: a byte as if it came from the device.
WriteOutput(d) ==
  /\ kbd.command = IF d = "kbd" THEN "outKbd" ELSE "outAux"
  /\ kbd' = AddByte([kbd EXCEPT !.command = "none"], d)

\* Port 60 without a command: a command of the keyboard.
KeyboardCommand(c) ==
  /\ kbd.command = "none" /\ c \in kuse.commands
  /\ kbd' =
       CASE c = "echo" -> AddByte(kbd, "kbd")
         [] c = "leds" -> [AddByte(kbd, "kbd") EXCEPT !.command = "leds"]
         [] c = "identify" -> AddBytes(kbd, "kbd", 3)
         [] c = "scan" -> AddByte([kbd EXCEPT !.scanning = TRUE], "kbd")
         [] c = "stop" -> AddByte([kbd EXCEPT !.scanning = FALSE], "kbd")
         [] c = "defaults" -> AddByte(ResetKbd(kbd), "kbd")
         [] c = "resetKbd" -> AddBytes(ResetPort(kbd, "kbd"), "kbd", 2)
         [] c = "resend" -> AddByte(kbd, "aux")

\* The second byte of ED, F0, F3; F0 with 0 asks for the scancode set.
KeyboardParameter ==
  /\ kbd.command = "leds"
  /\ \E count \in {1, 2} : kbd' = AddBytes([kbd EXCEPT !.command = "none"], "kbd", count)

\* After D1: the A20 gate.
WriteGate ==
  /\ kbd.command = "gate"
  /\ kbd' = [kbd EXCEPT !.command = "none"]

\* After D4: the parameter of E8 and F3.
MouseParameter ==
  /\ kbd.command = "mouse" /\ kbd.mouse # "none"
  /\ kbd' = AddByte([kbd EXCEPT !.command = "none", !.mouse = "none"], "aux")

\* After D4: a command of the mouse.
MouseCommand(c) ==
  /\ kbd.command = "mouse" /\ kbd.mouse = "none" /\ c \in kuse.commands
  /\ LET k == [kbd EXCEPT !.command = "none"]
     IN kbd' =
          CASE c = "scale" -> AddByte(k, "aux")
            [] c = "rate" -> AddByte([k EXCEPT !.mouse = "rate"], "aux")
            [] c = "status" -> AddBytes(k, "aux", 4)
            [] c = "id" -> AddBytes(k, "aux", 2)
            [] c = "report" -> AddByte([k EXCEPT !.stream = TRUE], "aux")
            [] c = "quiet" -> AddByte([k EXCEPT !.stream = FALSE], "aux")
            [] c = "defaultsAux" -> AddByte(ResetPort(k, "aux"), "aux")
            [] c = "resetAux" -> AddBytes(ResetPort(k, "aux"), "aux", 3)
            [] c = "ignored" -> k

KeyboardCommands == {"echo", "leds", "identify", "scan", "stop", "defaults", "resetKbd", "resend"}
MouseCommands ==
  {"scale", "rate", "status", "id", "report", "quiet", "defaultsAux", "resetAux", "ignored"}

\* A write to port 60; the command that waits decides what it is.
WriteData ==
  /\ Writes("data")
  /\ \/ \E bits \in SUBSET Devs : WriteRam(bits)
     \/ \E d \in Devs : WriteOutput(d)
     \/ \E c \in KeyboardCommands : KeyboardCommand(c)
     \/ KeyboardParameter \/ WriteGate
     \/ MouseParameter \/ \E c \in MouseCommands : MouseCommand(c)

(***************************************************************************)
(* The guest reads.                                                        *)
(***************************************************************************)
\* The CPU takes an interrupt of the controller.
TakeKbdInterrupt(d) ==
  /\ cpu = "run" /\ ~kuse.polls /\ d \in kbd.irr
  /\ kbd' = [kbd EXCEPT !.irr = @ \ {d}]
  /\ cpu' = "handler"
  /\ UNCHANGED <<kuse, seen, taken, events>>

\* Port 64.  A handler that finds nothing returns.
ReadStatus ==
  /\ cpu = "handler" \/ kuse.polls
  /\ seen = "none"
  /\ IF kbd.full THEN seen' = kbd.shown /\ UNCHANGED cpu
                 ELSE cpu' = "run" /\ UNCHANGED seen
  /\ UNCHANGED <<kuse, kbd, taken, events>>

\* Port 60: the line raised last is lowered, and with it its request.
ReadData ==
  /\ seen # "none"
  /\ kbd' = Refill([kbd EXCEPT !.full = FALSE, !.shown = "kbd", !.unread = FALSE, !.late = FALSE,
                               !.irr = @ \ {kbd.current}, !.current = "none"])
  /\ taken' = [taken EXCEPT ![kbd.data.dev] = kbd.data.n]
  /\ cpu' = "run" /\ seen' = "none"
  /\ UNCHANGED <<kuse, events>>

KbdNext ==
  \/ Key \/ Move \/ Click
  \/ ControllerQuery \/ \E d \in Devs : EnablePort(d)
  \/ \E c \in {"ram", "gate", "outKbd", "outAux", "mouse"} : TwoByteCommand(c)
  \/ WriteData
  \/ \E d \in Devs : TakeKbdInterrupt(d)
  \/ ReadStatus \/ ReadData

KbdSpec == KbdInit /\ [][KbdNext]_kbdVars

-----------------------------------------------------------------------------
KbdTypeOK ==
  /\ kuse \in KbdUses
  /\ \A d \in Devs : Len(kbd.queue[d]) < QueueSize
  /\ kbd.data.dev \in Devs /\ {kbd.unread, kbd.late, kbd.scanning, kbd.stream} \subseteq BOOLEAN
  /\ kbd.full = kbd.unread
  /\ kbd.enabled \subseteq Devs /\ kbd.irr \subseteq Devs
  /\ kbd.current \in Devs \cup {"none", "timer"}
  /\ cpu \in {"run", "handler"} /\ seen \in Devs \cup {"none"}

\* The guest reads the bytes of a device in order, none twice and none left
\* out, however keyboard, mouse and answers to commands come between each other:
\* the byte that waits is the one after the last that was read, or after the
\* last that was lost, when a queue of 256 bytes wrapped or was cleared.
BytesInOrder ==
  kbd.unread =>
    LET d == kbd.data.dev
    IN /\ kbd.data.n > taken[d]
       /\ kbd.data.n \in {n + 1 : n \in {taken[d]} \cup kbd.lost[d]}

\* The status says whose byte waits, unless the other device has bytes in its
\* queue, or had when it wrapped: a byte that comes after it turns the status,
\* and a guest that looks takes a key for a part of a mouse packet.  (A guest that
\* enables a port while a byte waits gets the status of that port.)
OwnerShown ==
  kbd.unread /\ kbd.shown # kbd.data.dev =>
    \/ kbd.queue[Other(kbd.data.dev)] # <<>> \/ kbd.lost[Other(kbd.data.dev)] # {}
    \/ "enable" \in kuse.commands /\ ~kuse.tidy

\* A byte that waits has an interrupt to come, or a handler reads it already:
\* though one line is raised for whichever byte came last, the reads lower one
\* of the two, and handlers find the byte of the other interrupt.  The
\* exception is a guest that enables interrupts by the command byte once the
\* only byte has come.
NotStranded ==
  kbd.unread /\ kbd.enabled = Devs /\ ~kbd.late /\ cpu = "run" => kbd.irr # {}
=============================================================================
