------------------------------ MODULE MCTimers ------------------------------
(* Instances of Timers for TLC: sixteen cycles a second, a PIT and an ACPI  *)
(* timer slower than the CPU, and uses that take a few devices at a time.     *)
EXTENDS Timers

BaseUse == [loads |-> {}, modes |-> {}, rates |-> {}, enables |-> {}, counts |-> {},
            masked |-> {}, acpi |-> FALSE, ops |-> {}]

\* the PIT, repeating and once, running and idling
Periodic == [BaseUse EXCEPT !.loads = {0}, !.modes = {2}, !.ops = {"popf"}]
OneShot  == [BaseUse EXCEPT !.loads = {5}, !.modes = {0}, !.ops = {"popf"}]
Idling   == [BaseUse EXCEPT !.loads = {0}, !.modes = {3}, !.ops = {"halt", "popf"}]
Guarding == [BaseUse EXCEPT !.enables = {{"update"}}, !.ops = {"halt", "sti", "cli"}]

\* the CMOS clock
Clock    == [BaseUse EXCEPT !.rates = {5}, !.ops = {"popf"},
                            !.enables = {{"update"}, {"periodic", "update"}, {}}]
Dozing   == [BaseUse EXCEPT !.enables = {{"update"}, {}}, !.ops = {"halt", "popf"}]
Stopped  == [BaseUse EXCEPT !.rates = {0, 2}, !.enables = {{"periodic", "update"}}]

\* the APIC timer, and the ACPI timer
Apic     == [BaseUse EXCEPT !.counts = {0, 5}, !.masked = {FALSE}, !.ops = {"popf"}]
Sleeping == [BaseUse EXCEPT !.counts = {3}, !.masked = {FALSE}, !.ops = {"halt", "popf"}]
Masked   == [BaseUse EXCEPT !.counts = {2}, !.masked = BOOLEAN]
Reversed == [BaseUse EXCEPT !.rates = {2}, !.enables = {{"update"}}, !.counts = {1},
                            !.masked = {TRUE}, !.ops = {"halt", "sti"}]
Acpi     == [BaseUse EXCEPT !.acpi = TRUE, !.ops = {"popf", "halt", "cli"}]

AllUses == {Periodic, OneShot, Idling, Guarding, Clock, Dozing, Stopped, Apic, Sleeping, Masked, Reversed,
            Acpi}
OneShotOnly == {OneShot}
=============================================================================
