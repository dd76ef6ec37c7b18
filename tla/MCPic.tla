------------------------------- MODULE MCPic -------------------------------
(* Instances of Pic for TLC: inputs 0 .. 2 on each controller, the slave on  *)
(* the master's input 1, a device on each of four lines.                     *)
EXTENDS Pic

FourDevices == {<<"master", 0>>, <<"master", 2>>, <<"slave", 0>>, <<"slave", 2>>}
SomeMasks == {{}, {0}, {1}}

BaseUse == [commands |-> {"eoi", "specific"}, pulse |-> {}, withdraw |-> {},
            powerOn |-> FALSE, maxRaises |-> 3, maxInits |-> 0]

Plain    == [BaseUse EXCEPT !.pulse = DeviceLines, !.maxRaises = 4]
Nested   == [BaseUse EXCEPT !.withdraw = DeviceLines, !.commands = @ \cup {"ocw1"}]
Rotating == [BaseUse EXCEPT !.commands = {"eoi", "rotate", "setprio"}, !.maxRaises = 2]
Special  == [BaseUse EXCEPT !.commands = {"specific", "special", "readselect"},
                            !.pulse = {<<"slave", 0>>}]
Booting  == [BaseUse EXCEPT !.commands = {"eoi", "autoeoi", "reset"},
                            !.powerOn = TRUE, !.maxInits = 1, !.maxRaises = 2]
Turning  == [Booting EXCEPT !.commands = {"autoeoi", "rotateaeoi", "reset"}]

AllUses == {Plain, Nested, Rotating, Special, Booting, Turning}
NestedOnly == {[BaseUse EXCEPT !.withdraw = DeviceLines]}
=============================================================================
