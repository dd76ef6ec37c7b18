------------------------------- MODULE MCApic -------------------------------
(* Instances of Apic for TLC: lines 0 and 2, which share pin 2, and line 1;   *)
(* three vectors in two priority classes.                                    *)
EXTENDS Apic

ThreeLines == {0, 1, 2}
ThreeVectors == {49, 53, 65}
OneLevelVector == {53}
TwoPriorities == {256, 63}

BaseUse == [commands |-> {}, levels |-> {1}, maxRaises |-> 4]

Levels   == [BaseUse EXCEPT !.commands = {"ipi", "clearirr"}]
Masking  == [BaseUse EXCEPT !.commands = {"mask", "redirect"}, !.maxRaises = 3]
Sharing  == [BaseUse EXCEPT !.commands = {"mask", "share"}, !.maxRaises = 3]
Rewiring == [BaseUse EXCEPT !.commands = {"mask", "redirect", "share"}, !.maxRaises = 1]
Peeking  == [BaseUse EXCEPT !.commands = {"ppr", "reset"}, !.maxRaises = 3]
Poking   == [BaseUse EXCEPT !.commands = {"registers"}, !.maxRaises = 1]
Mixed    == [BaseUse EXCEPT !.commands = {"pic", "icw1", "mask"}, !.maxRaises = 2]
MixedPic == [BaseUse EXCEPT !.commands = {"pic", "tpr", "mask"}, !.maxRaises = 3]

AllUses == {Levels, Masking, Sharing, Rewiring, Peeking, Poking, Mixed, MixedPic}
PeekingOnly == {[Peeking EXCEPT !.commands = {"ppr"}]}
=============================================================================
