------------------------------- MODULE MCDrive -------------------------------
(* Instances of Drive for TLC: two chunked drives and two raw ones, images of  *)
(* three sectors in blocks of two, so that the last block is not whole.        *)
EXTENDS Drive

BaseUse == [drives |-> {"hda", "hdc"}, ops |-> Ops, habits |-> {}, maxRequests |-> 3,
            zlib |-> TRUE, lost |-> {}]

Polite    == [BaseUse EXCEPT !.drives = {"hda", "raw"}]
Crowded   == [BaseUse EXCEPT !.ops = {"read", "write"}, !.habits = {"overlap", "cancel"}]
Prefetch  == [BaseUse EXCEPT !.habits = {"overlap", "cancel"}, !.maxRequests = 2]
Formatter == [BaseUse EXCEPT !.drives = {"hda"},
                             !.habits = {"chain", "scribble", "impatient", "cancel"}]
InPlaces  == [BaseUse EXCEPT !.drives = {"rawrw", "raw"}]
\* the default build, and an image with a file missing
NoZlib    == [Polite EXCEPT !.zlib = FALSE]
Damaged   == [BaseUse EXCEPT !.drives = {"hda"}, !.lost = {1}, !.habits = {"chain", "impatient"}]

AllUses == {Polite, Crowded, Prefetch, Formatter, InPlaces, NoZlib, Damaged}
Overlapping == {[BaseUse EXCEPT !.habits = {"overlap"}, !.maxRequests = 2]}
=============================================================================
