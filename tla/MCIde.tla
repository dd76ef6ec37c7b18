-------------------------------- MODULE MCIde --------------------------------
(* Instances of Ide for TLC: two channels, each with a disk whose blocks are loaded  *)
(* on demand, and on the primary channel one that is never asynchronous, on the      *)
(* secondary one a CD-ROM drive.  Eight sectors in blocks of three; bytes of four    *)
(* values, so that a count of four is written as zero.                               *)
EXTENDS Ide

Types == [c \in {"primary", "secondary"} |->
             [d \in {0, 1} |-> IF d = 0 THEN "disk"
                               ELSE IF c = "primary" THEN "disk" ELSE "cdrom"]]

Raw == {<<"primary", 1>>}

Task(op, mode, first, count) ==
    [op |-> op, mode |-> mode, drive |-> 0, first |-> first, count |-> count]
OnSlave(j) == [j EXCEPT !.drive = 1]

Transfers == {Task("read", "chs", 1, 2), Task("read", "lba48", 2, 2), Task("write", "chs", 5, 3),
              Task("write", "lba28", 4, 4), Task("read dma", "lba28", 3, 3),
              Task("write dma", "chs", 0, 2)}

PioTransfers == {Task("read", "lba28", 2, 2), Task("write", "chs", 2, 2)}

Others == {Task(op, "chs", 3, 1) : op \in NonData}
          \cup {Task("identify", "lba28", 0, 1), Task("read multiple", "lba28", 1, 2),
                Task("write multiple", "lba48", 1, 2)}

Polling   == [jobs |-> Transfers, habits |-> {"poll"}, maxJobs |-> 2]
Commands  == [jobs |-> Others \cup {OnSlave(j) : j \in Others}, habits |-> {}, maxJobs |-> 2]
Verifying == [jobs |-> {Task("verify", "lba28", 1, 2), Task("read", "lba28", 2, 2)},
              habits |-> {"poll", "overlap"}, maxJobs |-> 3]
Waiters   == [jobs |-> {OnSlave(Task("write", "lba28", 4, 4)), Task("read", "chs", 2, 3),
                        Task("read dma", "lba48", 0, 3), OnSlave(Task("write dma", "lba28", 1, 4))},
              habits |-> {"reset"}, maxJobs |-> 2]
Crowded   == [jobs |-> {Task("read", "lba28", 2, 2), Task("write", "chs", 2, 1)},
              habits |-> {"poll", "overlap", "reset"}, maxJobs |-> 3]
Mixed     == [jobs |-> PioTransfers \cup {Task("write dma", "lba28", 3, 2)},
              habits |-> {"poll", "overlap", "reset"}, maxJobs |-> 2]
Careless  == [jobs |-> PioTransfers \cup {Task("read max", "lba28", 0, 1), Task("idle", "lba28", 0, 1)},
              habits |-> {"poll", "abandon", "hasty"}, maxJobs |-> 3]
Straying  == [jobs |-> {Task("read", "lba28", 6, 2), Task("read dma", "lba28", 6, 2),
                        Task("write", "lba28", 7, 1), Task("read dma", "lba28", 7, 1),
                        OnSlave(Task("read", "lba28", 2, 2))},
              habits |-> {"poll", "hasty"}, maxJobs |-> 2]
Restarted == [jobs |-> PioTransfers \cup {OnSlave(Task("read dma", "lba28", 3, 2))},
              habits |-> {"poll", "machine", "mask", "abandon"}, maxJobs |-> 3]

Crossing  == [jobs |-> {Task("read dma", "lba28", 2, 2), Task("write dma", "lba28", 2, 2),
                        Task("read", "lba28", 2, 1)},
              habits |-> {}, maxJobs |-> 2]

AllUses == {Polling, Commands, Verifying, Waiters, Crowded, Mixed, Careless, Straying, Restarted, Crossing}
Crossings == {Crossing}
=============================================================================
