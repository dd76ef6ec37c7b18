-------------------------------- MODULE Drive --------------------------------
(***************************************************************************)
(* The disk layer of src/drive.c as built without Emscripten: the chunked  *)
(* driver, which loads blocks of the image on demand and answers a request *)
(* that had to load one from drive_check_complete(), and the raw driver,   *)
(* which answers at once.  All chunked drives share one transfer slot:     *)
(* transfer_in_progress, global_cb and global_cb_arg1.  Each drive serves  *)
(* one caller (an IDE channel or the floppy controller); the caller's side *)
(* is kept as far as it decides what may be asked and when.  Byte offsets, *)
(* paths and the savestate code are left out.                              *)
(***************************************************************************)
EXTENDS Integers

CONSTANTS
    Drives,
    RawDrives,      \* those with the raw driver
    InPlace,        \* raw drives with modify_backing_file set
    NumSectors,     \* in an image
    BlockSectors,   \* in a block: 512 in the code
    Values, Image,  \* contents of a sector, and what the image holds at first
    Idle,
    Uses            \* ways the drives are used, one for a behaviour: see Use

Ops == {"read", "write", "prefetch"}
AllHabits == {"overlap", "impatient", "cancel", "chain", "scribble"}

\* drives, ops: those in use.  maxRequests: bound on the requests.  habits: overlap, start a
\* request on a drive while another drive's is outstanding; impatient, on a drive while
\* its own is; cancel, IDE software reset; chain, a write from a write's callback
\* (fdc_handle_format()); scribble, change a buffer that is being written.
\* zlib: built with ENABLE_ZLIB, without which drive_read_file() reads nothing (the build
\* option --zlib).  lost: blocks of chunked images whose file cannot be read or inflated.
Use == [drives : SUBSET Drives, ops : SUBSET Ops, habits : SUBSET AllHabits, maxRequests : Nat,
        zlib : BOOLEAN, lost : SUBSET Nat]

ASSUME DriveAssumption ==
    /\ Drives # {}
    /\ InPlace \subseteq RawDrives /\ RawDrives \subseteq Drives
    /\ NumSectors \in Nat \ {0}
    /\ BlockSectors \in Nat \ {0}
    /\ Image \in Values
    /\ \A u \in Uses : u \in Use

VARIABLES
    store,      \* image file and cached blocks of every drive
    slot,       \* transfer_in_progress, and what global_cb will do for which drive
    arg,        \* argument_position and argument_length of every drive
    caller,     \* what its caller awaits of a drive, the caller's buffer, and the answers
                \* it got: how often its callback was called
    aborted,    \* DRIVE_FATAL was reached
    use, requests

vars == <<store, slot, arg, caller, aborted, use, requests>>

Sectors == 0 .. NumSectors - 1
BlockOf(s) == s \div BlockSectors
Blocks == {BlockOf(s) : s \in Sectors}

Range == {r \in [first : Sectors, count : 1 .. NumSectors] : r.first + r.count <= NumSectors}
Request == {r \in [op : Ops, first : Sectors, count : 1 .. NumSectors] :
               r.first + r.count <= NumSectors}

ASSUME IdleAssumption == Idle \notin Request

Touched(r)  == r.first .. r.first + r.count - 1
BlocksOf(r) == {BlockOf(s) : s \in Touched(r)}

Contents == [Sectors -> Values]
Store == [file : Contents, data : Contents, cached : SUBSET Blocks, modified : SUBSET Blocks]

Patched(old, S, new) == [s \in Sectors |-> IF s \in S THEN new[s] ELSE old[s]]

-----------------------------------------------------------------------------
(* One drive.                                                               *)

Content(st) == [s \in Sectors |-> IF BlockOf(s) \in st.cached THEN st.data[s] ELSE st.file[s]]

InCache(st, r)  == {s \in Touched(r) : BlockOf(s) \in st.cached}
AllCached(st, r) == BlocksOf(r) \subseteq st.cached

\* blocks with their data taken from the image
Loaded(st, blocks) ==
    [st EXCEPT !.cached = @ \cup blocks,
               !.data = Patched(@, {s \in Sectors : BlockOf(s) \in blocks \ st.cached}, st.file)]

\* what drive_read_file() gets of blocks that are missing: without ENABLE_ZLIB it returns
\* NULL, and they stay so
Fetched(blocks) == IF use.zlib THEN blocks ELSE {}

\* DRIVE_FATAL in drive_read_file(): a file that cannot be opened, read or inflated
Lost(st, r) == use.zlib /\ (BlocksOf(r) \ st.cached) \cap use.lost # {}

\* The store after drive_internal_read_check(), _write_check() or _prefetch_check():
\* blocks that are cached are written, the others fetched, and all marked modified.
Checked(st, op, r, buffer) ==
    LET written == [st EXCEPT !.data = Patched(@, InCache(st, r), buffer),
                              !.modified = @ \cup BlocksOf(r)]
    IN  Loaded(IF op = "write" THEN written ELSE st, Fetched(BlocksOf(r)))

\* the caller's buffer after it: read_check() copies what is cached
Returned(st, op, r, buffer) ==
    IF op = "read" THEN Patched(buffer, InCache(st, r), st.data) ELSE buffer

-----------------------------------------------------------------------------
(* Requests.                                                                *)

Running == ~aborted

Waiting(d) == caller[d].awaits # Idle

\* callers of one drive wait for its answer, and with others for theirs, unless
\* the use says otherwise
MayAsk(d, r) ==
    /\ Running
    /\ d \in use.drives
    /\ r.op \in use.ops
    /\ Waiting(d) => "impatient" \in use.habits
    /\ (\E e \in Drives \ {d} : Waiting(e)) => "overlap" \in use.habits
    /\ requests < use.maxRequests
    /\ requests' = requests + 1
    /\ UNCHANGED use

\* mutant: a prefetch does not set transfer_in_progress
StartChunkedIdle(d, r) ==
    /\ d \notin RawDrives
    /\ MayAsk(d, r)
    /\ ~Lost(store[d], r)
    /\ store' = [store EXCEPT ![d] = Checked(@, r.op, r, caller[d].buffer)]
    /\ LET got == Returned(store[d], r.op, r, caller[d].buffer) IN
       IF AllCached(store[d], r)
       THEN /\ caller' = [caller EXCEPT ![d].buffer = got]
            /\ UNCHANGED <<slot, arg>>
       ELSE /\ caller' = [caller EXCEPT ![d].awaits = r, ![d].buffer = got]
            /\ arg' = [arg EXCEPT ![d] = [first |-> r.first, count |-> r.count]]
            /\ slot' = [busy |-> slot.busy \/ r.op # "prefetch", op |-> r.op, drive |-> d]
    /\ UNCHANGED aborted

\* drive_internal_read(), drive_internal_write() and drive_internal_prefetch()
StartChunked(d, r) ==
    /\ d \notin RawDrives
    /\ MayAsk(d, r)
    /\ ~Lost(store[d], r)
    /\ store' = [store EXCEPT ![d] = Checked(@, r.op, r, caller[d].buffer)]
    /\ LET got == Returned(store[d], r.op, r, caller[d].buffer) IN
       IF AllCached(store[d], r)
       THEN /\ caller' = [caller EXCEPT ![d].buffer = got]
            /\ UNCHANGED <<slot, arg>>
       ELSE /\ caller' = [caller EXCEPT ![d].awaits = r, ![d].buffer = got]
            /\ arg' = [arg EXCEPT ![d] = [first |-> r.first, count |-> r.count]]
            /\ slot' = [busy |-> TRUE, op |-> r.op, drive |-> d]
    /\ UNCHANGED aborted

\* the same, ended by drive_read_file()
StartLost(d, r) ==
    /\ d \notin RawDrives
    /\ MayAsk(d, r)
    /\ Lost(store[d], r)
    /\ aborted' = TRUE
    /\ UNCHANGED <<store, slot, arg, caller>>

\* drive_simple_read(), drive_simple_prefetch()
ReadRaw(d, r) ==
    /\ d \in RawDrives
    /\ r.op # "write"
    /\ MayAsk(d, r)
    /\ caller' = IF r.op = "read"
                 THEN [caller EXCEPT ![d].buffer = Patched(@, Touched(r), Content(store[d]))]
                 ELSE caller
    /\ UNCHANGED <<store, slot, arg, aborted>>

\* drive_simple_write() loads whole blocks into the cache: a block that the image
\* does not fill cannot be read
Whole(b) == (b + 1) * BlockSectors <= NumSectors

WriteRaw(d, r) ==
    /\ d \in RawDrives
    /\ r.op = "write"
    /\ MayAsk(d, r)
    /\ \/ /\ d \in InPlace
          /\ store' = [store EXCEPT ![d].file = Patched(@, Touched(r), caller[d].buffer)]
          /\ UNCHANGED aborted
       \/ /\ d \notin InPlace
          /\ \A b \in BlocksOf(r) \ store[d].cached : Whole(b)
          /\ store' = [store EXCEPT ![d] = [Loaded(store[d], BlocksOf(r)) EXCEPT
                          !.data = Patched(@, Touched(r), caller[d].buffer)]]
          /\ UNCHANGED aborted
       \/ /\ d \notin InPlace
          /\ \E b \in BlocksOf(r) \ store[d].cached : ~Whole(b)
          /\ aborted' = TRUE
          /\ UNCHANGED store
    /\ UNCHANGED <<slot, arg, caller>>

-----------------------------------------------------------------------------
(* drive_check_complete(), called at the start of every pc_execute().       *)

Completing(d) == Running /\ slot.busy /\ d = slot.drive

\* mutant: the callback answers without its second pass over the blocks
CheckCompleteOnce(d) ==
    /\ Completing(d)
    /\ \/ /\ slot.op # "prefetch" /\ ~AllCached(store[d], arg[d])
          /\ aborted' = TRUE
          /\ UNCHANGED <<store, slot, caller>>
       \/ /\ slot.op = "prefetch" \/ AllCached(store[d], arg[d])
          /\ caller' = [caller EXCEPT ![d].awaits = Idle, ![d].answers = @ + 1]
          /\ UNCHANGED store
          /\ slot' = [slot EXCEPT !.busy = FALSE]
          /\ UNCHANGED aborted
    /\ UNCHANGED <<arg, use, requests>>

\* The callback of the driver makes its second pass and calls the caller's, or ends the
\* program with "We haven't loaded everything..?"; a prefetch makes none.
CheckComplete(d) ==
    /\ Completing(d)
    /\ \/ /\ slot.op # "prefetch" /\ ~AllCached(store[d], arg[d])
          /\ aborted' = TRUE
          /\ UNCHANGED <<store, slot, caller>>
       \/ /\ slot.op = "prefetch" \/ AllCached(store[d], arg[d])
          /\ store' = IF slot.op = "prefetch" THEN store
                      ELSE [store EXCEPT ![d] = Checked(@, slot.op, arg[d], caller[d].buffer)]
          /\ caller' = [caller EXCEPT
                ![d].awaits = Idle, ![d].answers = @ + 1,
                ![d].buffer = Returned(store[d], slot.op, arg[d], @)]
          /\ slot' = [slot EXCEPT !.busy = FALSE]
          /\ UNCHANGED aborted
    /\ UNCHANGED <<arg, use, requests>>

\* The callback of a write goes on with another one: transfer_in_progress is cleared
\* after the callback has returned, whether it started a transfer or not.
CheckCompleteChain(d, r) ==
    LET buffer == caller[d].buffer
        done   == Checked(store[d], "write", arg[d], buffer)
    IN  /\ Completing(d)
        /\ "chain" \in use.habits
        /\ slot.op = "write" /\ r.op = "write"
        /\ AllCached(store[d], arg[d])
        /\ requests < use.maxRequests
        /\ requests' = requests + 1
        /\ \/ /\ Lost(done, r)
              /\ aborted' = TRUE
              /\ UNCHANGED <<store, slot, arg, caller>>
           \/ /\ ~Lost(done, r)
              /\ store' = [store EXCEPT ![d] = Checked(done, "write", r, buffer)]
              /\ IF AllCached(done, r)
                 THEN /\ caller' = [caller EXCEPT ![d].awaits = Idle, ![d].answers = @ + 1]
                      /\ UNCHANGED arg
                 ELSE /\ caller' = [caller EXCEPT ![d].awaits = r, ![d].answers = @ + 1]
                      /\ arg' = [arg EXCEPT ![d] = [first |-> r.first, count |-> r.count]]
              /\ slot' = [slot EXCEPT !.busy = FALSE]
              /\ UNCHANGED aborted
        /\ UNCHANGED use

\* mutant: the transfer stays in progress
CancelKeepsSlot(d) ==
    /\ Running
    /\ "cancel" \in use.habits
    /\ d \in use.drives
    /\ caller' = [caller EXCEPT ![d].awaits = Idle]
    /\ UNCHANGED <<slot, store, arg, aborted, use, requests>>

\* drive_cancel_transfers(), from a software reset of the channel of drive d: the slot
\* is released whoever holds it
Cancel(d) ==
    /\ Running
    /\ "cancel" \in use.habits
    /\ d \in use.drives
    /\ slot' = [slot EXCEPT !.busy = FALSE]
    /\ caller' = [caller EXCEPT ![d].awaits = Idle]
    /\ UNCHANGED <<store, arg, aborted, use, requests>>

\* the caller, or the guest through its data port, fills the buffer
Fill(d, v) ==
    /\ Running
    /\ d \in use.drives
    /\ Waiting(d) => "scribble" \in use.habits
    /\ caller' = [caller EXCEPT ![d].buffer = [s \in Sectors |-> v]]
    /\ UNCHANGED <<store, slot, arg, aborted, use, requests>>

-----------------------------------------------------------------------------
Fresh == [s \in Sectors |-> Image]

Init ==
    /\ use \in Uses
    /\ store = [d \in Drives |->
          [file |-> Fresh, data |-> Fresh, cached |-> {}, modified |-> {}]]
    /\ slot = [busy |-> FALSE, op |-> "read", drive |-> CHOOSE d \in Drives : TRUE]
    /\ arg = [d \in Drives |-> [first |-> 0, count |-> 1]]
    /\ caller = [d \in Drives |-> [awaits |-> Idle, buffer |-> Fresh, answers |-> 0]]
    /\ aborted = FALSE
    /\ requests = 0

Next ==
    \E d \in Drives :
        \/ \E r \in Request : \/ StartChunked(d, r)
                              \/ StartLost(d, r)
                              \/ ReadRaw(d, r)
                              \/ WriteRaw(d, r)
                              \/ CheckCompleteChain(d, r)
        \/ CheckComplete(d)
        \/ Cancel(d)
        \/ \E v \in Values \ {Image} : Fill(d, v)

Spec == Init /\ [][Next]_vars

\* pc_execute() is called repeatedly
FairSpec == Spec /\ WF_vars(\E d \in Drives : CheckComplete(d))

-----------------------------------------------------------------------------
(* Properties.                                                              *)

TypeOK ==
    /\ store \in [Drives -> Store]
    /\ slot \in [busy : BOOLEAN, op : Ops, drive : Drives]
    /\ arg \in [Drives -> Range]
    /\ caller \in [Drives -> [awaits : Request \cup {Idle}, buffer : Contents, answers : Nat]]
    /\ aborted \in BOOLEAN
    /\ use \in Uses
    /\ requests \in Nat

\* Block cache, two-pass transfers and the shared slot together do what Disk says,
\* also when callers overlap, cancel, chain and scribble: a caller is answered once, for
\* the request it awaits and with all of it moved, and is forgotten only by a reset.
Abstract == INSTANCE Disk WITH
    content     <- [d \in Drives |-> Content(store[d])],
    outstanding <- [d \in Drives |-> caller[d].awaits],
    buffer      <- [d \in Drives |-> caller[d].buffer],
    answers     <- [d \in Drives |-> caller[d].answers],
    habits      <- use.habits

ImplementsDisk == Abstract!Spec

\* The pending callback is one its caller still waits for, with the arguments of that
\* request, although slot and arguments are overwritten by every asynchronous request
\* and cancelled by a reset of any channel.
SlotAwaited ==
    slot.busy =>
        caller[slot.drive].awaits = [op |-> slot.op, first |-> arg[slot.drive].first,
                                     count |-> arg[slot.drive].count]

\* drive_internal_state() saves the blocks marked modified and nothing else: every
\* sector that differs from the image is in one of them.
ModifiedCovers ==
    \A d \in Drives \ RawDrives, s \in Sectors :
        Content(store[d])[s] # store[d].file[s] => BlockOf(s) \in store[d].modified

\* The program ends only over a block of a chunked drive that cannot be loaded, or a raw
\* image with a last block that is not whole.
AbortCauses ==
    aborted => \/ use.drives \ RawDrives # {} /\ (~use.zlib \/ use.lost # {})
               \/ \E d \in use.drives \cap (RawDrives \ InPlace), b \in Blocks : ~Whole(b)

\* "We haven't loaded everything..?" is never the case in a build with ENABLE_ZLIB, where
\* a load that fails ends the program before the request is accepted.
CompletionLoads == slot.busy /\ use.zlib => AllCached(store[slot.drive], arg[slot.drive])

\* The image file of a drive changes only where the configuration says so.
ImageKept == [][\A d \in Drives \ InPlace : store'[d].file = store[d].file]_vars

\* Every request is answered, as long as callers do not overlap, nothing is cancelled
\* and callbacks start no transfer; or its blocks cannot be loaded, and the program ends.
Answered ==
    use.habits \cap {"overlap", "cancel", "chain"} = {} =>
        \A d \in Drives :
            Waiting(d) ~> ~Waiting(d) \/ (aborted /\ (~use.zlib \/ use.lost # {}))

\* ide.c:1361: "If block driver is able to get our data asynchronously, then wait for
\* the read callback to be called".
CallbackCalled == \A d \in Drives : Waiting(d) ~> ~Waiting(d)
=============================================================================
