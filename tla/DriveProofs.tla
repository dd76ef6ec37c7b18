----------------------------- MODULE DriveProofs -----------------------------
(* Theorems about Drive, for any drives, image and block sizes, and uses: its *)
(* safety properties, and that it implements Disk.                            *)
EXTENDS Drive, TLAPS

\* What ModifiedCovers says of one store.
Covered(st) == \A s \in Sectors : Content(st)[s] # st.file[s] => BlockOf(s) \in st.modified

\* The pending transfer is awaited, of a chunked drive in use, and its blocks were loaded when
\* it was accepted, if blocks are loaded at all.
Pending ==
    slot.busy =>
        /\ caller[slot.drive].awaits = [op |-> slot.op, first |-> arg[slot.drive].first,
                                        count |-> arg[slot.drive].count]
        /\ slot.drive \in use.drives \ RawDrives
        /\ use.zlib => AllCached(store[slot.drive], arg[slot.drive])

\* Raw drives written in place have no cache.
Stored ==
    \A d \in Drives : /\ d \notin RawDrives => Covered(store[d])
                      /\ d \in InPlace => store[d].cached = {}

Caller == [awaits : Request \cup {Idle}, buffer : Contents, answers : Nat]

IInv == TypeOK /\ Pending /\ Stored /\ AbortCauses

-----------------------------------------------------------------------------
(* The operators on the store of one drive.                                   *)

LEMMA PatchedIs ==
    ASSUME NEW old \in Contents, NEW new \in Contents, NEW S
    PROVE  /\ Patched(old, S, new) \in Contents
           /\ \A s \in Sectors : Patched(old, S, new)[s] = IF s \in S THEN new[s] ELSE old[s]
  BY DEF Patched, Contents

LEMMA ContentIs ==
    ASSUME NEW st \in Store
    PROVE  /\ Content(st) \in Contents
           /\ \A s \in Sectors :
                Content(st)[s] = IF BlockOf(s) \in st.cached THEN st.data[s] ELSE st.file[s]
  BY DEF Content, Store, Contents

LEMMA SpanIs ==
    ASSUME NEW r \in Range \cup Request
    PROVE  Touched(r) \subseteq Sectors /\ BlocksOf(r) \subseteq Blocks
  <1>1. r.first \in Sectors /\ r.count \in 1 .. NumSectors /\ r.first + r.count <= NumSectors
    BY DEF Range, Request
  <1>2. Touched(r) \subseteq Sectors
    BY <1>1, DriveAssumption DEF Touched, Sectors
  <1>3. QED BY <1>2 DEF BlocksOf, Blocks

\* Equal contents are those that agree on every sector.
LEMMA SameContents ==
    ASSUME NEW a \in Contents, NEW b \in Contents, \A s \in Sectors : a[s] = b[s]
    PROVE  a = b
  BY DEF Contents

LEMMA LoadedIs ==
    ASSUME NEW st \in Store, NEW blocks \in SUBSET Blocks
    PROVE  /\ Loaded(st, blocks) \in Store
           /\ Loaded(st, blocks).file = st.file
           /\ Loaded(st, blocks).cached = st.cached \cup blocks
           /\ Loaded(st, blocks).modified = st.modified
           /\ \A s \in Sectors : Loaded(st, blocks).data[s] =
                IF BlockOf(s) \in blocks \ st.cached THEN st.file[s] ELSE st.data[s]
           /\ Content(Loaded(st, blocks)) = Content(st)
  <1> DEFINE S == {s \in Sectors : BlockOf(s) \in blocks \ st.cached}
             data == Patched(st.data, S, st.file)
             new == Loaded(st, blocks)
  <1>1. st.file \in Contents /\ st.data \in Contents
    BY DEF Store
  <1>2. /\ data \in Contents
        /\ \A s \in Sectors : data[s] = IF s \in S THEN st.file[s] ELSE st.data[s]
    BY <1>1, PatchedIs
  <1>3. new = [st EXCEPT !.cached = st.cached \cup blocks, !.data = data]
    BY DEF Loaded
  <1> HIDE DEF data, new
  <1>4. /\ new \in Store /\ new.file = st.file /\ new.cached = st.cached \cup blocks
        /\ new.modified = st.modified /\ new.data = data
    BY <1>2, <1>3 DEF Store
  <1>5. \A s \in Sectors : new.data[s] =
           IF BlockOf(s) \in blocks \ st.cached THEN st.file[s] ELSE st.data[s]
    BY <1>2, <1>4
  <1>6. \A s \in Sectors : Content(new)[s] = Content(st)[s]
    BY <1>4, <1>5, ContentIs
  <1>7. Content(new) = Content(st)
    BY <1>4, <1>6, ContentIs, SameContents
  <1>8. QED BY <1>4, <1>5, <1>7 DEF new

\* One pass over the blocks: a write reaches what was cached, the rest is loaded.
LEMMA CheckedIs ==
    ASSUME NEW st \in Store, NEW op \in Ops, NEW r \in Range \cup Request, NEW buffer \in Contents,
           NEW new, new = Checked(st, op, r, buffer)
    PROVE  /\ new \in Store
           /\ new.file = st.file
           /\ new.cached = st.cached \cup Fetched(BlocksOf(r))
           /\ op = "write" => /\ new.modified = st.modified \cup BlocksOf(r)
                              /\ Content(new) = Patched(Content(st), InCache(st, r), buffer)
           /\ op # "write" => new.modified = st.modified /\ Content(new) = Content(st)
  <1> DEFINE data == Patched(st.data, InCache(st, r), buffer)
             written == [st EXCEPT !.data = data, !.modified = st.modified \cup BlocksOf(r)]
             base == IF op = "write" THEN written ELSE st
  <1>1. /\ st.data \in Contents /\ BlocksOf(r) \subseteq Blocks /\ Touched(r) \subseteq Sectors
        /\ Fetched(BlocksOf(r)) \subseteq Blocks
    BY SpanIs DEF Store, Fetched
  <1>2. /\ data \in Contents
        /\ \A s \in Sectors : data[s] = IF s \in InCache(st, r) THEN buffer[s] ELSE st.data[s]
    BY <1>1, PatchedIs
  <1>3. new = Loaded(base, Fetched(BlocksOf(r)))
    BY DEF Checked
  <1> HIDE DEF data
  <1>4. /\ written \in Store /\ written.file = st.file /\ written.cached = st.cached
        /\ written.modified = st.modified \cup BlocksOf(r) /\ written.data = data
    BY <1>1, <1>2 DEF Store
  <1> HIDE DEF written
  <1>5. base \in Store
    BY <1>4
  <1>6. Content(st) \in Contents /\ Patched(Content(st), InCache(st, r), buffer) \in Contents
    BY ContentIs, PatchedIs
  <1>7. \A s \in Sectors : Content(written)[s] = Patched(Content(st), InCache(st, r), buffer)[s]
    <2>1. ASSUME NEW s \in Sectors PROVE s \in InCache(st, r) => BlockOf(s) \in st.cached
      BY DEF InCache
    <2>2. QED BY <1>2, <1>4, <1>6, <2>1, ContentIs, PatchedIs
  <1>8. Content(written) = Patched(Content(st), InCache(st, r), buffer)
    BY <1>4, <1>6, <1>7, ContentIs, SameContents
  <1>9. /\ base.file = st.file /\ base.cached = st.cached
        /\ op = "write" => /\ base.modified = st.modified \cup BlocksOf(r)
                           /\ Content(base) = Patched(Content(st), InCache(st, r), buffer)
        /\ op # "write" => base.modified = st.modified /\ Content(base) = Content(st)
    BY <1>4, <1>8
  <1> HIDE DEF base
  <1>10. /\ new \in Store /\ new.file = st.file
         /\ new.cached = st.cached \cup Fetched(BlocksOf(r)) /\ new.modified = base.modified
         /\ Content(new) = Content(base)
    BY <1>1, <1>3, <1>5, <1>9, LoadedIs
  <1>11. QED BY <1>9, <1>10

\* Covering is kept by a pass, whatever the operation.
LEMMA CheckedCovers ==
    ASSUME NEW st \in Store, NEW op \in Ops, NEW r \in Range \cup Request, NEW buffer \in Contents,
           NEW new, new = Checked(st, op, r, buffer), Covered(st)
    PROVE  Covered(new)
  <1>1. /\ new.file = st.file
        /\ op = "write" => /\ new.modified = st.modified \cup BlocksOf(r)
                           /\ Content(new) = Patched(Content(st), InCache(st, r), buffer)
        /\ op # "write" => new.modified = st.modified /\ Content(new) = Content(st)
    BY CheckedIs
  <1>2. \A s \in InCache(st, r) : BlockOf(s) \in BlocksOf(r)
    BY DEF InCache, BlocksOf
  <1>3. SUFFICES ASSUME NEW s \in Sectors, Content(new)[s] # new.file[s]
                 PROVE  BlockOf(s) \in new.modified
    BY DEF Covered
  <1>4. CASE s \in InCache(st, r) /\ op = "write"
    BY <1>1, <1>2, <1>4
  <1>5. CASE ~(s \in InCache(st, r) /\ op = "write")
    <2>1. Content(new)[s] = Content(st)[s]
      BY <1>1, <1>5, ContentIs, PatchedIs
    <2>2. QED BY <1>1, <1>3, <2>1 DEF Covered
  <1>6. QED BY <1>4, <1>5

LEMMA ReturnedIs ==
    ASSUME NEW st \in Store, NEW op \in Ops, NEW r, NEW buffer \in Contents
    PROVE  /\ Returned(st, op, r, buffer) \in Contents
           /\ op = "read" => Returned(st, op, r, buffer) =
                                Patched(buffer, InCache(st, r), Content(st))
           /\ op # "read" => Returned(st, op, r, buffer) = buffer
  <1>1. st.data \in Contents /\ Content(st) \in Contents
    BY ContentIs DEF Store
  <1>2. Patched(buffer, InCache(st, r), st.data) \in Contents
    BY <1>1, PatchedIs
  <1>3. Patched(buffer, InCache(st, r), Content(st)) \in Contents
    BY <1>1, PatchedIs
  <1>4. \A s \in InCache(st, r) : BlockOf(s) \in st.cached
    BY DEF InCache
  <1>5. \A s \in Sectors : Patched(buffer, InCache(st, r), st.data)[s] =
                           Patched(buffer, InCache(st, r), Content(st))[s]
    BY <1>1, <1>4, PatchedIs, ContentIs
  <1>6. Patched(buffer, InCache(st, r), st.data) = Patched(buffer, InCache(st, r), Content(st))
    BY <1>2, <1>3, <1>5, SameContents
  <1>7. QED BY <1>2, <1>6 DEF Returned

LEMMA CachedTouches ==
    ASSUME NEW st, NEW r, AllCached(st, r)
    PROVE  InCache(st, r) = Touched(r)
  BY DEF AllCached, InCache, BlocksOf

-----------------------------------------------------------------------------
(* The invariant.                                                             *)

LEMMA InvParts ==
    ASSUME IInv, NEW d \in Drives
    PROVE  /\ store[d] \in Store /\ caller[d].buffer \in Contents
           /\ caller[d].awaits \in Request \cup {Idle} /\ arg[d] \in Range
           /\ caller[d].answers \in Nat
           /\ slot.drive \in Drives /\ slot.op \in Ops /\ slot.busy \in BOOLEAN
  BY DEF IInv, TypeOK, Caller

LEMMA InitInv == Init => IInv
  <1> SUFFICES ASSUME Init PROVE IInv
    OBVIOUS
  <1>1. Fresh \in Contents /\ 0 \in Sectors /\ 1 \in 1 .. NumSectors /\ 0 + 1 <= NumSectors
    BY DriveAssumption DEF Fresh, Contents, Sectors
  <1> DEFINE st == [file |-> Fresh, data |-> Fresh, cached |-> {}, modified |-> {}]
  <1>2. st \in Store /\ st.cached = {} /\ st.file = Fresh
    BY <1>1 DEF Store
  <1>3. [first |-> 0, count |-> 1] \in Range
    BY <1>1 DEF Range
  <1>4. slot.drive \in Drives /\ slot \in [busy : BOOLEAN, op : Ops, drive : Drives]
    BY DriveAssumption DEF Init, Ops
  <1>5. store = [d \in Drives |-> st]
    BY DEF Init
  <1>6. \A s \in Sectors : Content(st)[s] = st.file[s]
    BY <1>2, ContentIs
  <1>7. Covered(st)
    BY <1>6 DEF Covered
  <1> HIDE DEF st
  <1>8. TypeOK
    BY <1>1, <1>2, <1>3, <1>4, <1>5 DEF Init, TypeOK, Caller
  <1>9. Stored
    BY <1>2, <1>5, <1>7 DEF Stored
  <1>10. Pending /\ AbortCauses
    BY DEF Init, Pending, AbortCauses
  <1>11. QED BY <1>8, <1>9, <1>10 DEF IInv

\* The store of one drive changes: nothing leaves the cache.
LEMMA StoreKeeps ==
    ASSUME IInv, NEW d \in Drives, NEW st \in Store, store' = [store EXCEPT ![d] = st],
           store[d].cached \subseteq st.cached,
           d \notin RawDrives => Covered(st),
           d \in InPlace => st.cached = {}
    PROVE  /\ store' \in [Drives -> Store] /\ Stored'
           /\ \A e \in Drives : store[e].cached \subseteq store'[e].cached
  <1>1. store \in [Drives -> Store] /\ Stored
    BY DEF IInv, TypeOK
  <1>2. store' \in [Drives -> Store]
    BY <1>1
  <1>3. \A e \in Drives : store'[e] = IF e = d THEN st ELSE store[e]
    BY <1>1
  <1>4. Stored'
    BY <1>1, <1>3 DEF Stored, Covered, Content
  <1>5. QED BY <1>2, <1>3, <1>4

LEMMA SameStore ==
    ASSUME IInv, UNCHANGED store
    PROVE  /\ store' \in [Drives -> Store] /\ Stored'
           /\ \A e \in Drives : store[e].cached \subseteq store'[e].cached
  BY DEF IInv, TypeOK, Stored, Covered, Content

\* The pending transfer stays so as long as slot, arguments and what is awaited stay.
LEMMA PendingKept ==
    ASSUME IInv, UNCHANGED <<slot, arg>>,
           \A e \in Drives : store[e].cached \subseteq store'[e].cached,
           \A e \in Drives : caller'[e].awaits = caller[e].awaits, UNCHANGED use
    PROVE  Pending'
  BY InvParts, DriveAssumption DEF IInv, TypeOK, Pending, AllCached

\* A request is counted, or none made.
LEMMA CountKept ==
    ASSUME IInv, UNCHANGED use, requests' = requests + 1 \/ UNCHANGED requests
    PROVE  use' \in Uses /\ requests' \in Nat
  BY DEF IInv, TypeOK

LEMMA Assemble ==
    ASSUME IInv, store' \in [Drives -> Store], Stored', Pending',
           slot' \in [busy : BOOLEAN, op : Ops, drive : Drives], arg' \in [Drives -> Range],
           caller' \in [Drives -> Caller],
           aborted' \in BOOLEAN, AbortCauses',
           UNCHANGED use, requests' = requests + 1 \/ UNCHANGED requests
    PROVE  IInv'
  BY CountKept DEF IInv, TypeOK, Caller

LEMMA RequestIs ==
    ASSUME NEW r \in Request
    PROVE  /\ r.op \in Ops
           /\ r = [op |-> r.op, first |-> r.first, count |-> r.count]
           /\ [first |-> r.first, count |-> r.count] \in Range
           /\ BlocksOf([first |-> r.first, count |-> r.count]) = BlocksOf(r)
           /\ Touched([first |-> r.first, count |-> r.count]) = Touched(r)
  BY DEF Request, Range, BlocksOf, Touched

LEMMA NoAbort ==
    ASSUME IInv, UNCHANGED <<aborted, use>>
    PROVE  aborted' \in BOOLEAN /\ AbortCauses'
  BY DEF IInv, TypeOK, AbortCauses, Whole

\* TypeOK says the same as with the set of callers named.
LEMMA CallerType == TypeOK => caller \in [Drives -> Caller]
  BY DEF TypeOK, Caller

\* A caller's buffer changes.
LEMMA BufferKeeps ==
    ASSUME IInv, NEW d \in Drives, NEW b \in Contents, caller' = [caller EXCEPT ![d].buffer = b]
    PROVE  /\ caller' \in [Drives -> Caller]
           /\ caller'[d].buffer = b
           /\ \A e \in Drives \ {d} : caller'[e] = caller[e]
           /\ \A e \in Drives : /\ caller'[e].awaits = caller[e].awaits
                               /\ caller'[e].answers = caller[e].answers
  BY CallerType DEF IInv, Caller

\* It is accepted.
LEMMA AcceptKeeps ==
    ASSUME IInv, NEW d \in Drives, NEW b \in Contents, NEW a \in Request \cup {Idle},
           caller' = [caller EXCEPT ![d].awaits = a, ![d].buffer = b]
    PROVE  /\ caller' \in [Drives -> Caller]
           /\ caller'[d] = [awaits |-> a, buffer |-> b, answers |-> caller[d].answers]
           /\ \A e \in Drives \ {d} : caller'[e] = caller[e]
  BY CallerType DEF IInv, Caller

\* It is answered.
LEMMA AnswerKeeps ==
    ASSUME IInv, NEW d \in Drives, NEW a \in Request \cup {Idle},
           caller' = [caller EXCEPT ![d].awaits = a, ![d].answers = @ + 1]
    PROVE  /\ caller' \in [Drives -> Caller]
           /\ caller'[d] = [awaits |-> a, buffer |-> caller[d].buffer,
                            answers |-> caller[d].answers + 1]
           /\ \A e \in Drives \ {d} : caller'[e] = caller[e]
  BY CallerType DEF IInv, Caller

LEMMA StartInv ==
    ASSUME IInv, NEW d \in Drives, NEW r \in Request, StartChunked(d, r)
    PROVE  IInv'
  <1> DEFINE new == Checked(store[d], r.op, r, caller[d].buffer)
             got == Returned(store[d], r.op, r, caller[d].buffer)
             range == [first |-> r.first, count |-> r.count]
  <1>1. /\ d \notin RawDrives /\ d \notin InPlace
        /\ store' = [store EXCEPT ![d] = new]
        /\ UNCHANGED <<aborted, use>> /\ requests' = requests + 1
    BY DriveAssumption DEF StartChunked, MayAsk
  <1>2. Covered(store[d]) /\ store[d] \in Store /\ caller[d].buffer \in Contents /\ r.op \in Ops
    BY <1>1, InvParts, RequestIs DEF IInv, Stored
  <1>3. new \in Store /\ Covered(new) /\ new.cached = store[d].cached \cup Fetched(BlocksOf(r))
    BY <1>2, CheckedIs, CheckedCovers
  <1>4. got \in Contents
    BY <1>2, ReturnedIs
  <1>5. \/ /\ caller' = [caller EXCEPT ![d].buffer = got]
           /\ UNCHANGED <<slot, arg>>
        \/ /\ caller' = [caller EXCEPT ![d].awaits = r, ![d].buffer = got]
           /\ arg' = [arg EXCEPT ![d] = range]
           /\ slot' = [busy |-> TRUE, op |-> r.op, drive |-> d]
    BY DEF StartChunked
  <1> HIDE DEF new, got
  <1>6. /\ store' \in [Drives -> Store] /\ Stored'
        /\ \A e \in Drives : store[e].cached \subseteq store'[e].cached
    BY <1>1, <1>3, StoreKeeps
  <1>7. CASE caller' = [caller EXCEPT ![d].buffer = got] /\ UNCHANGED <<slot, arg>>
    <2>1. /\ caller' \in [Drives -> Caller]
          /\ Pending'
      BY <1>1, <1>4, <1>6, <1>7, BufferKeeps, PendingKept
    <2>2. slot' \in [busy : BOOLEAN, op : Ops, drive : Drives] /\ arg' \in [Drives -> Range]
      BY <1>7 DEF IInv, TypeOK
    <2>3. QED BY <1>1, <1>6, <2>1, <2>2, NoAbort, Assemble
  <1>8. CASE /\ caller' = [caller EXCEPT ![d].awaits = r, ![d].buffer = got]
             /\ arg' = [arg EXCEPT ![d] = range]
             /\ slot' = [busy |-> TRUE, op |-> r.op, drive |-> d]
    <2>1. /\ range \in Range /\ BlocksOf(range) = BlocksOf(r)
          /\ r = [op |-> r.op, first |-> range.first, count |-> range.count]
      BY RequestIs
    <2> HIDE DEF range
    <2>2. /\ caller' \in [Drives -> Caller]
          /\ caller'[d].awaits = r
      <3>1. r \in Request \cup {Idle}
        OBVIOUS
      <3>2. /\ caller' \in [Drives -> Caller]
            /\ caller'[d] = [awaits |-> r, buffer |-> got, answers |-> caller[d].answers]
        BY <1>4, <1>8, <3>1, AcceptKeeps
      <3>3. QED BY <3>2
    <2>3. /\ arg' \in [Drives -> Range] /\ arg'[d] = range
          /\ slot' \in [busy : BOOLEAN, op : Ops, drive : Drives]
      BY <1>2, <1>8, <2>1 DEF IInv, TypeOK
    <2>4. store'[d] = new
      BY <1>1 DEF IInv, TypeOK
    <2>5. d \in use.drives
      BY DEF StartChunked, MayAsk
    <2>6. use.zlib => BlocksOf(r) \subseteq new.cached
      BY <1>3 DEF Fetched
    <2>7. Pending'
      BY <1>1, <1>8, <2>1, <2>2, <2>3, <2>4, <2>5, <2>6 DEF Pending, AllCached
    <2>8. QED BY <1>1, <1>6, <2>2, <2>3, <2>7, NoAbort, Assemble
  <1>9. QED BY <1>5, <1>7, <1>8

\* A step of a raw drive, or of a caller, leaves slot and arguments alone.
LEMMA QuietInv ==
    ASSUME IInv, UNCHANGED <<slot, arg, use>>,
           store' \in [Drives -> Store], Stored',
           \A e \in Drives : store[e].cached \subseteq store'[e].cached,
           caller' \in [Drives -> Caller],
           \A e \in Drives : caller'[e].awaits = caller[e].awaits,
           aborted' \in BOOLEAN, AbortCauses',
           requests' = requests + 1 \/ UNCHANGED requests
    PROVE  IInv'
  <1>1. slot' \in [busy : BOOLEAN, op : Ops, drive : Drives] /\ arg' \in [Drives -> Range]
    BY DEF IInv, TypeOK
  <1>2. Pending'
    BY PendingKept
  <1>3. QED BY <1>1, <1>2, Assemble

LEMMA SameCaller ==
    ASSUME IInv, UNCHANGED caller
    PROVE  /\ caller' \in [Drives -> Caller]
           /\ \A e \in Drives : caller'[e].awaits = caller[e].awaits
  BY CallerType DEF IInv

\* The program ends over a block that cannot be loaded.
LEMMA LostInv ==
    ASSUME IInv, NEW d \in Drives, d \notin RawDrives, d \in use.drives,
           ~use.zlib \/ use.lost # {}, aborted' = TRUE,
           UNCHANGED <<store, slot, arg, caller, use>>, requests' = requests + 1 \/ UNCHANGED requests
    PROVE  IInv'
  <1>1. AbortCauses' /\ aborted' \in BOOLEAN
    BY DEF AbortCauses
  <1>2. QED BY <1>1, SameStore, SameCaller, QuietInv

LEMMA StartLostInv ==
    ASSUME IInv, NEW d \in Drives, NEW r \in Request, StartLost(d, r)
    PROVE  IInv'
  BY LostInv DEF StartLost, MayAsk, Lost

LEMMA ReadRawInv ==
    ASSUME IInv, NEW d \in Drives, NEW r \in Request, ReadRaw(d, r)
    PROVE  IInv'
  <1> DEFINE b == Patched(caller[d].buffer, Touched(r), Content(store[d]))
  <1>1. b \in Contents
    BY InvParts, ContentIs, PatchedIs
  <1>2. caller' = [caller EXCEPT ![d].buffer = b] \/ UNCHANGED caller
    BY DEF ReadRaw
  <1> HIDE DEF b
  <1>3. UNCHANGED <<store, slot, arg, aborted, use>> /\ requests' = requests + 1
    BY DEF ReadRaw, MayAsk
  <1>4. QED BY <1>1, <1>2, <1>3, BufferKeeps, SameCaller, SameStore, NoAbort, QuietInv

LEMMA WriteRawInv ==
    ASSUME IInv, NEW d \in Drives, NEW r \in Request, WriteRaw(d, r)
    PROVE  IInv'
  <1> DEFINE st == store[d]
             loaded == Loaded(st, BlocksOf(r))
             new1 == [st EXCEPT !.file = Patched(st.file, Touched(r), caller[d].buffer)]
             new2 == [loaded EXCEPT !.data = Patched(loaded.data, Touched(r), caller[d].buffer)]
  <1>1. /\ d \in RawDrives /\ UNCHANGED <<slot, arg, caller, use>>
        /\ requests' = requests + 1 /\ d \in use.drives
    BY DEF WriteRaw, MayAsk
  <1>2. st \in Store /\ caller[d].buffer \in Contents /\ BlocksOf(r) \subseteq Blocks
    BY InvParts, SpanIs
  <1>3. \/ d \in InPlace /\ store' = [store EXCEPT ![d] = new1] /\ UNCHANGED aborted
        \/ d \notin InPlace /\ store' = [store EXCEPT ![d] = new2] /\ UNCHANGED aborted
        \/ /\ d \notin InPlace /\ \E b \in BlocksOf(r) : ~Whole(b)
           /\ aborted' = TRUE /\ UNCHANGED store
    BY DEF WriteRaw
  <1>4. new1 \in Store /\ new1.cached = st.cached
    BY <1>2, PatchedIs DEF Store
  <1>5. new2 \in Store /\ st.cached \subseteq new2.cached
    <2>1. loaded \in Store /\ st.cached \subseteq loaded.cached
      BY <1>2, LoadedIs
    <2> HIDE DEF loaded
    <2>2. Patched(loaded.data, Touched(r), caller[d].buffer) \in Contents
      BY <1>2, <2>1, PatchedIs DEF Store
    <2>3. QED BY <2>1, <2>2 DEF Store
  <1> HIDE DEF new1, new2
  <1>6. CASE d \in InPlace /\ store' = [store EXCEPT ![d] = new1] /\ UNCHANGED aborted
    <2>1. new1.cached = {}
      BY <1>4, <1>6 DEF IInv, Stored
    <2>2. QED BY <1>1, <1>4, <1>6, <2>1, StoreKeeps, SameCaller, NoAbort, QuietInv
  <1>7. CASE d \notin InPlace /\ store' = [store EXCEPT ![d] = new2] /\ UNCHANGED aborted
    BY <1>1, <1>5, <1>7, StoreKeeps, SameCaller, NoAbort, QuietInv
  <1>8. CASE /\ d \notin InPlace /\ \E b \in BlocksOf(r) : ~Whole(b)
             /\ aborted' = TRUE /\ UNCHANGED store
    <2>1. AbortCauses'
      BY <1>1, <1>2, <1>8 DEF AbortCauses, Whole
    <2>2. QED BY <1>1, <1>8, <2>1, SameStore, SameCaller, QuietInv
  <1>9. QED BY <1>3, <1>6, <1>7, <1>8

\* A completion ends the program, or answers with everything loaded.
Answers(d) ==
    /\ slot.op = "prefetch" \/ AllCached(store[d], arg[d])
    /\ store' = IF slot.op = "prefetch" THEN store
                ELSE [store EXCEPT ![d] = Checked(@, slot.op, arg[d], caller[d].buffer)]
    /\ caller' \in [Drives -> Caller]
    /\ caller'[d] = [awaits |-> Idle, answers |-> caller[d].answers + 1,
                     buffer |-> Returned(store[d], slot.op, arg[d], caller[d].buffer)]
    /\ \A e \in Drives \ {d} : caller'[e] = caller[e]
    /\ slot' = [slot EXCEPT !.busy = FALSE] /\ UNCHANGED aborted

LEMMA CompleteIs ==
    ASSUME IInv, NEW d \in Drives, CheckComplete(d)
    PROVE  \/ /\ slot.op # "prefetch" /\ ~AllCached(store[d], arg[d])
              /\ aborted' = TRUE /\ UNCHANGED <<store, slot, caller>>
           \/ Answers(d)
  <1>1. CASE UNCHANGED <<store, slot, caller>>
    <2>1. slot.busy
      BY DEF CheckComplete, Completing
    <2>2. slot' # [slot EXCEPT !.busy = FALSE]
      BY <1>1, <2>1 DEF IInv, TypeOK
    <2>3. QED BY <2>2 DEF CheckComplete
  <1>2. CASE ~UNCHANGED <<store, slot, caller>>
    <2> DEFINE got == Returned(store[d], slot.op, arg[d], caller[d].buffer)
               n == caller[d].answers + 1
    <2>1. /\ slot.op = "prefetch" \/ AllCached(store[d], arg[d])
          /\ store' = IF slot.op = "prefetch" THEN store
                      ELSE [store EXCEPT ![d] = Checked(@, slot.op, arg[d], caller[d].buffer)]
          /\ caller' = [caller EXCEPT ![d].awaits = Idle, ![d].answers = @ + 1,
                             ![d].buffer = Returned(store[d], slot.op, arg[d], @)]
          /\ slot' = [slot EXCEPT !.busy = FALSE] /\ UNCHANGED aborted
      BY <1>2 DEF CheckComplete
    <2>2. caller \in [Drives -> Caller] /\ caller[d] \in Caller
      BY CallerType DEF IInv
    <2>3. caller' = [caller EXCEPT ![d] = [awaits |-> Idle, answers |-> n, buffer |-> got]]
      BY <2>1, <2>2 DEF Caller
    <2>4. got \in Contents /\ n \in Nat
      BY InvParts, ReturnedIs
    <2> HIDE DEF got, n
    <2>5. /\ caller' \in [Drives -> Caller]
          /\ caller'[d] = [awaits |-> Idle, answers |-> n, buffer |-> got]
          /\ \A e \in Drives \ {d} : caller'[e] = caller[e]
      BY <2>2, <2>3, <2>4 DEF Caller
    <2>6. QED BY <2>1, <2>5 DEF Answers, got, n
  <1>3. QED BY <1>1, <1>2

LEMMA CompleteInv ==
    ASSUME IInv, NEW d \in Drives, CheckComplete(d)
    PROVE  IInv'
  <1> DEFINE new == Checked(store[d], slot.op, arg[d], caller[d].buffer)
  <1>1. slot.busy /\ d = slot.drive /\ UNCHANGED <<arg, use, requests>>
    BY DEF CheckComplete, Completing
  <1>2. /\ d \notin RawDrives /\ d \notin InPlace /\ d \in use.drives
        /\ use.zlib => AllCached(store[d], arg[d])
    BY <1>1, DriveAssumption DEF IInv, Pending
  <1>3. CASE /\ ~AllCached(store[d], arg[d])
             /\ aborted' = TRUE /\ UNCHANGED <<store, slot, caller>>
    BY <1>1, <1>2, <1>3, LostInv
  <1>4. CASE Answers(d)
    <2>1. /\ Covered(store[d]) /\ store[d] \in Store /\ caller[d].buffer \in Contents
          /\ slot.op \in Ops /\ arg[d] \in Range
      BY <1>2, InvParts DEF IInv, Stored
    <2>2. new \in Store /\ Covered(new) /\ store[d].cached \subseteq new.cached
      BY <2>1, CheckedIs, CheckedCovers
    <2>3. store' = store \/ store' = [store EXCEPT ![d] = new]
      BY <1>4 DEF Answers
    <2> HIDE DEF new
    <2>4. store' \in [Drives -> Store] /\ Stored'
      BY <1>2, <2>2, <2>3, StoreKeeps, SameStore
    <2>5. slot' = [slot EXCEPT !.busy = FALSE] /\ caller' \in [Drives -> Caller] /\ UNCHANGED aborted
      BY <1>4 DEF Answers
    <2>6. slot' \in [busy : BOOLEAN, op : Ops, drive : Drives] /\ arg' \in [Drives -> Range] /\ Pending'
      BY <1>1, <2>5 DEF IInv, TypeOK, Pending
    <2>7. QED BY <1>1, <2>4, <2>5, <2>6, NoAbort, Assemble
  <1>5. QED BY <1>3, <1>4, CompleteIs

\* A callback that goes on ends the program, or answers and starts the next write.
Chains(d, r) ==
    LET buffer == caller[d].buffer
        done   == Checked(store[d], "write", arg[d], buffer)
    IN  /\ store' = [store EXCEPT ![d] = Checked(done, "write", r, buffer)]
        /\ \/ /\ AllCached(done, r)
              /\ caller' = [caller EXCEPT ![d].awaits = Idle, ![d].answers = @ + 1]
              /\ UNCHANGED arg
           \/ /\ caller' = [caller EXCEPT ![d].awaits = r, ![d].answers = @ + 1]
              /\ arg' = [arg EXCEPT ![d] = [first |-> r.first, count |-> r.count]]
        /\ slot' = [slot EXCEPT !.busy = FALSE]
        /\ UNCHANGED aborted

LEMMA ChainIs ==
    ASSUME IInv, NEW d \in Drives, NEW r \in Request, CheckCompleteChain(d, r)
    PROVE  /\ slot.busy /\ d = slot.drive /\ slot.op = "write" /\ r.op = "write"
           /\ "chain" \in use.habits /\ AllCached(store[d], arg[d])
           /\ UNCHANGED use /\ requests' = requests + 1
           /\ \/ /\ use.lost # {} /\ aborted' = TRUE
                 /\ UNCHANGED <<store, slot, arg, caller>>
              \/ Chains(d, r)
  <1>1. /\ slot.busy /\ d = slot.drive /\ slot.op = "write" /\ r.op = "write"
        /\ "chain" \in use.habits /\ AllCached(store[d], arg[d])
        /\ UNCHANGED use /\ requests' = requests + 1
    BY DEF CheckCompleteChain, Completing
  <1> DEFINE done == Checked(store[d], "write", arg[d], caller[d].buffer)
  <1>2. CASE Lost(done, r)
    <2>1. use.lost # {}
      BY <1>2 DEF Lost
    <2>2. QED BY <1>1, <1>2, <2>1 DEF CheckCompleteChain
  <1>3. CASE ~Lost(done, r)
    BY <1>1, <1>3 DEF CheckCompleteChain, Chains
  <1>4. QED BY <1>2, <1>3

LEMMA ChainInv ==
    ASSUME IInv, NEW d \in Drives, NEW r \in Request, CheckCompleteChain(d, r)
    PROVE  IInv'
  <1> DEFINE done == Checked(store[d], "write", arg[d], caller[d].buffer)
             new == Checked(done, "write", r, caller[d].buffer)
             range == [first |-> r.first, count |-> r.count]
             b == caller[d].buffer
  <1>1. slot.busy /\ d = slot.drive /\ UNCHANGED use /\ requests' = requests + 1
    BY ChainIs
  <1>2. d \notin RawDrives /\ d \notin InPlace /\ d \in use.drives
    BY <1>1, DriveAssumption DEF IInv, Pending
  <1>3. CASE /\ use.lost # {} /\ aborted' = TRUE
             /\ UNCHANGED <<store, slot, arg, caller>>
    BY <1>1, <1>2, <1>3, LostInv
  <1>4. CASE Chains(d, r)
    <2>1. Covered(store[d]) /\ store[d] \in Store /\ b \in Contents /\ arg[d] \in Range
      BY <1>2, InvParts DEF IInv, Stored
    <2>2. "write" \in Ops
      BY DEF Ops
    <2>3. done \in Store /\ Covered(done) /\ store[d].cached \subseteq done.cached
      BY <2>1, <2>2, CheckedIs, CheckedCovers
    <2>4. store' = [store EXCEPT ![d] = new] /\ UNCHANGED aborted /\ slot' = [slot EXCEPT !.busy = FALSE]
      BY <1>4 DEF Chains
    <2>5. \/ caller' = [caller EXCEPT ![d].awaits = Idle, ![d].answers = @ + 1] /\ UNCHANGED arg
          \/ /\ caller' = [caller EXCEPT ![d].awaits = r, ![d].answers = @ + 1]
             /\ arg' = [arg EXCEPT ![d] = range]
      BY <1>4 DEF Chains
    <2> HIDE DEF done
    <2>6. new \in Store /\ Covered(new) /\ done.cached \subseteq new.cached
      BY <2>1, <2>2, <2>3, CheckedIs, CheckedCovers
    <2> HIDE DEF new
    <2>7. store' \in [Drives -> Store] /\ Stored'
      BY <1>2, <2>3, <2>4, <2>6, StoreKeeps
    <2>8. range \in Range
      BY RequestIs
    <2> HIDE DEF range
    <2>9. caller' \in [Drives -> Caller]
      BY <2>5, AnswerKeeps
    <2>10. arg' \in [Drives -> Range]
      BY <2>5, <2>8 DEF IInv, TypeOK
    <2>11. slot' \in [busy : BOOLEAN, op : Ops, drive : Drives] /\ Pending'
      BY <1>1, <2>4 DEF IInv, TypeOK, Pending
    <2>12. QED BY <1>1, <2>4, <2>7, <2>9, <2>10, <2>11, NoAbort, Assemble
  <1>5. QED BY <1>3, <1>4, ChainIs

LEMMA CancelInv ==
    ASSUME IInv, NEW d \in Drives, Cancel(d)
    PROVE  IInv'
  <1>1. /\ slot' = [slot EXCEPT !.busy = FALSE] /\ caller' = [caller EXCEPT ![d].awaits = Idle]
        /\ UNCHANGED <<store, arg, aborted, use, requests>>
    BY DEF Cancel
  <1>2. caller' \in [Drives -> Caller]
    BY <1>1, CallerType DEF IInv, Caller
  <1>3. /\ slot' \in [busy : BOOLEAN, op : Ops, drive : Drives]
        /\ arg' \in [Drives -> Range] /\ Pending'
    BY <1>1 DEF IInv, TypeOK, Pending
  <1>4. QED BY <1>1, <1>2, <1>3, SameStore, NoAbort, Assemble

LEMMA FillInv ==
    ASSUME IInv, NEW d \in Drives, NEW v \in Values, Fill(d, v)
    PROVE  IInv'
  <1> DEFINE b == [s \in Sectors |-> v]
  <1>1. b \in Contents
    BY DEF Contents
  <1>2. caller' = [caller EXCEPT ![d].buffer = b] /\ UNCHANGED <<store, slot, arg, aborted, use, requests>>
    BY DEF Fill
  <1> HIDE DEF b
  <1>3. QED BY <1>1, <1>2, BufferKeeps, SameStore, NoAbort, QuietInv

LEMMA NextInv == IInv /\ [Next]_vars => IInv'
  <1> SUFFICES ASSUME IInv, [Next]_vars PROVE IInv'
    OBVIOUS
  <1>1. CASE UNCHANGED vars
    BY <1>1, SameStore, SameCaller, NoAbort, QuietInv DEF vars
  <1>2. CASE Next
    <2>1. PICK d \in Drives :
            \/ \E r \in Request : \/ StartChunked(d, r) \/ StartLost(d, r) \/ ReadRaw(d, r)
                                  \/ WriteRaw(d, r) \/ CheckCompleteChain(d, r)
            \/ CheckComplete(d)
            \/ Cancel(d)
            \/ \E v \in Values \ {Image} : Fill(d, v)
      BY <1>2 DEF Next
    <2>2. QED BY <2>1, StartInv, StartLostInv, ReadRawInv, WriteRawInv, ChainInv, CompleteInv, CancelInv, FillInv
  <1>3. QED BY <1>1, <1>2

-----------------------------------------------------------------------------
\* Cache, slot and callers stay within their types.
THEOREM TypeCorrect == Spec => []TypeOK
  <1>1. IInv => TypeOK
    BY DEF IInv
  <1>2. QED BY InitInv, NextInv, <1>1, PTL DEF Spec

\* However requests overlap, are cancelled or chained, the pending callback is one its
\* caller waits for, with the arguments it asked for.
THEOREM CallbackAwaited == Spec => []SlotAwaited
  <1>1. IInv => SlotAwaited
    BY DEF IInv, Pending, SlotAwaited
  <1>2. QED BY InitInv, NextInv, <1>1, PTL DEF Spec

\* Every sector of a chunked drive that differs from its image is in a block marked
\* modified, and so in a savestate.
THEOREM ModifiedSaved == Spec => []ModifiedCovers
  <1>1. IInv => ModifiedCovers
    BY DEF IInv, Stored, Covered, ModifiedCovers
  <1>2. QED BY InitInv, NextInv, <1>1, PTL DEF Spec

\* The program ends only over a block of a chunked drive that cannot be loaded, or an
\* incomplete last block of a raw image.
THEOREM AbortsExplained == Spec => []AbortCauses
  <1>1. IInv => AbortCauses
    BY DEF IInv
  <1>2. QED BY InitInv, NextInv, <1>1, PTL DEF Spec

\* With ENABLE_ZLIB, a completion finds its blocks loaded, whatever was requested,
\* cancelled or chained since.
THEOREM CompletionLoaded == Spec => []CompletionLoads
  <1>1. IInv => CompletionLoads
    BY DEF IInv, Pending, CompletionLoads
  <1>2. QED BY InitInv, NextInv, <1>1, PTL DEF Spec

-----------------------------------------------------------------------------
(* The image file.                                                            *)

LEMMA FileStep ==
    ASSUME IInv, NEW d \in Drives, NEW st, st.file = store[d].file,
           store' = [store EXCEPT ![d] = st]
    PROVE  \A e \in Drives : store'[e].file = store[e].file
  BY DEF IInv, TypeOK

LEMMA FileKept ==
    ASSUME IInv, [Next]_vars
    PROVE  \A d \in Drives \ InPlace : store'[d].file = store[d].file
  <1>1. CASE UNCHANGED store
    BY <1>1
  <1>2. ASSUME NEW d \in Drives, NEW r \in Request, StartChunked(d, r)
        PROVE  \A e \in Drives : store'[e].file = store[e].file
    <2> DEFINE new == Checked(store[d], r.op, r, caller[d].buffer)
    <2>1. store' = [store EXCEPT ![d] = new]
      BY <1>2 DEF StartChunked
    <2>2. store[d] \in Store /\ caller[d].buffer \in Contents /\ r.op \in Ops
      BY InvParts, RequestIs
    <2>3. new.file = store[d].file
      BY <2>2, CheckedIs
    <2> HIDE DEF new
    <2>4. QED BY <2>1, <2>3, FileStep
  <1>3. ASSUME NEW d \in Drives, CheckComplete(d)
        PROVE  \A e \in Drives : store'[e].file = store[e].file
    <2> DEFINE new == Checked(store[d], slot.op, arg[d], caller[d].buffer)
    <2>1. store' = store \/ store' = [store EXCEPT ![d] = new]
      BY <1>3 DEF CheckComplete
    <2>2. /\ store[d] \in Store /\ caller[d].buffer \in Contents
          /\ slot.op \in Ops /\ arg[d] \in Range
      BY InvParts
    <2>3. new.file = store[d].file
      BY <2>2, CheckedIs
    <2> HIDE DEF new
    <2>4. QED BY <2>1, <2>3, FileStep
  <1>4. ASSUME NEW d \in Drives, NEW r \in Request, CheckCompleteChain(d, r)
        PROVE  \A e \in Drives : store'[e].file = store[e].file
    <2> DEFINE done == Checked(store[d], "write", arg[d], caller[d].buffer)
               new == Checked(done, "write", r, caller[d].buffer)
    <2>1. store' = store \/ store' = [store EXCEPT ![d] = new]
      BY <1>4, ChainIs DEF Chains
    <2>2. /\ store[d] \in Store /\ caller[d].buffer \in Contents
          /\ "write" \in Ops /\ arg[d] \in Range
      BY InvParts DEF Ops
    <2>3. done \in Store /\ done.file = store[d].file
      BY <2>2, CheckedIs
    <2> HIDE DEF done
    <2>4. new.file = done.file
      BY <2>2, <2>3, CheckedIs
    <2> HIDE DEF new
    <2>5. QED BY <2>1, <2>3, <2>4, FileStep
  <1>5. ASSUME NEW d \in Drives, NEW r \in Request, WriteRaw(d, r)
        PROVE  \A e \in Drives \ InPlace : store'[e].file = store[e].file
    <2> DEFINE loaded == Loaded(store[d], BlocksOf(r))
               new == [loaded EXCEPT !.data = Patched(loaded.data, Touched(r), caller[d].buffer)]
               changed == [store[d] EXCEPT !.file = Patched(store[d].file, Touched(r), caller[d].buffer)]
    <2>1. \/ d \in InPlace /\ store' = [store EXCEPT ![d] = changed]
          \/ d \notin InPlace /\ store' = [store EXCEPT ![d] = new]
          \/ UNCHANGED store
      BY <1>5 DEF WriteRaw
    <2>2. loaded \in Store /\ loaded.file = store[d].file
      BY InvParts, SpanIs, LoadedIs
    <2> HIDE DEF loaded
    <2>3. new.file = store[d].file
      BY <2>2 DEF Store
    <2> HIDE DEF new, changed
    <2>4. CASE d \in InPlace /\ store' = [store EXCEPT ![d] = changed]
      BY <2>4 DEF IInv, TypeOK
    <2>5. QED BY <2>1, <2>3, <2>4, FileStep
  <1>6. CASE Next
    <2>1. PICK d \in Drives :
            \/ \E r \in Request : \/ StartChunked(d, r) \/ StartLost(d, r) \/ ReadRaw(d, r)
                                  \/ WriteRaw(d, r) \/ CheckCompleteChain(d, r)
            \/ CheckComplete(d)
            \/ Cancel(d)
            \/ \E v \in Values \ {Image} : Fill(d, v)
      BY <1>6 DEF Next
    <2>2. CASE \/ \E r \in Request : ReadRaw(d, r) \/ StartLost(d, r)
               \/ Cancel(d)
               \/ \E v \in Values \ {Image} : Fill(d, v)
      BY <1>1, <2>2 DEF ReadRaw, StartLost, Cancel, Fill
    <2>3. QED BY <1>2, <1>3, <1>4, <1>5, <2>1, <2>2
  <1>7. QED BY <1>1, <1>6 DEF vars

\* Only a raw drive configured for it writes to its image file.
THEOREM ImageUntouched == Spec => ImageKept
  <1>1. IInv /\ [Next]_vars => [\A d \in Drives \ InPlace : store'[d].file = store[d].file]_vars
    BY FileKept
  <1>2. QED BY InitInv, NextInv, <1>1, PTL DEF Spec, ImageKept

-----------------------------------------------------------------------------
(* Drive implements Disk.                                                     *)

LEMMA SameNames ==
    /\ Abstract!Sectors = Sectors /\ Abstract!Request = Request
    /\ \A r : Abstract!Touched(r) = Touched(r)
    /\ \A old, S, new : Abstract!Patched(old, S, new) = Patched(old, S, new)
  BY DEF Abstract!Sectors, Sectors, Abstract!Request, Request, Ops, Abstract!Touched, Touched,
         Abstract!Patched, Patched

\* The step to store1 and caller1, as a transfer of the abstract disk.
Moves(d, op, S, store1, caller1) ==
    /\ [e \in Drives |-> Content(store1[e])] =
         IF op = "write"
         THEN [[e \in Drives |-> Content(store[e])] EXCEPT
                  ![d] = Patched(Content(store[d]), S, caller[d].buffer)]
         ELSE [e \in Drives |-> Content(store[e])]
    /\ [e \in Drives |-> caller1[e].buffer] =
         IF op = "read"
         THEN [[e \in Drives |-> caller[e].buffer] EXCEPT
                  ![d] = Patched(caller[d].buffer, S, Content(store[d]))]
         ELSE [e \in Drives |-> caller[e].buffer]

LEMMA MovesStep ==
    ASSUME NEW d \in Drives, NEW op, NEW S, NEW store1, NEW caller1,
           \A e \in Drives \ {d} : store1[e] = store[e] /\ caller1[e].buffer = caller[e].buffer,
           op = "write" => Content(store1[d]) = Patched(Content(store[d]), S, caller[d].buffer),
           op # "write" => Content(store1[d]) = Content(store[d]),
           op = "read" => caller1[d].buffer = Patched(caller[d].buffer, S, Content(store[d])),
           op # "read" => caller1[d].buffer = caller[d].buffer
    PROVE  Moves(d, op, S, store1, caller1)
  BY DEF Moves

\* Of the callers of all drives, one is told something else.
LEMMA AwaitsStep ==
    ASSUME NEW d \in Drives, NEW a, NEW caller1,
           \A e \in Drives \ {d} : caller1[e].awaits = caller[e].awaits,
           caller1[d].awaits = a
    PROVE  [e \in Drives |-> caller1[e].awaits] =
                [[e \in Drives |-> caller[e].awaits] EXCEPT ![d] = a]
  OBVIOUS

LEMMA AnswersStep ==
    ASSUME NEW d \in Drives, NEW caller1,
           \A e \in Drives \ {d} : caller1[e].answers = caller[e].answers,
           caller1[d].answers = caller[d].answers + 1
    PROVE  [e \in Drives |-> caller1[e].answers] =
                [[e \in Drives |-> caller[e].answers] EXCEPT ![d] = @ + 1]
  OBVIOUS

\* What a caller must wait for, it waits for in the abstract disk too.
LEMMA MayAskImplements ==
    ASSUME NEW d \in Drives, NEW r \in Request, MayAsk(d, r)
    PROVE  Abstract!MayAsk(d) /\ UNCHANGED use.habits
  BY DEF MayAsk, Waiting, Abstract!MayAsk

LEMMA SameAnswers ==
    ASSUME \A e \in Drives : caller'[e].answers = caller[e].answers
    PROVE  [e \in Drives |-> caller'[e].answers] = [e \in Drives |-> caller[e].answers]
  OBVIOUS

LEMMA SameAwaits ==
    ASSUME \A e \in Drives : caller'[e].awaits = caller[e].awaits
    PROVE  [e \in Drives |-> caller'[e].awaits] = [e \in Drives |-> caller[e].awaits]
  OBVIOUS

\* The moves of a step are a transfer of the abstract disk.
LEMMA TransferIs ==
    ASSUME NEW d \in Drives, NEW r \in Request, NEW S, Moves(d, r.op, S, store', caller')
    PROVE  Abstract!Transfer(d, r, S)
  BY SameNames DEF Moves, Abstract!Transfer

LEMMA StartImplements ==
    ASSUME IInv, NEW d \in Drives, NEW r \in Request, StartChunked(d, r)
    PROVE  Abstract!Serve(d, r) \/ Abstract!Accept(d, r)
  <1> DEFINE new == Checked(store[d], r.op, r, caller[d].buffer)
             got == Returned(store[d], r.op, r, caller[d].buffer)
             S == InCache(store[d], r)
  <1>1. store[d] \in Store /\ caller[d].buffer \in Contents /\ r.op \in Ops
    BY InvParts, RequestIs
  <1>2. /\ new \in Store
        /\ r.op = "write" => Content(new) = Patched(Content(store[d]), S, caller[d].buffer)
        /\ r.op # "write" => Content(new) = Content(store[d])
    BY <1>1, CheckedIs
  <1>3. /\ got \in Contents
        /\ r.op = "read" => got = Patched(caller[d].buffer, S, Content(store[d]))
        /\ r.op # "read" => got = caller[d].buffer
    BY <1>1, ReturnedIs
  <1>4. /\ store' = [store EXCEPT ![d] = new]
        /\ \/ AllCached(store[d], r) /\ caller' = [caller EXCEPT ![d].buffer = got]
           \/ caller' = [caller EXCEPT ![d].awaits = r, ![d].buffer = got]
    BY DEF StartChunked
  <1>5. S \subseteq Touched(r)
    BY DEF InCache
  <1> HIDE DEF new, got
  <1>6. Abstract!MayAsk(d) /\ UNCHANGED use.habits
    BY MayAskImplements DEF StartChunked
  <1>7. store'[d] = new /\ \A e \in Drives \ {d} : store'[e] = store[e]
    BY <1>4 DEF IInv, TypeOK
  <1>8. CASE AllCached(store[d], r) /\ caller' = [caller EXCEPT ![d].buffer = got]
    <2>1. S = Touched(r)
      BY <1>8, CachedTouches
    <2>2. /\ caller'[d].buffer = got /\ \A e \in Drives \ {d} : caller'[e] = caller[e]
          /\ \A e \in Drives : /\ caller'[e].awaits = caller[e].awaits
                              /\ caller'[e].answers = caller[e].answers
      BY <1>3, <1>8, BufferKeeps
    <2>3. Moves(d, r.op, S, store', caller')
      BY <1>2, <1>3, <1>7, <2>2, MovesStep
    <2>4. Abstract!Transfer(d, r, Abstract!Touched(r))
      BY <2>1, <2>3, TransferIs, SameNames
    <2>5. QED BY <1>6, <2>2, <2>4, SameAwaits, SameAnswers DEF Abstract!Serve
  <1>9. CASE caller' = [caller EXCEPT ![d].awaits = r, ![d].buffer = got]
    <2>1. /\ caller'[d] = [awaits |-> r, buffer |-> got, answers |-> caller[d].answers]
          /\ \A e \in Drives \ {d} : caller'[e] = caller[e]
      <3>1. r \in Request \cup {Idle}
        OBVIOUS
      <3>2. QED BY <1>3, <1>9, <3>1, AcceptKeeps
    <2>2. [e \in Drives |-> caller'[e].awaits] =
              [[e \in Drives |-> caller[e].awaits] EXCEPT ![d] = r]
      BY <2>1, AwaitsStep
    <2>3. Moves(d, r.op, S, store', caller')
      BY <1>2, <1>3, <1>7, <2>1, MovesStep
    <2>4. PICK T : T = S
      OBVIOUS
    <2>5. T \in SUBSET Abstract!Touched(r) /\ Abstract!Transfer(d, r, T)
      <3>1. T \in SUBSET Abstract!Touched(r)
        BY <1>5, <2>4, SameNames
      <3>2. Moves(d, r.op, T, store', caller')
        BY <2>3, <2>4
      <3>3. Abstract!Transfer(d, r, T)
        BY <3>2, TransferIs
      <3>4. QED BY <3>1, <3>3
    <2>6. [e \in Drives |-> caller'[e].answers] = [e \in Drives |-> caller[e].answers]
      <3>1. \A e \in Drives : caller'[e].answers = caller[e].answers
        BY <2>1
      <3>2. QED BY <3>1, SameAnswers
    <2>7. QED BY <1>6, <2>2, <2>5, <2>6 DEF Abstract!Accept
  <1>10. QED BY <1>4, <1>8, <1>9

LEMMA ReadRawImplements ==
    ASSUME IInv, NEW d \in Drives, NEW r \in Request, ReadRaw(d, r)
    PROVE  Abstract!Serve(d, r)
  <1> DEFINE b == Patched(caller[d].buffer, Touched(r), Content(store[d]))
  <1>1. /\ UNCHANGED store /\ r.op # "write"
        /\ r.op = "read" => caller' = [caller EXCEPT ![d].buffer = b]
        /\ r.op # "read" => caller' = caller
    BY DEF ReadRaw
  <1>2. /\ \A e \in Drives : /\ caller'[e].awaits = caller[e].awaits
                            /\ caller'[e].answers = caller[e].answers
        /\ \A e \in Drives \ {d} : caller'[e] = caller[e]
        /\ r.op = "read" => caller'[d].buffer = b
    <2>1. b \in Contents
      BY InvParts, ContentIs, PatchedIs
    <2> HIDE DEF b
    <2>2. CASE r.op = "read"
      BY <1>1, <2>1, <2>2, BufferKeeps
    <2>3. QED BY <1>1, <2>2
  <1>3. Moves(d, r.op, Touched(r), store', caller')
    BY <1>1, <1>2, MovesStep
  <1>4. Abstract!Transfer(d, r, Abstract!Touched(r))
    BY <1>3, TransferIs, SameNames
  <1>5. Abstract!MayAsk(d) /\ UNCHANGED use.habits
    BY MayAskImplements DEF ReadRaw
  <1>6. QED BY <1>2, <1>4, <1>5, SameAwaits, SameAnswers DEF Abstract!Serve

LEMMA WriteRawImplements ==
    ASSUME IInv, NEW d \in Drives, NEW r \in Request, WriteRaw(d, r)
    PROVE  Abstract!Serve(d, r) \/ UNCHANGED <<store, caller, use>>
  <1> DEFINE st == store[d]
             b == caller[d].buffer
             loaded == Loaded(st, BlocksOf(r))
             new1 == [st EXCEPT !.file = Patched(st.file, Touched(r), b)]
             new2 == [loaded EXCEPT !.data = Patched(loaded.data, Touched(r), b)]
             wanted == Patched(Content(st), Touched(r), b)
  <1>1. UNCHANGED <<caller, use>> /\ r.op = "write"
    BY DEF WriteRaw, MayAsk
  <1>2. \/ d \in InPlace /\ store' = [store EXCEPT ![d] = new1]
        \/ d \notin InPlace /\ store' = [store EXCEPT ![d] = new2]
        \/ UNCHANGED store
    BY DEF WriteRaw
  <1>3. st \in Store /\ b \in Contents /\ BlocksOf(r) \subseteq Blocks
    BY InvParts, SpanIs
  <1>4. /\ wanted \in Contents
        /\ \A s \in Sectors : wanted[s] = IF s \in Touched(r) THEN b[s] ELSE Content(st)[s]
    BY <1>3, ContentIs, PatchedIs
  <1>5. ASSUME d \in InPlace PROVE Content(new1) = wanted
    <2>1. st.cached = {}
      BY <1>5 DEF IInv, Stored
    <2> DEFINE file == Patched(st.file, Touched(r), b)
    <2>2. /\ file \in Contents
          /\ \A s \in Sectors : file[s] = IF s \in Touched(r) THEN b[s] ELSE st.file[s]
      BY <1>3, PatchedIs DEF Store
    <2> HIDE DEF file
    <2>3. new1 \in Store /\ new1.cached = {} /\ new1.file = file
      BY <1>3, <2>1, <2>2 DEF Store, file
    <2> HIDE DEF new1, wanted
    <2>4. Content(new1) \in Contents
      BY <2>3, ContentIs
    <2>5. \A s \in Sectors : Content(new1)[s] = wanted[s]
      BY <1>3, <1>4, <2>1, <2>2, <2>3, ContentIs
    <2>6. QED BY <1>4, <2>4, <2>5, SameContents
  <1>6. Content(new2) = wanted
    <2>1. /\ loaded \in Store /\ loaded.cached = st.cached \cup BlocksOf(r)
          /\ Content(loaded) = Content(st)
      BY <1>3, LoadedIs
    <2> HIDE DEF loaded
    <2> DEFINE data == Patched(loaded.data, Touched(r), b)
    <2>2. /\ data \in Contents
          /\ \A s \in Sectors : data[s] = IF s \in Touched(r) THEN b[s] ELSE loaded.data[s]
      BY <1>3, <2>1, PatchedIs DEF Store
    <2> HIDE DEF data
    <2>3. new2 \in Store /\ new2.cached = loaded.cached /\ new2.file = loaded.file /\ new2.data = data
      BY <2>1, <2>2 DEF Store, data
    <2> HIDE DEF new2, wanted
    <2>4. \A s \in Touched(r) : BlockOf(s) \in loaded.cached
      BY <2>1 DEF BlocksOf
    <2>5. Content(new2) \in Contents
      BY <2>3, ContentIs
    <2>6. \A s \in Sectors : Content(new2)[s] = wanted[s]
      <3>1. \A s \in Sectors : Content(loaded)[s] =
               IF BlockOf(s) \in loaded.cached THEN loaded.data[s] ELSE loaded.file[s]
        BY <2>1, ContentIs
      <3>2. \A s \in Sectors : Content(new2)[s] =
               IF BlockOf(s) \in loaded.cached THEN data[s] ELSE loaded.file[s]
        BY <2>3, ContentIs
      <3>3. QED BY <1>4, <2>1, <2>2, <2>4, <3>1, <3>2
    <2>7. QED BY <1>4, <2>5, <2>6, SameContents
  <1> HIDE DEF new1, new2
  <1>7. ASSUME NEW new, store' = [store EXCEPT ![d] = new], Content(new) = wanted
        PROVE  Abstract!Serve(d, r)
    <2>1. /\ Content(store'[d]) = wanted
          /\ \A e \in Drives \ {d} : store'[e] = store[e]
      BY <1>7 DEF IInv, TypeOK
    <2>2. Moves(d, r.op, Touched(r), store', caller')
      BY <1>1, <2>1, MovesStep
    <2>3. Abstract!Transfer(d, r, Abstract!Touched(r))
      BY <2>2, TransferIs, SameNames
    <2>4. Abstract!MayAsk(d) /\ UNCHANGED use.habits
      BY MayAskImplements DEF WriteRaw
    <2>5. QED BY <1>1, <2>3, <2>4 DEF Abstract!Serve
  <1>8. QED BY <1>1, <1>2, <1>5, <1>6, <1>7

\* A callback is one of the abstract disk.
LEMMA CalledIs ==
    ASSUME NEW d \in Drives, NEW a, NEW b, caller[d].awaits # Idle,
           caller'[d] = [awaits |-> a, answers |-> caller[d].answers + 1, buffer |-> b],
           \A e \in Drives \ {d} : caller'[e] = caller[e], UNCHANGED use
    PROVE  Abstract!Called(d, a)
  <1>1. /\ caller'[d].awaits = a /\ caller'[d].answers = caller[d].answers + 1
        /\ \A e \in Drives \ {d} : /\ caller'[e].awaits = caller[e].awaits
                                  /\ caller'[e].answers = caller[e].answers
    OBVIOUS
  <1>2. [e \in Drives |-> caller'[e].awaits] =
            [[e \in Drives |-> caller[e].awaits] EXCEPT ![d] = a]
    BY <1>1, AwaitsStep
  <1>3. [e \in Drives |-> caller'[e].answers] =
            [[e \in Drives |-> caller[e].answers] EXCEPT ![d] = @ + 1]
    BY <1>1, AnswersStep
  <1>4. QED BY <1>2, <1>3 DEF Abstract!Called

LEMMA CompleteImplements ==
    ASSUME IInv, NEW d \in Drives, CheckComplete(d)
    PROVE  Abstract!Answer(d) \/ UNCHANGED <<store, caller, use>>
  <1> DEFINE r == caller[d].awaits
             new == Checked(store[d], slot.op, arg[d], caller[d].buffer)
             got == Returned(store[d], slot.op, arg[d], caller[d].buffer)
             S == IF slot.op = "prefetch" THEN Touched(arg[d]) ELSE InCache(store[d], arg[d])
  <1>1. slot.busy /\ d = slot.drive /\ UNCHANGED use
    BY DEF CheckComplete, Completing
  <1>2. SUFFICES ASSUME Answers(d) PROVE Abstract!Answer(d)
    BY <1>1, CompleteIs
  <1>3. r = [op |-> slot.op, first |-> arg[d].first, count |-> arg[d].count]
    BY <1>1 DEF IInv, Pending
  <1>4. /\ store[d] \in Store /\ caller[d].buffer \in Contents
        /\ slot.op \in Ops /\ arg[d] \in Range /\ r \in Request \cup {Idle}
    BY InvParts
  <1>5. slot.op = "write" =>
           Content(new) = Patched(Content(store[d]), S, caller[d].buffer)
    BY <1>4, CheckedIs
  <1>6. slot.op # "write" => Content(new) = Content(store[d])
    BY <1>4, CheckedIs
  <1>7. /\ slot.op = "read" => got = Patched(caller[d].buffer, S, Content(store[d]))
        /\ slot.op # "read" => got = caller[d].buffer
    BY <1>4, ReturnedIs
  <1>8. r.op = slot.op /\ S = Touched(r)
    BY <1>2, <1>3, CachedTouches DEF Answers, Touched
  <1>9. r # Idle /\ r \in Request
    BY <1>3, <1>4, IdleAssumption DEF Range, Request
  <1>10. /\ store'[d] = (IF slot.op = "prefetch" THEN store[d] ELSE new)
         /\ \A e \in Drives \ {d} : store'[e] = store[e]
    BY <1>2 DEF IInv, TypeOK, Answers
  <1>11. /\ caller'[d] = [awaits |-> Idle, answers |-> caller[d].answers + 1, buffer |-> got]
         /\ \A e \in Drives \ {d} : caller'[e] = caller[e]
    BY <1>2 DEF Answers
  <1> HIDE DEF new, got, S, r
  <1>12. Moves(d, slot.op, S, store', caller')
    BY <1>5, <1>6, <1>7, <1>10, <1>11, MovesStep
  <1>13. Abstract!Transfer(d, r, Abstract!Touched(r))
    <2>1. PICK t : t = r
      OBVIOUS
    <2>2. PICK T : T = S
      OBVIOUS
    <2>3. T = Abstract!Touched(t) /\ t.op = slot.op /\ t \in Request
      BY <1>8, <1>9, <2>1, <2>2, SameNames
    <2>4. Moves(d, t.op, T, store', caller')
      BY <1>12, <2>2, <2>3
    <2>5. Abstract!Transfer(d, t, T)
      BY <2>3, <2>4, TransferIs
    <2>6. QED BY <2>1, <2>3, <2>5 DEF Abstract!Transfer
  <1>14. Abstract!Called(d, Idle)
    BY <1>1, <1>9, <1>11, CalledIs DEF r
  <1>15. QED BY <1>13, <1>14 DEF Abstract!Answer, Abstract!Transfer, r

LEMMA PatchedTwice ==
    ASSUME NEW a \in Contents, NEW b \in Contents, NEW S, NEW T
    PROVE  Patched(Patched(a, S, b), T, b) = Patched(a, S \cup T, b)
  <1> DEFINE once == Patched(a, S, b)
  <1>1. /\ once \in Contents
        /\ \A s \in Sectors : once[s] = IF s \in S THEN b[s] ELSE a[s]
    BY PatchedIs
  <1> HIDE DEF once
  <1>2. /\ Patched(once, T, b) \in Contents
        /\ \A s \in Sectors : Patched(once, T, b)[s] = IF s \in T THEN b[s] ELSE once[s]
    BY <1>1, PatchedIs
  <1>3. /\ Patched(a, S \cup T, b) \in Contents
        /\ \A s \in Sectors : Patched(a, S \cup T, b)[s] = IF s \in S \cup T THEN b[s] ELSE a[s]
    BY PatchedIs
  <1>4. \A s \in Sectors : Patched(once, T, b)[s] = Patched(a, S \cup T, b)[s]
    BY <1>1, <1>2, <1>3
  <1>5. Patched(once, T, b) = Patched(a, S \cup T, b)
    BY <1>2, <1>3, <1>4, SameContents
  <1>6. QED BY <1>5 DEF once

LEMMA ChainImplements ==
    ASSUME IInv, NEW d \in Drives, NEW r \in Request, CheckCompleteChain(d, r)
    PROVE  \/ Abstract!AnswerThenServe(d, r) \/ Abstract!AnswerThenAccept(d, r)
           \/ UNCHANGED <<store, caller, use>>
  <1> DEFINE a == caller[d].awaits
             b == caller[d].buffer
             done == Checked(store[d], "write", arg[d], b)
             new == Checked(done, "write", r, b)
             S == InCache(done, r)
             C == Content(store[d])
  <1>1. /\ slot.busy /\ d = slot.drive /\ slot.op = "write" /\ r.op = "write"
        /\ "chain" \in use.habits /\ AllCached(store[d], arg[d]) /\ UNCHANGED use
    BY ChainIs
  <1>2. SUFFICES ASSUME Chains(d, r)
                 PROVE  Abstract!AnswerThenServe(d, r) \/ Abstract!AnswerThenAccept(d, r)
    BY <1>1, ChainIs
  <1>3. a = [op |-> "write", first |-> arg[d].first, count |-> arg[d].count]
    BY <1>1 DEF IInv, Pending
  <1>4. store[d] \in Store /\ b \in Contents /\ "write" \in Ops /\ arg[d] \in Range
    BY InvParts DEF Ops
  <1>5. a # Idle /\ a.op = "write" /\ Touched(arg[d]) = Touched(a)
    BY <1>3, <1>4, IdleAssumption DEF Range, Request, Ops, Touched
  <1>6. InCache(store[d], arg[d]) = Touched(a)
    BY <1>1, <1>5, CachedTouches
  <1>7. C \in Contents
    BY <1>4, ContentIs
  <1>8. done \in Store /\ Content(done) = Patched(C, Touched(a), b)
    BY <1>4, <1>6, CheckedIs
  <1>9. store' = [store EXCEPT ![d] = new]
    BY <1>2 DEF Chains
  <1> HIDE DEF done
  <1>10. Content(new) = Patched(Content(done), S, b)
    BY <1>4, <1>8, CheckedIs
  <1>11. Content(new) = Patched(C, Touched(a) \cup S, b)
    BY <1>4, <1>7, <1>8, <1>10, PatchedTwice
  <1> HIDE DEF new, C
  <1>12. store'[d] = new /\ \A e \in Drives \ {d} : store'[e] = store[e]
    BY <1>9 DEF IInv, TypeOK
  <1>13. ASSUME NEW n \in Request \cup {Idle},
                caller' = [caller EXCEPT ![d].awaits = n, ![d].answers = @ + 1]
         PROVE  /\ Abstract!Called(d, n)
                /\ Moves(d, "write", Touched(a) \cup S, store', caller')
    <2>1. /\ caller'[d] = [awaits |-> n, buffer |-> b, answers |-> caller[d].answers + 1]
          /\ \A e \in Drives \ {d} : caller'[e] = caller[e]
      BY <1>13, AnswerKeeps
    <2>2. Moves(d, "write", Touched(a) \cup S, store', caller')
      BY <1>11, <1>12, <2>1, MovesStep DEF C
    <2>3. QED BY <1>1, <1>5, <2>1, <2>2, CalledIs
  <1>14. ASSUME NEW T, Moves(d, "write", Touched(a) \cup T, store', caller')
         PROVE  Abstract!Chain(d, r, T)
    BY <1>1, <1>5, <1>14, SameNames DEF Moves, Abstract!Chain
  <1>15. CASE AllCached(done, r) /\ caller' = [caller EXCEPT ![d].awaits = Idle, ![d].answers = @ + 1]
    <2>1. S = Touched(r) /\ S = Abstract!Touched(r)
      BY <1>15, CachedTouches, SameNames
    <2>2. Idle \in Request \cup {Idle}
      OBVIOUS
    <2>3. QED BY <1>13, <1>14, <1>15, <2>1, <2>2 DEF Abstract!AnswerThenServe
  <1>16. CASE caller' = [caller EXCEPT ![d].awaits = r, ![d].answers = @ + 1]
    <2>1. S \in SUBSET Abstract!Touched(r)
      BY SameNames DEF InCache
    <2>2. r \in Request \cup {Idle}
      OBVIOUS
    <2>3. QED BY <1>13, <1>14, <1>16, <2>1, <2>2 DEF Abstract!AnswerThenAccept
  <1>17. QED BY <1>2, <1>15, <1>16 DEF Chains, done

LEMMA CancelImplements ==
    ASSUME IInv, NEW d \in Drives, Cancel(d)
    PROVE  Abstract!Cancel(d)
  <1>1. /\ UNCHANGED <<store, use>> /\ "cancel" \in use.habits
        /\ caller' = [caller EXCEPT ![d].awaits = Idle]
    BY DEF Cancel
  <1>2. /\ \A e \in Drives : /\ caller'[e].buffer = caller[e].buffer
                            /\ caller'[e].answers = caller[e].answers
        /\ \A e \in Drives \ {d} : caller'[e].awaits = caller[e].awaits
        /\ caller'[d].awaits = Idle
    BY <1>1, CallerType DEF IInv, Caller
  <1>3. [e \in Drives |-> caller'[e].awaits] =
            [[e \in Drives |-> caller[e].awaits] EXCEPT ![d] = Idle]
    BY <1>2, AwaitsStep
  <1>4. QED BY <1>1, <1>2, <1>3, SameAnswers DEF Abstract!Cancel

LEMMA FillImplements ==
    ASSUME IInv, NEW d \in Drives, NEW v \in Values, Fill(d, v)
    PROVE  Abstract!Fill(d)
  <1> DEFINE b == [s \in Sectors |-> v]
  <1>1. /\ UNCHANGED <<store, use>> /\ caller' = [caller EXCEPT ![d].buffer = b]
        /\ Waiting(d) => "scribble" \in use.habits
    BY DEF Fill
  <1>2. b \in Contents
    BY DEF Contents
  <1>3. b = [s \in Abstract!Sectors |-> v]
    BY SameNames
  <1> HIDE DEF b
  <1>4. /\ caller'[d].buffer = b /\ \A e \in Drives \ {d} : caller'[e] = caller[e]
        /\ \A e \in Drives : /\ caller'[e].awaits = caller[e].awaits
                            /\ caller'[e].answers = caller[e].answers
    BY <1>1, <1>2, BufferKeeps
  <1>5. [e \in Drives |-> caller'[e].buffer] =
            [[e \in Drives |-> caller[e].buffer] EXCEPT ![d] = b]
    BY <1>4
  <1>6. QED BY <1>1, <1>3, <1>4, <1>5, SameAwaits, SameAnswers DEF Abstract!Fill, Waiting

LEMMA InitImplements == Init => Abstract!Init
  <1> SUFFICES ASSUME Init PROVE Abstract!Init
    OBVIOUS
  <1> DEFINE st == [file |-> Fresh, data |-> Fresh, cached |-> {}, modified |-> {}]
  <1>1. st.file = Fresh /\ st.cached = {}
    OBVIOUS
  <1>2. /\ store = [d \in Drives |-> st] /\ use \in Uses
        /\ caller = [d \in Drives |-> [awaits |-> Idle, buffer |-> Fresh, answers |-> 0]]
    BY DEF Init
  <1>3. Content(st) = Fresh
    BY <1>1 DEF Content, Fresh
  <1> HIDE DEF st
  <1>4. use.habits \in SUBSET {"overlap", "impatient", "cancel", "chain", "scribble"}
    BY <1>2, DriveAssumption DEF Use, AllHabits
  <1>5. QED BY <1>2, <1>3, <1>4, SameNames DEF Abstract!Init, Fresh

LEMMA NextImplements == IInv /\ [Next]_vars => [Abstract!Next]_(Abstract!vars)
  <1> SUFFICES ASSUME IInv, [Next]_vars PROVE [Abstract!Next]_(Abstract!vars)
    OBVIOUS
  <1>1. CASE UNCHANGED <<store, caller, use>>
    BY <1>1 DEF Abstract!vars
  <1>2. CASE Next
    <2>1. PICK d \in Drives :
            \/ \E r \in Request : \/ StartChunked(d, r) \/ StartLost(d, r) \/ ReadRaw(d, r)
                                  \/ WriteRaw(d, r) \/ CheckCompleteChain(d, r)
            \/ CheckComplete(d)
            \/ Cancel(d)
            \/ \E v \in Values \ {Image} : Fill(d, v)
      BY <1>2 DEF Next
    <2>2. ASSUME NEW r \in Request, StartChunked(d, r) PROVE Abstract!Next
      BY <2>2, StartImplements, SameNames DEF Abstract!Next
    <2>3. ASSUME NEW r \in Request, ReadRaw(d, r) PROVE Abstract!Next
      BY <2>3, ReadRawImplements, SameNames DEF Abstract!Next
    <2>4. ASSUME NEW r \in Request, WriteRaw(d, r) PROVE [Abstract!Next]_(Abstract!vars)
      BY <1>1, <2>4, WriteRawImplements, SameNames DEF Abstract!Next
    <2>5. ASSUME NEW r \in Request, CheckCompleteChain(d, r) PROVE [Abstract!Next]_(Abstract!vars)
      BY <1>1, <2>5, ChainImplements, SameNames DEF Abstract!Next
    <2>6. CASE CheckComplete(d)
      BY <1>1, <2>6, CompleteImplements DEF Abstract!Next
    <2>7. CASE Cancel(d)
      BY <2>7, CancelImplements DEF Abstract!Next
    <2>8. ASSUME NEW v \in Values \ {Image}, Fill(d, v) PROVE Abstract!Next
      BY <2>8, FillImplements DEF Abstract!Next
    <2>9. ASSUME NEW r \in Request, StartLost(d, r) PROVE UNCHANGED <<store, caller, use>>
      BY <2>9 DEF StartLost, MayAsk
    <2>10. QED BY <1>1, <2>1, <2>2, <2>3, <2>4, <2>5, <2>6, <2>7, <2>8, <2>9
  <1>3. QED BY <1>1, <1>2 DEF vars

\* Block cache, two-pass transfers and the shared slot implement the disk that the
\* controllers are promised.
THEOREM Implements == Spec => ImplementsDisk
  BY InitInv, NextInv, InitImplements, NextImplements, PTL DEF Spec, ImplementsDisk, Abstract!Spec
=============================================================================
