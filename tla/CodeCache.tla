----------------------------- MODULE CodeCache -----------------------------
(***************************************************************************)
(* Translations and translated code: the TLB (src/src/cpu/mmu.c), the      *)
(* trace cache (trace.c) and the detection of self-modifying code (smc.c,  *)
(* access.c).                                                              *)
(*                                                                         *)
(* A guest runs traces, stores, changes its page table, flushes, and has   *)
(* devices write to memory.  Memory is divided into pages and these into   *)
(* chunks, the 128 bytes smc_has_code[] keeps a bit for; a store writes a  *)
(* chunk.  What bytes hold does not matter: a trace is stale when a chunk  *)
(* it was decoded from has been written since, and the record says how     *)
(* that went unnoticed.                                                    *)
(***************************************************************************)
EXTENDS CodeMemory, Sequences, Functions

VARIABLES use,        \* an element of Uses, chosen at the start
          pt,         \* the guest's page table
          tlb,        \* cpu.tlb, tlb_tags, tlb_attrs
          indexes,    \* cpu.tlb_entry_indexes
          hasCode,    \* cpu.smc_has_code
          traces,     \* cpu.trace_info
          usage,      \* cpu.trace_cache_usage
          here,       \* the linear page of EIP
          codePage,   \* the page of cpu.last_phys_eip, None: not valid
          running,    \* the trace being executed, None between traces
          remapped    \* linear pages mapped anew and not flushed since

cacheVars == <<use, pt, tlb, indexes, hasCode, traces, usage, here, codePage, running, remapped>>

\* cpu_reset(), with paging enabled.
CacheInit ==
  /\ use \in Uses /\ pt \in [Lins -> use.mappings]
  /\ tlb = [l \in Lins |-> None] /\ indexes = <<>>
  /\ hasCode = [p \in Pages |-> {}] /\ traces = {} /\ usage = 0
  /\ here \in Lins /\ codePage = None /\ running = None /\ remapped = {}

(***************************************************************************)
(* The TLB.                                                                *)
(***************************************************************************)
Valid(l) == tlb[l] # None

\* cpu_mmu_translate() and cpu_set_tlb_entry(): a full TLB is flushed before
\* the entry is made; a page with code is written to by way of access.c.
FillTlb(l, write) ==
  LET entry == [page |-> pt[l].page, global |-> pt[l].global,
                write |-> IF ~write THEN "no"
                          ELSE IF hasCode[pt[l].page] # {} THEN "slow" ELSE "fast"]
  IN IF Len(indexes) >= MaxTlb
       THEN /\ tlb' = [k \in Lins |-> IF k = l THEN entry ELSE None]
            /\ indexes' = <<l>>
       ELSE /\ tlb' = [tlb EXCEPT ![l] = entry]
            /\ indexes' = Append(indexes, l)

\* cpu_mmu_tlb_flush().
FlushAll ==
  /\ remapped' = {}
  /\ tlb' = [l \in Lins |-> IF l \in Range(indexes) THEN None ELSE tlb[l]]
  /\ indexes' = <<>>

\* Mutant: the list is emptied, and the entries that stay are not on it.
FlushNonGlobalUnlisted ==
  LET gone(l) == l \in Range(indexes) /\ Valid(l) /\ ~tlb[l].global
  IN /\ remapped' = {l \in remapped : Valid(l) /\ tlb[l].global}
     /\ tlb' = [l \in Lins |-> IF gone(l) THEN None ELSE tlb[l]]
     /\ indexes' = <<>>

\* cpu_mmu_tlb_flush_nonglobal(): the indexes are cleared, and stay counted.
FlushNonGlobal ==
  LET gone(l) == l \in Range(indexes) /\ Valid(l) /\ ~tlb[l].global
  IN /\ remapped' = {l \in remapped : Valid(l) /\ tlb[l].global}
     /\ tlb' = [l \in Lins |-> IF gone(l) THEN None ELSE tlb[l]]
     /\ indexes' = [i \in DOMAIN indexes |->
                      IF indexes[i] # None /\ gone(indexes[i]) THEN None ELSE indexes[i]]

(***************************************************************************)
(* Execution.                                                              *)
(***************************************************************************)
\* cpu_get_trace() recalculates the physical EIP when it has left the page.
Locate ==
  /\ running = None /\ codePage = None
  /\ IF Valid(here) THEN UNCHANGED <<use, tlb, indexes>> ELSE FillTlb(here, FALSE)
  /\ codePage' = tlb'[here].page
  /\ UNCHANGED <<use, pt, hasCode, traces, usage, here, running, remapped>>

\* It finds the trace.
Hit(c) ==
  /\ running = None /\ codePage # None
  /\ \E t \in traces : t.page = codePage /\ t.chunk = c /\ running' = t
  /\ UNCHANGED <<use, pt, tlb, indexes, hasCode, traces, usage, here, codePage, remapped>>

\* Mutant: the entry stays as it is.
TaggedNot(entry) == entry

\* set_smc() makes the entry the trace was decoded through a slow one.
Tagged(entry) ==
  IF entry = None THEN None
  ELSE [entry EXCEPT !.write = IF @ = "fast" THEN "slow" ELSE @]

\* It flushes a full cache and has cpu_decode() make the trace, from the chunk
\* c or from c and the next.
Miss(c, span) ==
  LET t == [page |-> codePage, chunk |-> c, lin |-> here, span |-> span, stale |-> "no"]
      full == usage >= MaxTraces
  IN /\ running = None /\ codePage # None
     /\ ~\E u \in traces : u.page = codePage /\ u.chunk = c
     /\ traces' = (IF full THEN {} ELSE traces) \cup {t}
     /\ usage' = IF full THEN 1 ELSE usage + 1
     /\ hasCode' = [hasCode EXCEPT ![codePage] = @ \cup span]
     /\ tlb' = [tlb EXCEPT ![here] = Tagged(@)]
     /\ running' = t
     /\ UNCHANGED <<use, pt, indexes, here, codePage, remapped>>

\* The trace ends in a jump, to another page or not.
Jump(l) ==
  /\ running # None
  /\ running' = None /\ here' = l
  /\ codePage' = IF l = here THEN codePage ELSE None
  /\ UNCHANGED <<use, pt, tlb, indexes, hasCode, traces, usage, remapped>>

(***************************************************************************)
(* Stores.                                                                 *)
(***************************************************************************)
\* A trace after chunk c of page p has been written.
Marked(t, p, c, cause) ==
  IF t.page = p /\ c \in t.span /\ t.stale = "no" THEN [t EXCEPT !.stale = cause] ELSE t

\* The store of a translation without a slow tag: nothing is looked at.
StoreFast(l, c) ==
  LET p == tlb[l].page
      cause(t) == IF t \notin traces THEN "dropped" ELSE IF l = t.lin THEN "same" ELSE "alias"
  IN /\ running # None /\ Valid(l) /\ tlb[l].write = "fast"
     /\ traces' = {Marked(t, p, c, cause(t)) : t \in traces}
     /\ running' = Marked(running, p, c, cause(running))
     /\ UNCHANGED <<use, pt, tlb, indexes, hasCode, usage, here, codePage, remapped>>

\* Mutant: the traces that begin in the chunk written to.
InvalidatedChunk(p, c) == {t \in traces : t.page = p /\ t.chunk = c /\ c \in hasCode[p]}

\* The traces of page p that begin in the chunks up to c.
Invalidated(p, c) ==
  {t \in traces : t.page = p /\ t.chunk <= c /\ t.chunk \in hasCode[p]}

\* cpu_smc_invalidate(): the CPU loop is left if the first byte of the store is
\* one of a trace that is invalidated; the translation is given up when no code is
\* left on the page.  ends: it is; written: the store reaches the running trace.
\* A store that begins before the running trace and reaches its first bytes
\* removes it from the cache and lets it go on, as does one that misses it.
Invalidate(p, c, ends, written) ==
  LET gone == Invalidated(p, c)
      cause == CASE running \notin traces -> "dropped"
                 [] running \in gone -> "ahead"
                 [] OTHER -> "checked"
  IN /\ ends => \E t \in gone : c \in t.span
     /\ written /\ ~ends /\ running \in gone => running.chunk = c
     /\ traces' = {Marked(t, p, c, "checked") : t \in traces \ gone}
     /\ hasCode' = [hasCode EXCEPT ![p] = {x \in @ : x > c}]
     /\ running' = CASE ends -> None
                     [] ~ends /\ written -> Marked(running, p, c, cause)
                     [] OTHER -> running

NoInvalidation(p, c) ==
  /\ traces' = {Marked(t, p, c, "checked") : t \in traces}
  /\ running' = Marked(running, p, c, IF running \in traces THEN "checked" ELSE "dropped")
  /\ UNCHANGED hasCode

\* cpu_access_writeN() with a tag that says slow.
StoreSlow(l, c) ==
  LET p == tlb[l].page
  IN /\ running # None /\ Valid(l) /\ tlb[l].write = "slow"
     /\ IF c \in hasCode[p]
          THEN /\ \E ends, written \in BOOLEAN : Invalidate(p, c, ends, written)
               /\ tlb' = IF hasCode'[p] = {} THEN [tlb EXCEPT ![l] = None] ELSE tlb
          ELSE NoInvalidation(p, c) /\ UNCHANGED tlb
     /\ UNCHANGED <<use, pt, indexes, usage, here, codePage, remapped>>

\* The same when the entry has to be made first.
StoreFill(l) ==
  /\ running # None
  /\ Valid(l) => tlb[l].write = "no"
  /\ FillTlb(l, TRUE)
  /\ UNCHANGED <<use, pt, hasCode, traces, usage, here, codePage, running, remapped>>

\* ide_read_dma_handler() writes to page q after cpu_init_dma() for page p; the
\* two differ in the last page of a transfer that begins within a page.
\* cpu_smc_invalidate_page() leaves the traces of the last chunk, the bits and
\* the TLB as they are, and leaves the CPU loop.
IdeWrites(p, q, c) ==
  LET kept == {t \in traces : t.page = p => t.chunk = LastChunk \/ t.chunk \notin hasCode[p]}
      cause(t) == IF p # q THEN "crossing"
                  ELSE IF t.chunk = LastChunk THEN "lastChunk" ELSE "checked"
  IN /\ traces' = {Marked(t, q, c, cause(t)) : t \in kept}
     /\ running' = None
     /\ UNCHANGED <<use, pt, tlb, indexes, hasCode, usage, here, codePage, remapped>>

\* dma_run_transfers() within one page: cpu_init_dma() is called only for the
\* pages after the first.
IsaWrites(p, c) ==
  /\ traces' = {Marked(t, p, c, "isa") : t \in traces}
  /\ running' = IF running = None THEN None ELSE Marked(running, p, c, "isa")
  /\ UNCHANGED <<use, pt, tlb, indexes, hasCode, usage, here, codePage, remapped>>

(***************************************************************************)
(* The guest's memory management.                                          *)
(***************************************************************************)
ChangeMapping(l, m) ==
  /\ running # None /\ use.remaps /\ pt[l] # m
  /\ pt' = [pt EXCEPT ![l] = m]
  /\ remapped' = remapped \cup {l}
  /\ UNCHANGED <<use, tlb, indexes, hasCode, traces, usage, here, codePage, running>>

\* cpu_mmu_tlb_invalidate().  The trace goes on, and so does the CPU on the page
\* it is on: the physical EIP is not recalculated.
Invlpg(l) ==
  /\ running # None /\ Valid(l)
  /\ tlb' = [tlb EXCEPT ![l] = None]
  /\ remapped' = IF l = here THEN remapped ELSE remapped \ {l}
  /\ UNCHANGED <<use, pt, indexes, hasCode, traces, usage, here, codePage, running>>

\* op_mov_crr32() on CR3, with and without CR4.PGE: the trace ends, and the
\* physical EIP is recalculated.
MovCr3 ==
  /\ running # None
  /\ FlushAll \/ FlushNonGlobal
  /\ codePage' = None /\ running' = None
  /\ UNCHANGED <<use, pt, hasCode, traces, usage, here>>

Spans(c) == {{c}, {c, c + 1} \cap use.chunks}

CacheNext ==
  \/ Locate \/ MovCr3
  \/ \E c \in use.chunks : Hit(c) \/ \E s \in Spans(c) : Miss(c, s)
  \/ \E l \in Lins : Jump(l) \/ StoreFill(l) \/ Invlpg(l)
  \/ \E l \in Lins, c \in use.chunks : StoreFast(l, c) \/ StoreSlow(l, c)
  \/ /\ use.devices
     /\ \E p \in Pages, c \in use.chunks : IsaWrites(p, c) \/ \E q \in Pages : IdeWrites(p, q, c)
  \/ \E l \in Lins, m \in use.mappings : ChangeMapping(l, m)

CacheSpec == CacheInit /\ [][CacheNext]_cacheVars

-----------------------------------------------------------------------------
CacheTypeOK ==
  /\ use \in Uses
  /\ pt \in [Lins -> Mappings]
  /\ tlb \in [Lins -> Entries \cup {None}]
  /\ indexes \in Seq(Lins \cup {None}) /\ Len(indexes) <= MaxTlb
  /\ hasCode \in [Pages -> SUBSET Chunks]
  /\ traces \subseteq Traces /\ usage \in 0 .. MaxTraces
  /\ here \in Lins /\ codePage \in Pages \cup {None}
  /\ running \in Traces \cup {None} /\ remapped \subseteq Lins

\* A trace that is in the cache, or that runs, is what memory holds: a store to
\* its bytes removes it, and ends it when it runs.  The stores that go
\* unnoticed are those through another linear page whose entry was made before
\* there was code, those of a transfer of the 8237, those of an IDE transfer to
\* a trace that begins in the last chunk of its page (the loop of
\* cpu_smc_invalidate_page() ends before it) or that lies in the page after the
\* one the transfer's length accounts for, and those of a trace to itself, its
\* first bytes by a store that begins before them, or any after an earlier store
\* has removed it from the cache without ending it.  No other store makes a trace
\* stale.
CodeFresh ==
  \A t \in traces \cup (IF running = None THEN {} ELSE {running}) :
    t.stale \notin {"same", "checked"}

\* The linear page a cached trace was decoded through has no fast entry for
\* writing to it.
CodeGuarded ==
  \A t \in traces :
    Valid(t.lin) /\ tlb[t.lin].page = t.page => tlb[t.lin].write # "fast"

\* Data is accessed, and code fetched, in the page the page table says, unless
\* it was changed and not flushed: CR3 and INVLPG flush what they should,
\* whatever was flushed, listed twice or dropped from a full TLB before, but
\* INVLPG of the page the CPU is on leaves it there.
MappingsFollowed ==
  /\ \A l \in Lins \ remapped : Valid(l) => tlb[l].page = pt[l].page
  /\ codePage # None /\ here \notin remapped => codePage = pt[here].page
=============================================================================
