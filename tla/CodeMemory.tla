----------------------------- MODULE CodeMemory -----------------------------
(***************************************************************************)
(* What CodeCache is about: pages and chunks of memory, and the entries of *)
(* the TLB and of the trace cache.                                         *)
(***************************************************************************)
EXTENDS Naturals

CONSTANTS Lins,        \* linear pages
          Pages,       \* physical pages
          LastChunk,   \* a page has the chunks 0 .. LastChunk
          MaxTlb,      \* MAX_TLB_ENTRIES
          MaxTraces,   \* what trace_cache[] holds
          Uses,        \* what is looked at together, see Use
          None

Chunks == 0 .. LastChunk

\* mappings: the page table entries the guest uses; remaps: it changes them;
\* devices: devices write to memory; chunks: those that are used.
Use == [mappings : SUBSET [page : Pages, global : BOOLEAN], remaps : BOOLEAN,
        devices : BOOLEAN, chunks : SUBSET Chunks]

ASSUME CodeCacheAssumption ==
  /\ LastChunk \in Nat /\ MaxTlb \in Nat \ {0} /\ MaxTraces \in Nat \ {0}
  /\ None \notin Lins \cup Pages /\ Uses \subseteq Use

\* Whether a page may be written is left to Instr.
Mappings == [page : Pages, global : BOOLEAN]

\* cpu.tlb_tags for writing: 0, 1 (by way of access.c), 3 (not translated).
Entries == [page : Pages, write : {"fast", "slow", "no"}, global : BOOLEAN]

\* How a chunk of a trace was written: by a store that does not look for code,
\* through another linear page than the trace was decoded through or through
\* the same one; by a store that looks; by such a store while the trace ran on
\* without being in the cache; by such a store that begins ahead of the running
\* trace; by an IDE transfer, to the last chunk or to a page beyond; by the 8237.
Causes == {"alias", "same", "checked", "dropped", "ahead", "lastChunk",
           "crossing", "isa"}

Traces ==
  [page : Pages, chunk : Chunks, lin : Lins, span : SUBSET Chunks, stale : {"no"} \cup Causes]
=============================================================================
