----------------------------- MODULE CodeProofs -----------------------------
(***************************************************************************)
(* Of the execution of code (MCCode). The caches: a translation the page   *)
(* table no longer has is not used, and code that is written to is not     *)
(* executed, for any number of pages, chunks, entries and traces, and any  *)
(* uses. The instructions: their exceptions are precise, no operand is     *)
(* overwritten before a fault, every store is to a page that allows it,    *)
(* for any page table, any translations the TLB holds and any number of    *)
(* faults and repetitions.                                                 *)
(***************************************************************************)
EXTENDS MCCode, TLAPS

(***************************************************************************)
(* The caches of translations and of translated code (CodeCache).          *)
(***************************************************************************)


\* Every chunk a cached trace was decoded from has its bit, and the trace
\* begins in the first of them.
Marks ==
  \A t \in traces :
    /\ t.chunk \in t.span /\ t.span \subseteq hasCode[t.page]
    /\ \A x \in t.span : t.chunk <= x

\* A flush finds every valid entry.
Listed == \A l \in Lins : Valid(l) => l \in Range(indexes)

IInv == CacheTypeOK /\ Marks /\ Listed /\ CodeGuarded /\ CodeFresh /\ MappingsFollowed

-----------------------------------------------------------------------------
(* Marking a trace and filling the TLB.                                      *)

\* A store changes nothing of a trace but, if it hits it, its staleness.
LEMMA MarkedIs ==
  ASSUME NEW t \in Traces, NEW p, NEW c, NEW cause \in Causes
  PROVE  /\ Marked(t, p, c, cause) \in Traces
         /\ Marked(t, p, c, cause).page = t.page /\ Marked(t, p, c, cause).chunk = t.chunk
         /\ Marked(t, p, c, cause).lin = t.lin /\ Marked(t, p, c, cause).span = t.span
         /\ \/ Marked(t, p, c, cause).stale = t.stale
            \/ /\ Marked(t, p, c, cause).stale = cause
               /\ t.page = p /\ c \in t.span
  BY DEF Marked, Traces

\* A list with one more index holds what it held, and the index.
LEMMA RangeAppend ==
  ASSUME NEW S, NEW s \in Seq(S), NEW e \in S
  PROVE  /\ Append(s, e) \in Seq(S) /\ Len(Append(s, e)) = Len(s) + 1
         /\ e \in Range(Append(s, e)) /\ Range(s) \subseteq Range(Append(s, e))
<1>1. Append(s, e) \in Seq(S) /\ Len(Append(s, e)) = Len(s) + 1
         /\ DOMAIN s = 1 .. Len(s) /\ DOMAIN Append(s, e) = 1 .. Len(s) + 1
         /\ Len(s) \in Nat
  OBVIOUS
<1>2. Append(s, e)[Len(s) + 1] = e /\ \A i \in 1 .. Len(s) : Append(s, e)[i] = s[i]
  OBVIOUS
<1>3. e \in Range(Append(s, e))
  BY <1>1, <1>2 DEF Range
<1>4. Range(s) \subseteq Range(Append(s, e))
  BY <1>1, <1>2 DEF Range
<1> QED
  BY <1>1, <1>3, <1>4

\* An entry that is made is the page table's, is not fast where there is code,
\* and is listed with every other that is left.
LEMMA FillIs ==
  ASSUME CacheTypeOK, Listed, NEW l \in Lins, NEW write \in BOOLEAN, FillTlb(l, write)
  PROVE  /\ tlb' \in [Lins -> Entries \cup {None}]
         /\ indexes' \in Seq(Lins \cup {None}) /\ Len(indexes') <= MaxTlb
         /\ tlb'[l].page = pt[l].page
         /\ tlb'[l].write = "fast" => hasCode[pt[l].page] = {}
         /\ \A k \in Lins \ {l} : tlb'[k] = None \/ tlb'[k] = tlb[k]
         /\ \A k \in Lins : tlb'[k] # None => k \in Range(indexes')
<1> DEFINE entry == [page |-> pt[l].page, global |-> pt[l].global,
                     write |-> IF ~write THEN "no"
                               ELSE IF hasCode[pt[l].page] # {} THEN "slow" ELSE "fast"]
<1>1. entry \in Entries /\ (entry.write = "fast" => hasCode[pt[l].page] = {})
         /\ entry.page = pt[l].page
  BY DEF CacheTypeOK, Entries, Mappings
<1>2. CASE Len(indexes) >= MaxTlb
  <2>1. tlb' = [k \in Lins |-> IF k = l THEN entry ELSE None] /\ indexes' = <<l>>
    BY <1>2 DEF FillTlb
  <2> HIDE DEF entry
  <2>2. indexes' \in Seq(Lins \cup {None}) /\ Len(indexes') = 1 /\ l \in Range(indexes')
    BY <2>1 DEF Range
  <2>3. MaxTlb \in Nat \ {0}
    BY CodeCacheAssumption
  <2> QED
    BY <1>1, <2>1, <2>2, <2>3
<1>3. CASE ~(Len(indexes) >= MaxTlb)
  <2>1. tlb' = [tlb EXCEPT ![l] = entry] /\ indexes' = Append(indexes, l)
    BY <1>3 DEF FillTlb
  <2> HIDE DEF entry
  <2>2. /\ indexes' \in Seq(Lins \cup {None}) /\ Len(indexes') = Len(indexes) + 1
        /\ l \in Range(indexes') /\ Range(indexes) \subseteq Range(indexes')
    BY <2>1, RangeAppend DEF CacheTypeOK
  <2>3. MaxTlb \in Nat /\ Len(indexes) \in Nat
    BY CodeCacheAssumption DEF CacheTypeOK
  <2>4. tlb' \in [Lins -> Entries \cup {None}] /\ tlb'[l] = entry
           /\ \A k \in Lins \ {l} : tlb'[k] = tlb[k]
    BY <1>1, <2>1 DEF CacheTypeOK
  <2>5. \A k \in Lins : tlb'[k] # None => k \in Range(indexes')
    BY <2>2, <2>4 DEF Listed, Valid
  <2>6. Len(indexes') <= MaxTlb
    BY <1>3, <2>2, <2>3
  <2> QED
    BY <1>1, <2>2, <2>4, <2>5, <2>6
<1> QED
  BY <1>2, <1>3

-----------------------------------------------------------------------------
(* What the steps that mark traces have in common.                           *)

\* The trace u is t, written to or not.
Like(u, t) ==
  u \in Traces /\ u.page = t.page /\ u.chunk = t.chunk /\ u.lin = t.lin /\ u.span = t.span

\* A step that only marks or drops cached traces keeps their bits and guards.
LEMMA LikeKept ==
  ASSUME Marks, CodeGuarded, traces \subseteq Traces,
         \A u \in traces' : \E t \in traces : Like(u, t)
  PROVE  /\ traces' \subseteq Traces
         /\ hasCode' = hasCode => Marks'
         /\ tlb' = tlb => CodeGuarded'
<1>1. traces' \subseteq Traces
  BY DEF Like
<1>2. hasCode' = hasCode => Marks'
  BY DEF Like, Marks
<1>3. tlb' = tlb => CodeGuarded'
  BY DEF Like, CodeGuarded, Valid
<1> QED
  BY <1>1, <1>2, <1>3

-----------------------------------------------------------------------------
LEMMA Initially == CacheInit => IInv
<1> SUFFICES ASSUME CacheInit PROVE IInv
  OBVIOUS
<1>1. CacheTypeOK
  <2>1. use \in Use /\ use.mappings \subseteq Mappings
    BY CodeCacheAssumption DEF CacheInit, Use, Mappings
  <2>2. pt \in [Lins -> Mappings] /\ use \in Uses
    BY <2>1 DEF CacheInit
  <2>3. indexes \in Seq(Lins \cup {None}) /\ Len(indexes) = 0
    BY DEF CacheInit
  <2>4. MaxTlb \in Nat /\ MaxTraces \in Nat
    BY CodeCacheAssumption
  <2> QED
    BY <2>2, <2>3, <2>4 DEF CacheInit, CacheTypeOK
<1>2. Marks /\ Listed /\ CodeGuarded
  BY DEF CacheInit, Marks, Listed, CodeGuarded, Valid
<1>3. CodeFresh /\ MappingsFollowed
  BY DEF CacheInit, CodeFresh, MappingsFollowed, Valid
<1> QED
  BY <1>1, <1>2, <1>3 DEF IInv

-----------------------------------------------------------------------------
(* The steps.                                                                *)

LEMMA LocateKeeps == IInv /\ Locate => IInv'
<1> SUFFICES ASSUME IInv, Locate PROVE IInv'
  OBVIOUS
<1> USE DEF IInv
<1>1. UNCHANGED <<use, pt, hasCode, traces, usage, here, running, remapped>> /\ here \in Lins
         /\ codePage' = tlb'[here].page
  BY DEF Locate, CacheTypeOK
<1>2. CASE Valid(here)
  <2>1. UNCHANGED <<tlb, indexes>>
    BY <1>2 DEF Locate
  <2>2. codePage' \in Pages
    BY <1>1, <1>2, <2>1 DEF CacheTypeOK, Valid, Entries
  <2>3. CacheTypeOK'
    BY <1>1, <2>1, <2>2 DEF CacheTypeOK
  <2>4. Marks' /\ Listed' /\ CodeGuarded' /\ CodeFresh'
    BY <1>1, <2>1 DEF Marks, Listed, CodeGuarded, CodeFresh, Valid
  <2>5. MappingsFollowed'
    BY <1>1, <1>2, <2>1 DEF MappingsFollowed, Valid
  <2> QED
    BY <2>3, <2>4, <2>5
<1>3. CASE ~Valid(here)
  <2>1. FillTlb(here, FALSE)
    BY <1>3 DEF Locate
  <2>2. /\ tlb' \in [Lins -> Entries \cup {None}]
        /\ indexes' \in Seq(Lins \cup {None}) /\ Len(indexes') <= MaxTlb
        /\ tlb'[here].page = pt[here].page
        /\ tlb'[here].write = "fast" => hasCode[pt[here].page] = {}
        /\ \A k \in Lins \ {here} : tlb'[k] = None \/ tlb'[k] = tlb[k]
        /\ \A k \in Lins : tlb'[k] # None => k \in Range(indexes')
    BY <1>1, <2>1, FillIs
  <2>3. codePage' \in Pages
    BY <1>1, <2>2 DEF CacheTypeOK, Mappings
  <2>4. CacheTypeOK'
    BY <1>1, <2>2, <2>3 DEF CacheTypeOK
  <2>5. Marks' /\ Listed' /\ CodeFresh'
    BY <1>1, <2>2 DEF Marks, Listed, CodeFresh, Valid
  <2>6. CodeGuarded'
    BY <1>1, <2>2 DEF Marks, CodeGuarded, Valid, CacheTypeOK, Traces
  <2>7. MappingsFollowed'
    BY <1>1, <2>2 DEF MappingsFollowed, Valid
  <2> QED
    BY <2>4, <2>5, <2>6, <2>7
<1> QED
  BY <1>2, <1>3

LEMMA StoreFillKeeps == ASSUME NEW l \in Lins PROVE IInv /\ StoreFill(l) => IInv'
<1> SUFFICES ASSUME IInv, StoreFill(l) PROVE IInv'
  OBVIOUS
<1> USE DEF IInv
<1>1. UNCHANGED <<use, pt, hasCode, traces, usage, here, codePage, running, remapped>>
         /\ FillTlb(l, TRUE)
  BY DEF StoreFill
<1>2. /\ tlb' \in [Lins -> Entries \cup {None}]
      /\ indexes' \in Seq(Lins \cup {None}) /\ Len(indexes') <= MaxTlb
      /\ tlb'[l].page = pt[l].page
      /\ tlb'[l].write = "fast" => hasCode[pt[l].page] = {}
      /\ \A k \in Lins \ {l} : tlb'[k] = None \/ tlb'[k] = tlb[k]
      /\ \A k \in Lins : tlb'[k] # None => k \in Range(indexes')
  BY <1>1, FillIs
<1>3. CacheTypeOK'
  BY <1>1, <1>2 DEF CacheTypeOK
<1>4. Marks' /\ Listed' /\ CodeFresh'
  BY <1>1, <1>2 DEF Marks, Listed, CodeFresh, Valid
<1>5. CodeGuarded'
  BY <1>1, <1>2 DEF Marks, CodeGuarded, Valid, CacheTypeOK, Traces
<1>6. MappingsFollowed'
  BY <1>1, <1>2 DEF MappingsFollowed, Valid
<1> QED
  BY <1>3, <1>4, <1>5, <1>6

\* A flush of the entries that are not global: what stays was not stale.
LEMMA FlushNonGlobalIs ==
  ASSUME IInv, FlushNonGlobal
  PROVE  /\ tlb' \in [Lins -> Entries \cup {None}]
         /\ indexes' \in Seq(Lins \cup {None}) /\ Len(indexes') = Len(indexes)
         /\ \A k \in Lins : /\ tlb'[k] = None \/ tlb'[k] = tlb[k]
                            /\ tlb'[k] # None => k \in Range(indexes')
                            /\ tlb'[k] # None /\ k \notin remapped' => k \notin remapped
         /\ remapped' \subseteq Lins
<1> USE DEF IInv
<1> DEFINE gone(l) == l \in Range(indexes) /\ Valid(l) /\ ~tlb[l].global
<1>1. /\ remapped' = {l \in remapped : Valid(l) /\ tlb[l].global}
      /\ tlb' = [l \in Lins |-> IF gone(l) THEN None ELSE tlb[l]]
      /\ indexes' = [i \in DOMAIN indexes |->
                       IF indexes[i] # None /\ gone(indexes[i]) THEN None ELSE indexes[i]]
  BY DEF FlushNonGlobal
<1>2. /\ Len(indexes) \in Nat /\ DOMAIN indexes = 1 .. Len(indexes)
      /\ \A i \in 1 .. Len(indexes) : indexes[i] \in Lins \cup {None}
  BY DEF CacheTypeOK
<1>3. indexes' \in Seq(Lins \cup {None}) /\ Len(indexes') = Len(indexes)
         /\ DOMAIN indexes' = DOMAIN indexes
  BY <1>1, <1>2
<1>4. tlb' \in [Lins -> Entries \cup {None}]
  BY <1>1 DEF CacheTypeOK
<1>5. ASSUME NEW k \in Lins
      PROVE  /\ tlb'[k] = None \/ tlb'[k] = tlb[k]
             /\ tlb'[k] # None => k \in Range(indexes')
             /\ tlb'[k] # None /\ k \notin remapped' => k \notin remapped
  <2>1. tlb'[k] = IF gone(k) THEN None ELSE tlb[k]
    BY <1>1
  <2>2. ASSUME tlb'[k] # None PROVE k \in Range(indexes')
    <3>1. ~gone(k) /\ Valid(k)
      BY <2>1, <2>2 DEF Valid
    <3>2. PICK i \in DOMAIN indexes : indexes[i] = k
      BY <3>1 DEF Listed, Range
    <3>3. indexes'[i] = k
      BY <1>1, <3>1, <3>2
    <3> QED
      BY <1>3, <3>2, <3>3 DEF Range
  <2>3. ASSUME tlb'[k] # None, k \notin remapped' PROVE k \notin remapped
    <3>1. Valid(k) /\ tlb[k].global
      BY <2>1, <2>3 DEF Valid, Listed
    <3> QED
      BY <1>1, <2>3, <3>1
  <2> QED
    BY <2>1, <2>2, <2>3
<1>6. remapped' \subseteq Lins
  BY <1>1 DEF CacheTypeOK
<1> HIDE DEF IInv
<1> QED
  BY <1>3, <1>4, <1>5, <1>6

\* A flush of all entries leaves none.
LEMMA FlushAllIs ==
  ASSUME IInv, FlushAll
  PROVE  /\ tlb' \in [Lins -> Entries \cup {None}]
         /\ \A k \in Lins : tlb'[k] = None
         /\ indexes' \in Seq(Lins \cup {None}) /\ Len(indexes') = 0
         /\ remapped' = {}
<1>1. \A k \in Lins : tlb'[k] = None
  BY DEF FlushAll, IInv, Listed, Valid
<1> QED
  BY <1>1 DEF FlushAll, IInv, CacheTypeOK

LEMMA MovCr3Keeps == IInv /\ MovCr3 => IInv'
<1> SUFFICES ASSUME IInv, MovCr3 PROVE IInv'
  OBVIOUS
<1>1. UNCHANGED <<use, pt, hasCode, traces, usage, here>> /\ codePage' = None /\ running' = None
  BY DEF MovCr3
<1>2. /\ tlb' \in [Lins -> Entries \cup {None}]
      /\ indexes' \in Seq(Lins \cup {None}) /\ Len(indexes') <= MaxTlb
      /\ \A k \in Lins : /\ tlb'[k] = None \/ tlb'[k] = tlb[k]
                         /\ tlb'[k] # None => k \in Range(indexes')
                         /\ tlb'[k] # None /\ k \notin remapped' => k \notin remapped
      /\ remapped' \subseteq Lins
  <2>1. Len(indexes) <= MaxTlb /\ MaxTlb \in Nat
    BY CodeCacheAssumption DEF IInv, CacheTypeOK
  <2>2. CASE FlushAll
    BY <2>1, <2>2, FlushAllIs
  <2>3. CASE FlushNonGlobal
    BY <2>1, <2>3, FlushNonGlobalIs
  <2> QED
    BY <2>2, <2>3 DEF MovCr3
<1> USE DEF IInv
<1>3. CacheTypeOK'
  BY <1>1, <1>2 DEF CacheTypeOK
<1>4. Marks' /\ Listed' /\ CodeFresh'
  BY <1>1, <1>2 DEF Marks, Listed, CodeFresh, Valid
<1>5. CodeGuarded'
  BY <1>1, <1>2 DEF CodeGuarded, Valid, CacheTypeOK, Traces
<1>6. MappingsFollowed'
  BY <1>1, <1>2 DEF MappingsFollowed, Valid
<1> QED
  BY <1>3, <1>4, <1>5, <1>6

LEMMA HitKeeps == ASSUME NEW c PROVE IInv /\ Hit(c) => IInv'
<1> SUFFICES ASSUME IInv, Hit(c) PROVE IInv'
  OBVIOUS
<1> USE DEF IInv
<1>1. UNCHANGED <<use, pt, tlb, indexes, hasCode, traces, usage, here, codePage, remapped>>
         /\ running' \in traces
  BY DEF Hit
<1>2. CacheTypeOK'
  BY <1>1 DEF CacheTypeOK
<1>3. Marks' /\ Listed' /\ CodeGuarded' /\ MappingsFollowed'
  BY <1>1 DEF Marks, Listed, CodeGuarded, MappingsFollowed, Valid
<1>4. CodeFresh'
  BY <1>1 DEF CodeFresh
<1> QED
  BY <1>2, <1>3, <1>4

\* The new trace is guarded, since the entry it was decoded through is slow now,
\* and the others are, since an entry only becomes slower.
LEMMA MissKeeps ==
  ASSUME NEW c \in use.chunks, NEW span \in Spans(c)
  PROVE  IInv /\ Miss(c, span) => IInv'
<1> SUFFICES ASSUME IInv, Miss(c, span) PROVE IInv'
  OBVIOUS
<1> USE DEF IInv
<1> DEFINE t == [page |-> codePage, chunk |-> c, lin |-> here, span |-> span, stale |-> "no"]
<1>1. /\ UNCHANGED <<use, pt, indexes, here, codePage, remapped>>
      /\ traces' \subseteq traces \cup {t} /\ running' = t
      /\ usage' = 1 \/ (usage' = usage + 1 /\ usage < MaxTraces)
      /\ hasCode' = [hasCode EXCEPT ![codePage] = @ \cup span]
      /\ tlb' = [tlb EXCEPT ![here] = Tagged(@)]
  <2>1. usage \in Nat /\ MaxTraces \in Nat
    BY CodeCacheAssumption DEF CacheTypeOK
  <2> QED
    BY <2>1 DEF Miss
<1>2. codePage \in Pages /\ here \in Lins /\ hasCode \in [Pages -> SUBSET Chunks]
         /\ tlb \in [Lins -> Entries \cup {None}]
  BY DEF Miss, CacheTypeOK
<1>3. use.chunks \subseteq Chunks
  BY CodeCacheAssumption DEF CacheTypeOK, Use
<1>4. c \in span /\ span \subseteq Chunks /\ \A x \in span : c <= x
  BY <1>3, CodeCacheAssumption DEF Spans, Chunks
<1>5. t \in Traces /\ t.chunk = c /\ t.span = span /\ t.page = codePage /\ t.lin = here
         /\ t.stale = "no"
  BY <1>2, <1>3, <1>4 DEF Traces
<1> HIDE DEF t
<1>6. /\ tlb' \in [Lins -> Entries \cup {None}]
      /\ \A k \in Lins \ {here} : tlb'[k] = tlb[k]
      /\ tlb'[here] # None =>
           /\ tlb[here] # None /\ tlb'[here].page = tlb[here].page
           /\ tlb'[here].write # "fast"
  <2>1. ASSUME NEW entry \in Entries \cup {None}
        PROVE  /\ Tagged(entry) \in Entries \cup {None}
               /\ Tagged(entry) # None =>
                    /\ entry # None /\ Tagged(entry).page = entry.page
                    /\ Tagged(entry).write # "fast"
    BY DEF Tagged, Entries
  <2>2. tlb[here] \in Entries \cup {None}
    BY <1>2
  <2>3. tlb'[here] = Tagged(tlb[here]) /\ \A k \in Lins \ {here} : tlb'[k] = tlb[k]
    BY <1>1, <1>2
  <2>4. tlb' \in [Lins -> Entries \cup {None}]
    BY <1>1, <1>2, <2>1, <2>2
  <2> QED
    BY <2>1, <2>2, <2>3, <2>4
<1>7. CacheTypeOK'
  <2>1. usage' \in 0 .. MaxTraces
    BY <1>1, CodeCacheAssumption DEF CacheTypeOK
  <2>2. hasCode' \in [Pages -> SUBSET Chunks]
    BY <1>1, <1>2, <1>4
  <2> QED
    BY <1>1, <1>5, <1>6, <2>1, <2>2 DEF CacheTypeOK
<1>8. Marks'
  <2>1. \A p \in Pages : hasCode[p] \subseteq hasCode'[p]
    BY <1>1, <1>2
  <2>2. span \subseteq hasCode'[codePage]
    BY <1>1, <1>2
  <2> QED
    BY <1>1, <1>4, <1>5, <2>1, <2>2 DEF Marks, CacheTypeOK, Traces
<1>9. Listed'
  BY <1>1, <1>6 DEF Listed, Valid
<1>10. CodeGuarded'
  BY <1>1, <1>5, <1>6 DEF CodeGuarded, Valid, CacheTypeOK, Traces
<1>11. CodeFresh'
  BY <1>1, <1>5 DEF CodeFresh
<1>12. MappingsFollowed'
  BY <1>1, <1>6 DEF MappingsFollowed, Valid
<1> QED
  BY <1>7, <1>8, <1>9, <1>10, <1>11, <1>12

LEMMA JumpKeeps == ASSUME NEW l \in Lins PROVE IInv /\ Jump(l) => IInv'
<1> SUFFICES ASSUME IInv, Jump(l) PROVE IInv'
  OBVIOUS
<1> USE DEF IInv
<1>1. UNCHANGED <<use, pt, tlb, indexes, hasCode, traces, usage, remapped>>
         /\ running' = None /\ here' = l
         /\ codePage' = IF l = here THEN codePage ELSE None
  BY DEF Jump
<1>2. CacheTypeOK'
  BY <1>1 DEF CacheTypeOK
<1>3. Marks' /\ Listed' /\ CodeGuarded' /\ CodeFresh'
  BY <1>1 DEF Marks, Listed, CodeGuarded, CodeFresh, Valid
<1>4. MappingsFollowed'
  BY <1>1 DEF MappingsFollowed, Valid
<1> QED
  BY <1>2, <1>3, <1>4

LEMMA InvlpgKeeps == ASSUME NEW l \in Lins PROVE IInv /\ Invlpg(l) => IInv'
<1> SUFFICES ASSUME IInv, Invlpg(l) PROVE IInv'
  OBVIOUS
<1> USE DEF IInv
<1>1. UNCHANGED <<use, pt, indexes, hasCode, traces, usage, here, codePage, running>>
         /\ tlb' = [tlb EXCEPT ![l] = None]
         /\ remapped' = IF l = here THEN remapped ELSE remapped \ {l}
  BY DEF Invlpg
<1>2. tlb' \in [Lins -> Entries \cup {None}] /\ tlb'[l] = None
         /\ \A k \in Lins \ {l} : tlb'[k] = tlb[k]
  BY <1>1 DEF CacheTypeOK
<1>3. CacheTypeOK'
  BY <1>1, <1>2 DEF CacheTypeOK
<1>4. Marks' /\ Listed' /\ CodeFresh'
  BY <1>1, <1>2 DEF Marks, Listed, CodeFresh, Valid
<1>5. CodeGuarded'
  BY <1>1, <1>2 DEF CodeGuarded, Valid, CacheTypeOK, Traces
<1>6. MappingsFollowed'
  BY <1>1, <1>2 DEF MappingsFollowed, Valid
<1> QED
  BY <1>3, <1>4, <1>5, <1>6

LEMMA ChangeMappingKeeps ==
  ASSUME NEW l \in Lins, NEW m \in use.mappings PROVE IInv /\ ChangeMapping(l, m) => IInv'
<1> SUFFICES ASSUME IInv, ChangeMapping(l, m) PROVE IInv'
  OBVIOUS
<1> USE DEF IInv
<1>1. UNCHANGED <<use, tlb, indexes, hasCode, traces, usage, here, codePage, running>>
         /\ pt' = [pt EXCEPT ![l] = m] /\ remapped' = remapped \cup {l}
  BY DEF ChangeMapping
<1>2. m \in Mappings
  BY CodeCacheAssumption DEF CacheTypeOK, Use, Mappings
<1>3. pt' \in [Lins -> Mappings] /\ \A k \in Lins \ {l} : pt'[k] = pt[k]
  BY <1>1, <1>2 DEF CacheTypeOK
<1>4. CacheTypeOK'
  BY <1>1, <1>3 DEF CacheTypeOK
<1>5. Marks' /\ Listed' /\ CodeGuarded' /\ CodeFresh'
  BY <1>1 DEF Marks, Listed, CodeGuarded, CodeFresh, Valid
<1>6. MappingsFollowed'
  BY <1>1, <1>3 DEF MappingsFollowed, Valid, CacheTypeOK
<1> QED
  BY <1>4, <1>5, <1>6

-----------------------------------------------------------------------------
(* Stores.  A store that does not look for code goes by a fast entry, which  *)
(* no cached trace was decoded through; one that looks takes away what it    *)
(* hits.                                                                     *)

LEMMA StoreFastKeeps ==
  ASSUME NEW l \in Lins, NEW c PROVE IInv /\ StoreFast(l, c) => IInv'
<1> SUFFICES ASSUME IInv, StoreFast(l, c) PROVE IInv'
  OBVIOUS
<1> USE DEF IInv
<1> DEFINE p == tlb[l].page
<1> DEFINE cause(t) == IF t \notin traces THEN "dropped" ELSE IF l = t.lin THEN "same" ELSE "alias"
<1>1. /\ UNCHANGED <<use, pt, tlb, indexes, hasCode, usage, here, codePage, remapped>>
      /\ running # None /\ Valid(l) /\ tlb[l].write = "fast"
      /\ traces' = {Marked(t, p, c, cause(t)) : t \in traces}
      /\ running' = Marked(running, p, c, cause(running))
  BY DEF StoreFast
<1>2. traces \subseteq Traces /\ running \in Traces
  BY <1>1 DEF CacheTypeOK
<1>3. ASSUME NEW t \in Traces
      PROVE  /\ Like(Marked(t, p, c, cause(t)), t)
             /\ \/ Marked(t, p, c, cause(t)).stale = t.stale
                \/ /\ Marked(t, p, c, cause(t)).stale = cause(t)
                   /\ t.page = p /\ c \in t.span
  <2>1. cause(t) \in Causes
    BY DEF Causes
  <2> QED
    BY <2>1, MarkedIs DEF Like
<1>4. ASSUME NEW t \in Traces, t.page = p PROVE cause(t) \notin {"same", "checked"}
  BY <1>1, <1>4 DEF CodeGuarded
<1>5. ASSUME NEW t \in traces \cup {running}
      PROVE  Marked(t, p, c, cause(t)).stale \notin {"same", "checked"}
  <2>1. t \in Traces /\ t.stale \notin {"same", "checked"}
    BY <1>1, <1>2 DEF CodeFresh
  <2> QED
    BY <2>1, <1>3, <1>4
<1>6. \A u \in traces' : \E t \in traces : Like(u, t)
  BY <1>1, <1>2, <1>3
<1>7. running' \in Traces
  BY <1>1, <1>2, <1>3 DEF Like
<1>8. traces' \subseteq Traces /\ Marks' /\ CodeGuarded'
  BY <1>1, <1>2, <1>6, LikeKept
<1>9. CodeFresh'
  BY <1>1, <1>5 DEF CodeFresh
<1>10. CacheTypeOK'
  BY <1>1, <1>7, <1>8 DEF CacheTypeOK
<1>11. Listed' /\ MappingsFollowed'
  BY <1>1 DEF Listed, MappingsFollowed, Valid
<1> QED
  BY <1>8, <1>9, <1>10, <1>11

\* The traces a store leaves have no byte in the chunk it writes to.
LEMMA NotHit ==
  ASSUME IInv, NEW p, NEW c \in Chunks, NEW t \in traces, t.page = p, c \in t.span
  PROVE  c \in hasCode[p] /\ t \in Invalidated(p, c)
<1>1. t.chunk \in t.span /\ t.span \subseteq hasCode[p] /\ t.chunk <= c
  BY DEF IInv, Marks
<1> QED
  BY <1>1 DEF Invalidated

\* Both branches of a store that looks for code.
LEMMA InvalidateKeeps ==
  ASSUME IInv, NEW p \in Pages, NEW c \in Chunks, running # None,
         NEW ends \in BOOLEAN, NEW written \in BOOLEAN, Invalidate(p, c, ends, written)
  PROVE  /\ traces' \subseteq Traces /\ running' \in Traces \cup {None}
         /\ hasCode' \in [Pages -> SUBSET Chunks]
         /\ \A u \in traces' : \E t \in traces : Like(u, t)
         /\ Marks' /\ CodeFresh'
<1> DEFINE gone == Invalidated(p, c)
           cause == CASE running \notin traces -> "dropped"
                      [] running \in gone -> "ahead"
                      [] OTHER -> "checked"
<1>1. /\ traces' = {Marked(t, p, c, "checked") : t \in traces \ gone}
      /\ hasCode' = [hasCode EXCEPT ![p] = {x \in @ : x > c}]
      /\ running' = None \/ running' = running \/ running' = Marked(running, p, c, cause)
  BY DEF Invalidate
<1>2. traces \subseteq Traces /\ running \in Traces /\ hasCode \in [Pages -> SUBSET Chunks]
  BY DEF IInv, CacheTypeOK
<1>3. hasCode' \in [Pages -> SUBSET Chunks] /\ hasCode'[p] = {x \in hasCode[p] : x > c}
         /\ \A q \in Pages \ {p} : hasCode'[q] = hasCode[q]
  BY <1>1, <1>2
<1>4. ASSUME NEW t \in traces \ gone
      PROVE  /\ Like(Marked(t, p, c, "checked"), t)
             /\ Marked(t, p, c, "checked").stale = t.stale
  <2>1. t \in Traces /\ ~(t.page = p /\ c \in t.span)
    BY <1>2, NotHit
  <2>2. "checked" \in Causes
    BY DEF Causes
  <2> QED
    BY <2>1, <2>2, MarkedIs DEF Like
<1>5. \A u \in traces' : \E t \in traces \ gone : Like(u, t) /\ u.stale = t.stale
  BY <1>1, <1>4
<1>6. ASSUME NEW t \in traces \ gone PROVE t.span \subseteq hasCode'[t.page]
  <2>1. t.span \subseteq hasCode[t.page] /\ t.chunk \in t.span /\ t.page \in Pages
           /\ t.chunk \in Nat /\ \A x \in t.span : x \in Nat /\ t.chunk <= x
    BY <1>2 DEF IInv, Marks, Traces, Chunks
  <2>2. CASE t.page = p
    <3>1. t.chunk > c
      BY <2>1, <2>2, <1>2 DEF Invalidated, Chunks
    <3> QED
      BY <1>3, <2>1, <2>2, <3>1 DEF Chunks
  <2> QED
    BY <1>3, <2>1, <2>2
<1>7. Marks'
  BY <1>5, <1>6 DEF IInv, Marks, Like
<1>8. cause \in Causes
  BY DEF Causes
<1>9. running' = None \/ (running' \in Traces /\ running'.stale \notin {"same", "checked"})
  <2>1. running.stale \notin {"same", "checked"}
    BY DEF IInv, CodeFresh
  <2>2. ASSUME cause = "checked" PROVE ~(running.page = p /\ c \in running.span)
    <3>1. running \in traces /\ running \notin gone
      BY <2>2
    <3> QED
      BY <3>1, NotHit
  <2>3. cause # "same"
    OBVIOUS
  <2> HIDE DEF cause
  <2>4. /\ Marked(running, p, c, cause) \in Traces
        /\ \/ Marked(running, p, c, cause).stale = running.stale
           \/ Marked(running, p, c, cause).stale = cause /\ running.page = p /\ c \in running.span
    BY <1>2, <1>8, MarkedIs
  <2> QED
    BY <1>1, <1>2, <2>1, <2>2, <2>3, <2>4
<1>10. CodeFresh'
  BY <1>5, <1>9 DEF IInv, CodeFresh
<1>11. traces' \subseteq Traces
  BY <1>5 DEF Like
<1> QED
  BY <1>3, <1>5, <1>7, <1>9, <1>10, <1>11

LEMMA NoInvalidationKeeps ==
  ASSUME IInv, NEW p \in Pages, NEW c \in Chunks, running # None,
         c \notin hasCode[p], NoInvalidation(p, c)
  PROVE  /\ traces' \subseteq Traces /\ running' \in Traces \cup {None}
         /\ hasCode' = hasCode
         /\ \A u \in traces' : \E t \in traces : Like(u, t)
         /\ CodeFresh'
<1> DEFINE cause == IF running \in traces THEN "checked" ELSE "dropped"
<1>1. /\ traces' = {Marked(t, p, c, "checked") : t \in traces}
      /\ running' = Marked(running, p, c, cause) /\ hasCode' = hasCode
  BY DEF NoInvalidation
<1>2. traces \subseteq Traces /\ running \in Traces
  BY DEF IInv, CacheTypeOK
<1>3. "checked" \in Causes /\ cause \in Causes
  BY DEF Causes
<1>4. running \notin traces => cause = "dropped"
  OBVIOUS
<1> HIDE DEF cause
<1>5. ASSUME NEW t \in traces PROVE ~(t.page = p /\ c \in t.span)
  BY NotHit
<1>6. ASSUME NEW t \in traces
      PROVE  /\ Like(Marked(t, p, c, "checked"), t)
             /\ Marked(t, p, c, "checked").stale = t.stale
  BY <1>2, <1>3, <1>5, MarkedIs DEF Like
<1>7. \A u \in traces' : \E t \in traces : Like(u, t) /\ u.stale = t.stale
  BY <1>1, <1>6
<1>8. running' \in Traces /\ running'.stale \notin {"same", "checked"}
  <2>1. /\ running' \in Traces
        /\ \/ running'.stale = running.stale
           \/ running'.stale = cause /\ running.page = p /\ c \in running.span
    BY <1>1, <1>2, <1>3, MarkedIs
  <2>2. running.stale \notin {"same", "checked"}
    BY DEF IInv, CodeFresh
  <2> QED
    BY <1>4, <1>5, <2>1, <2>2
<1>9. CodeFresh'
  BY <1>7, <1>8 DEF IInv, CodeFresh
<1>10. traces' \subseteq Traces
  BY <1>7 DEF Like
<1> QED
  BY <1>1, <1>7, <1>8, <1>9, <1>10

LEMMA StoreSlowKeeps ==
  ASSUME NEW l \in Lins, NEW c \in use.chunks PROVE IInv /\ StoreSlow(l, c) => IInv'
<1> SUFFICES ASSUME IInv, StoreSlow(l, c) PROVE IInv'
  OBVIOUS
<1> DEFINE p == tlb[l].page
<1>1. /\ UNCHANGED <<use, pt, indexes, usage, here, codePage, remapped>>
      /\ running # None /\ Valid(l)
  BY DEF StoreSlow
<1>2. p \in Pages /\ c \in Chunks /\ tlb \in [Lins -> Entries \cup {None}]
  BY <1>1, CodeCacheAssumption DEF IInv, CacheTypeOK, Valid, Entries, Use
<1>3. /\ traces' \subseteq Traces /\ running' \in Traces \cup {None}
      /\ hasCode' \in [Pages -> SUBSET Chunks]
      /\ \A u \in traces' : \E t \in traces : Like(u, t)
      /\ Marks' /\ CodeFresh'
      /\ tlb' = tlb \/ tlb' = [tlb EXCEPT ![l] = None]
  <2>1. CASE c \in hasCode[p]
    <3>1. PICK ends \in BOOLEAN, written \in BOOLEAN : Invalidate(p, c, ends, written)
      BY <2>1 DEF StoreSlow
    <3>2. tlb' = tlb \/ tlb' = [tlb EXCEPT ![l] = None]
      BY <2>1 DEF StoreSlow
    <3> HIDE DEF p
    <3> QED
      BY <1>1, <1>2, <3>1, <3>2, InvalidateKeeps
  <2>2. CASE c \notin hasCode[p]
    <3>1. NoInvalidation(p, c) /\ tlb' = tlb
      BY <2>2 DEF StoreSlow
    <3> HIDE DEF p
    <3>2. /\ traces' \subseteq Traces /\ running' \in Traces \cup {None}
          /\ hasCode' = hasCode /\ CodeFresh'
          /\ \A u \in traces' : \E t \in traces : Like(u, t)
      BY <1>1, <1>2, <2>2, <3>1, NoInvalidationKeeps
    <3>3. Marks'
      BY <3>2, LikeKept DEF IInv, CacheTypeOK
    <3> QED
      BY <3>1, <3>2, <3>3 DEF IInv, CacheTypeOK
  <2> QED
    BY <2>1, <2>2
<1> HIDE DEF p
<1>4. tlb' \in [Lins -> Entries \cup {None}] /\ \A k \in Lins : tlb'[k] = None \/ tlb'[k] = tlb[k]
  BY <1>2, <1>3
<1> USE DEF IInv
<1>5. CacheTypeOK'
  BY <1>1, <1>3, <1>4 DEF CacheTypeOK
<1>6. CodeGuarded'
  BY <1>3, <1>4 DEF CodeGuarded, Valid, Like, Traces
<1>7. Listed' /\ MappingsFollowed'
  BY <1>1, <1>4 DEF Listed, MappingsFollowed, Valid
<1> QED
  BY <1>3, <1>5, <1>6, <1>7

\* What devices write makes traces stale for causes of its own: the others of
\* the page are gone.
LEMMA IdeWritesKeeps ==
  ASSUME NEW p \in Pages, NEW q \in Pages, NEW c PROVE IInv /\ IdeWrites(p, q, c) => IInv'
<1> SUFFICES ASSUME IInv, IdeWrites(p, q, c) PROVE IInv'
  OBVIOUS
<1> USE DEF IInv
<1> DEFINE kept == {t \in traces : t.page = p => t.chunk = LastChunk \/ t.chunk \notin hasCode[p]}
           cause(t) == IF p # q THEN "crossing"
                       ELSE IF t.chunk = LastChunk THEN "lastChunk" ELSE "checked"
<1>1. /\ UNCHANGED <<use, pt, tlb, indexes, hasCode, usage, here, codePage, remapped>>
      /\ traces' = {Marked(t, q, c, cause(t)) : t \in kept} /\ running' = None
  BY DEF IdeWrites
<1>2. ASSUME NEW t \in kept
      PROVE  /\ Like(Marked(t, q, c, cause(t)), t)
             /\ Marked(t, q, c, cause(t)).stale \notin {"same", "checked"}
  <2>1. t \in Traces /\ cause(t) \in Causes /\ t.stale \notin {"same", "checked"}
    BY DEF CacheTypeOK, Causes, CodeFresh
  <2>2. t.page = q => cause(t) \notin {"same", "checked"}
    BY DEF Marks
  <2> HIDE DEF cause
  <2> QED
    BY <2>1, <2>2, MarkedIs DEF Like
<1>3. \A u \in traces' : \E t \in traces : Like(u, t)
  BY <1>1, <1>2
<1>4. traces' \subseteq Traces /\ Marks' /\ CodeGuarded'
  BY <1>1, <1>3, LikeKept DEF CacheTypeOK
<1>5. CodeFresh'
  BY <1>1, <1>2 DEF CodeFresh
<1>6. CacheTypeOK'
  BY <1>1, <1>4 DEF CacheTypeOK
<1>7. Listed' /\ MappingsFollowed'
  BY <1>1 DEF Listed, MappingsFollowed, Valid
<1> QED
  BY <1>4, <1>5, <1>6, <1>7

LEMMA IsaWritesKeeps ==
  ASSUME NEW p \in Pages, NEW c PROVE IInv /\ IsaWrites(p, c) => IInv'
<1> SUFFICES ASSUME IInv, IsaWrites(p, c) PROVE IInv'
  OBVIOUS
<1> USE DEF IInv
<1>1. /\ UNCHANGED <<use, pt, tlb, indexes, hasCode, usage, here, codePage, remapped>>
      /\ traces' = {Marked(t, p, c, "isa") : t \in traces}
      /\ running' = IF running = None THEN None ELSE Marked(running, p, c, "isa")
  BY DEF IsaWrites
<1>2. ASSUME NEW t \in Traces, t.stale \notin {"same", "checked"}
      PROVE  /\ Like(Marked(t, p, c, "isa"), t)
             /\ Marked(t, p, c, "isa").stale \notin {"same", "checked"}
  <2>1. "isa" \in Causes
    BY DEF Causes
  <2> QED
    BY <1>2, <2>1, MarkedIs DEF Like
<1>3. /\ \A t \in traces : t \in Traces /\ t.stale \notin {"same", "checked"}
      /\ running # None => running \in Traces /\ running.stale \notin {"same", "checked"}
  BY DEF CacheTypeOK, CodeFresh
<1>4. \A u \in traces' : \E t \in traces : Like(u, t)
  BY <1>1, <1>2, <1>3
<1>5. traces' \subseteq Traces /\ Marks' /\ CodeGuarded'
  BY <1>1, <1>4, LikeKept DEF CacheTypeOK
<1>6. running' \in Traces \cup {None}
  BY <1>1, <1>2, <1>3 DEF Like
<1>7. CodeFresh'
  BY <1>1, <1>2, <1>3 DEF CodeFresh
<1>8. CacheTypeOK'
  BY <1>1, <1>5, <1>6 DEF CacheTypeOK
<1>9. Listed' /\ MappingsFollowed'
  BY <1>1 DEF Listed, MappingsFollowed, Valid
<1> QED
  BY <1>5, <1>7, <1>8, <1>9

LEMMA StutterKeeps == IInv /\ UNCHANGED cacheVars => IInv'
  BY DEF IInv, CacheTypeOK, Marks, Listed, CodeGuarded, CodeFresh,
     MappingsFollowed, Valid, cacheVars

LEMMA StepKeeps == IInv /\ [CacheNext]_cacheVars => IInv'
<1> SUFFICES ASSUME IInv, [CacheNext]_cacheVars PROVE IInv'
  OBVIOUS
<1>1. CASE Locate
  BY <1>1, LocateKeeps
<1>2. CASE MovCr3
  BY <1>2, MovCr3Keeps
<1>3. ASSUME NEW c \in use.chunks, Hit(c) PROVE IInv'
  BY <1>3, HitKeeps
<1>4. ASSUME NEW c \in use.chunks, NEW s \in Spans(c), Miss(c, s) PROVE IInv'
  BY <1>4, MissKeeps
<1>5. ASSUME NEW l \in Lins, Jump(l) \/ StoreFill(l) \/ Invlpg(l) PROVE IInv'
  BY <1>5, JumpKeeps, StoreFillKeeps, InvlpgKeeps
<1>6. ASSUME NEW l \in Lins, NEW c \in use.chunks, StoreFast(l, c) \/ StoreSlow(l, c) PROVE IInv'
  BY <1>6, StoreFastKeeps, StoreSlowKeeps
<1>7. ASSUME NEW p \in Pages, NEW c \in use.chunks, IsaWrites(p, c) PROVE IInv'
  BY <1>7, IsaWritesKeeps
<1>8. ASSUME NEW p \in Pages, NEW q \in Pages, NEW c \in use.chunks, IdeWrites(p, q, c) PROVE IInv'
  BY <1>8, IdeWritesKeeps
<1>9. ASSUME NEW l \in Lins, NEW m \in use.mappings, ChangeMapping(l, m) PROVE IInv'
  BY <1>9, ChangeMappingKeeps
<1>10. CASE UNCHANGED cacheVars
  BY <1>10, StutterKeeps
<1> QED
  BY <1>1, <1>2, <1>3, <1>4, <1>5, <1>6, <1>7, <1>8, <1>9, <1>10 DEF CacheNext

LEMMA Invariant == CacheSpec => []IInv
  BY Initially, StepKeeps, PTL DEF CacheSpec

-----------------------------------------------------------------------------
\* The TLB, its list of entries and the trace cache keep to their sizes and
\* types: a full one is flushed before an entry is made.
THEOREM TypeCorrect == CacheSpec => []CacheTypeOK
<1>1. IInv => CacheTypeOK
  BY DEF IInv
<1> QED
  BY <1>1, Invariant, PTL

\* No entry lets a store reach the code of a cached trace by the linear page it
\* was decoded through without cpu_smc_invalidate().
THEOREM StoresLook == CacheSpec => []CodeGuarded
<1>1. IInv => CodeGuarded
  BY DEF IInv
<1> QED
  BY <1>1, Invariant, PTL

\* Self-modifying code is noticed, but for the stores and transfers the causes
\* name: a trace that is cached or runs is not changed by a store through its
\* own linear page, nor by one that looks for code.
THEOREM OthersNoticed == CacheSpec => []CodeFresh
<1>1. IInv => CodeFresh
  BY DEF IInv
<1> QED
  BY <1>1, Invariant, PTL

\* The TLB and the page of EIP follow the page table once a change of it has
\* been flushed.
THEOREM FlushesSuffice == CacheSpec => []MappingsFollowed
<1>1. IInv => MappingsFollowed
  BY DEF IInv
<1> QED
  BY <1>1, Invariant, PTL

(***************************************************************************)
(* The instructions (Instr). What a handler's list of effects has to be    *)
(* for its exceptions to be precise: this is a condition on the list       *)
(* alone, and is looked at handler by handler. The rest of the argument is *)
(* about the execution of any list that meets it.                          *)
(***************************************************************************)

\* An access before the effect i of E has got the translation effect i asks for.
Settled(E, i) ==
  /\ E[i].as \in {"r", "w"}
  /\ \E j \in 1 .. i - 1 : /\ E[j].do \in Accesses /\ E[j].as \in {"w", E[i].as}
                           /\ E[j].onFault = "stop" /\ E[j].at = E[i].at

\* The effect i of E may end the instruction with an exception.
CanStop(E, i) ==
  /\ E[i].onFault = "stop"
  /\ E[i].do = "check" \/ (E[i].do \in Accesses /\ ~Settled(E, i))

\* The effect j changes a register, and it is not restored before the effect i.
LeftSet(E, i, j) ==
  /\ E[j].do = "set"
  /\ \A k \in j + 1 .. i - 1 : ~(E[k].do = "restore" /\ E[k].at = E[j].at)

SetsTr(e) == e.do = "set" /\ e.at = "tr"

\* A sequence.
Sized(E) == Len(E) \in Nat /\ DOMAIN E = 1 .. Len(E)

\* An iteration begins at an effect that is not after its end.  TR is loaded once.
Loops(E) ==
  \A i \in DOMAIN E :
    /\ E[i].do = "again" => E[i].at \in 1 .. i /\ \A j \in DOMAIN E : ~SetsTr(E[j])
    /\ E[i].do = "restore" => E[i].at # "tr"

\* A store asks for a translation for writing.
Checks(o, E) ==
  \A i \in DOMAIN E :
    E[i].do = "store" /\ o \notin {"stmxcsr", "xchg_e8"} => E[i].as = "w"

\* What drops the result of an access has made sure of it before.
Ends(o, E) ==
  \A i \in DOMAIN E :
    E[i].onFault # "stop" /\ o \notin RunsOn => E[i].do \in Accesses /\ Settled(E, i)

\* Where the instruction may end, it has changed what Imprecise names, or TR.
Ordered(o, E) ==
  \A i \in DOMAIN E : CanStop(E, i) =>
    \/ \A j \in 1 .. i - 1 : LeftSet(E, i, j) => E[j].at \in Imprecise(o)
    \/ \E j \in 1 .. i - 1 : SetsTr(E[j])

\* Where it may end, or after the first half of a store that ends it, it has
\* stored to nothing it loads.  xchg_e8 is one byte, and has no halves.
Untorn(o, E) ==
  \A i \in DOMAIN E : \A j \in 1 .. i :
    CanStop(E, i) /\ E[j].do = "store" /\ E[j].at # "desc" /\ (o = "xchg_e8" => j < i)
      => \A k \in DOMAIN E : ~(E[k].do = "load" /\ E[k].at = E[j].at)

Good(o, E) == Loops(E) /\ Checks(o, E) /\ Ends(o, E) /\ Ordered(o, E) /\ Untorn(o, E)

TableSized(t) == \A o \in DOMAIN t : Sized(t[o])

\* The set is there for the provers: they need not look into t[o].
HandlerGood(t, o) == \A E \in {t[o]} : Good(o, E)
TableGood(t) == \A o \in DOMAIN t : HandlerGood(t, o)

-----------------------------------------------------------------------------
(* The tables.                                                               *)

USE DEF Accesses, SetsTr, Effect, Ld, LdProbe, LdRaw, St, StAsRead, StRaw, VerifyRead, Verify,
        Chk, Up, Undo, Again, Dropped, Aborts, PushAt, Push, Pop, SegLoadProtected, SegLoad,
        SegLoadReal, IoCheck, RegFromMem, Rmw, CsLoadReal, CsLoad, Selector, Gate, InnerStack,
        FarPush, FarPop, TaskSave, TaskLoad, TaskSegments, TaskSwitch, CheckSse, CheckMmx,
        SseIn, MmxIn

LEMMA FpuRows == \A o \in DOMAIN FpuOps : o \in DOMAIN FpuForm /\ FpuOps[o] = FpuForm[o]
BY DEF FpuOps, Chosen, FpuForm, FpuArith, FpuConstantsAndTranscendentals, FpuRemainderAndMove,
       FpuCompareAndStore, FpuMemArith, FpuMemStore, FpuMemInteger, FpuContext

LEMMA SimdRows == \A o \in DOMAIN SimdOps : o \in DOMAIN SimdForm /\ SimdOps[o] = SimdForm[o]
BY DEF SimdOps, Chosen, SimdForm, Execute0F10, Execute0F28, Execute0F50, Execute0F58,
       Execute0F60, Execute0F68, Execute0F70, Execute0F7C, Execute0F7E, Execute0FC2,
       Execute0FD0, Execute0FD8, Execute0FE0, Execute0FE8, Execute0FF1, Execute0FF8,
       Execute0F38, Emms

LEMMA TablesSized == \A t \in Tables : TableSized(t)
<1> USE DEF TableSized, Sized
<1>1. TableSized(NearJumpOps)
  BY SMTT(30) DEF NearJumpOps
<1>2. TableSized(LoopOps)
  BY SMTT(30) DEF LoopOps
<1>3. TableSized(JccOps)
  BY SMTT(30) DEF JccOps
<1>4. TableSized(CallRetOps)
  BY SMTT(30) DEF CallRetOps
<1>5. TableSized(StackOps)
  BY SMTT(30) DEF StackOps
<1>6. TableSized(PushaOps)
  BY SMTT(30) DEF PushaOps
<1>7. TableSized(ArithOps)
  BY SMTT(30) DEF ArithOps
<1>8. TableSized(CmpOps)
  BY SMTT(30) DEF CmpOps
<1>9. TableSized(TestOps)
  BY SMTT(30) DEF TestOps
<1>10. TableSized(IncDecOps)
  BY SMTT(30) DEF IncDecOps
<1>11. TableSized(MulDivOps)
  BY SMTT(30) DEF MulDivOps
<1>12. TableSized(ShiftdOps)
  BY SMTT(30) DEF ShiftdOps
<1>13. TableSized(IoOps)
  BY SMTT(30) DEF IoOps
<1>14. TableSized(MovOps)
  BY SMTT(30) DEF MovOps
<1>15. TableSized(MoffsCmovOps)
  BY SMTT(30) DEF MoffsCmovOps
<1>16. TableSized(LoadFarOps)
  BY SMTT(30) DEF LoadFarOps
<1>17. TableSized(XchgOps)
  BY SMTT(30) DEF XchgOps
<1>18. TableSized(CmpxchgOps)
  BY SMTT(30) DEF CmpxchgOps
<1>19. TableSized(BcdOps)
  BY SMTT(30) DEF BcdOps
<1>20. TableSized(BitOps)
  BY SMTT(30) DEF BitOps
<1>21. TableSized(SystemOps)
  BY SMTT(30) DEF SystemOps
<1>22. TableSized(FrameOps)
  BY SMTT(30) DEF FrameOps
<1>23. TableSized(TableOps)
  BY SMTT(30) DEF TableOps
<1>24. TableSized(ControlRegOps)
  BY SMTT(30) DEF ControlRegOps
<1>25. TableSized(VerifyOps)
  BY SMTT(30) DEF VerifyOps
<1>26. TableSized(ExtendOps)
  BY SMTT(30) DEF ExtendOps
<1>27. TableSized(MxcsrOps)
  BY SMTT(30) DEF MxcsrOps
<1>28. TableSized(FlagOps)
  BY SMTT(30) DEF FlagOps
<1>29. TableSized(MovsOps)
  BY SMTT(30) DEF MovsOps
<1>30. TableSized(StosOps)
  BY SMTT(30) DEF StosOps
<1>31. TableSized(ScasOps)
  BY SMTT(30) DEF ScasOps
<1>32. TableSized(InsOps)
  BY SMTT(30) DEF InsOps
<1>33. TableSized(OutsOps)
  BY SMTT(30) DEF OutsOps
<1>34. TableSized(CmpsOps)
  BY SMTT(30) DEF CmpsOps
<1>35. TableSized(LodsOps)
  BY SMTT(30) DEF LodsOps
<1>36. TableSized(JmpfOps)
  BY SMTT(30) DEF JmpfOps
<1>37. TableSized(CallfOps)
  BY SMTT(30) DEF CallfOps
<1>38. TableSized(RetfOps)
  BY SMTT(30) DEF RetfOps
<1>39. TableSized(IretOps)
  BY SMTT(30) DEF IretOps
<1>40. TableSized(IretOuterOps)
  BY SMTT(30) DEF IretOuterOps
<1>41. TableSized(IntOps)
  BY SMTT(30) DEF IntOps
<1>42. TableSized(IntInnerOps)
  BY SMTT(30) DEF IntInnerOps
<1>43. TableSized(TaskOps)
  BY SMTT(30) DEF TaskOps
<1>44. TableSized(SysenterOps)
  BY SMTT(30) DEF SysenterOps
<1>45. TableSized(FpuOps)
  <2>1. TableSized(FpuForm)
    BY SMTT(30) DEF FpuForm
  <2> HIDE DEF Sized
  <2> QED BY <2>1, FpuRows
<1>46. TableSized(SimdOps)
  <2>1. TableSized(SimdForm)
    BY SMTT(30) DEF SimdForm
  <2> HIDE DEF Sized
  <2> QED BY <2>1, SimdRows
<1> HIDE DEF TableSized
<1> QED
  BY <1>1, <1>2, <1>3, <1>4, <1>5, <1>6, <1>7, <1>8, <1>9, <1>10, <1>11, <1>12, <1>13,
     <1>14, <1>15, <1>16, <1>17, <1>18, <1>19, <1>20, <1>21, <1>22, <1>23, <1>24, <1>25,
     <1>26, <1>27, <1>28, <1>29, <1>30, <1>31, <1>32, <1>33, <1>34, <1>35, <1>36, <1>37,
     <1>38, <1>39, <1>40, <1>41, <1>42, <1>43, <1>44, <1>45, <1>46 DEF Tables

LEMMA TablesGood == \A t \in Tables : TableGood(t)
<1> USE DEF HandlerGood, Good, Loops, Checks, Ends, Ordered, Untorn, CanStop, Settled,
            LeftSet, Imprecise, RunsOn
<1>1. TableGood(NearJumpOps)
  BY SMTT(60) DEF NearJumpOps, TableGood
<1>2. TableGood(LoopOps)
  BY SMTT(60) DEF LoopOps, TableGood
<1>3. TableGood(JccOps)
  BY SMTT(60) DEF JccOps, TableGood
<1>4. TableGood(CallRetOps)
  BY SMTT(60) DEF CallRetOps, TableGood
<1>5. TableGood(StackOps)
  <2>1. HandlerGood(StackOps, "pop_r")
    BY SMTT(60) DEF StackOps
  <2>2. HandlerGood(StackOps, "pop_e")
    BY SMTT(60) DEF StackOps
  <2>3. HandlerGood(StackOps, "push_s")
    BY SMTT(60) DEF StackOps
  <2>4. HandlerGood(StackOps, "pop_s")
    BY SMTT(60) DEF StackOps
  <2>5. HandlerGood(StackOps, "pop_s_real")
    BY SMTT(60) DEF StackOps
  <2>6. DOMAIN StackOps = {"pop_r", "pop_e", "push_s", "pop_s", "pop_s_real"}
    BY DEF StackOps
  <2> HIDE DEF HandlerGood
  <2> QED BY <2>1, <2>2, <2>3, <2>4, <2>5, <2>6 DEF TableGood
<1>6. TableGood(PushaOps)
  BY SMTT(60) DEF PushaOps, TableGood
<1>7. TableGood(ArithOps)
  BY SMTT(60) DEF ArithOps, TableGood
<1>8. TableGood(CmpOps)
  BY SMTT(60) DEF CmpOps, TableGood
<1>9. TableGood(TestOps)
  BY SMTT(60) DEF TestOps, TableGood
<1>10. TableGood(IncDecOps)
  BY SMTT(60) DEF IncDecOps, TableGood
<1>11. TableGood(MulDivOps)
  BY SMTT(60) DEF MulDivOps, TableGood
<1>12. TableGood(ShiftdOps)
  BY SMTT(60) DEF ShiftdOps, TableGood
<1>13. TableGood(IoOps)
  BY SMTT(60) DEF IoOps, TableGood
<1>14. TableGood(MovOps)
  BY SMTT(60) DEF MovOps, TableGood
<1>15. TableGood(MoffsCmovOps)
  BY SMTT(60) DEF MoffsCmovOps, TableGood
<1>16. TableGood(LoadFarOps)
  BY SMTT(60) DEF LoadFarOps, TableGood
<1>17. TableGood(XchgOps)
  BY SMTT(60) DEF XchgOps, TableGood
<1>18. TableGood(CmpxchgOps)
  <2>1. HandlerGood(CmpxchgOps, "cmpxchg_e")
    BY SMTT(60) DEF CmpxchgOps
  <2>2. HandlerGood(CmpxchgOps, "cmpxchg8b_equal")
    BY SMTT(60) DEF CmpxchgOps
  <2>3. HandlerGood(CmpxchgOps, "cmpxchg8b_not")
    BY SMTT(60) DEF CmpxchgOps
  <2>4. HandlerGood(CmpxchgOps, "xadd_e")
    BY SMTT(60) DEF CmpxchgOps
  <2>5. HandlerGood(CmpxchgOps, "bound")
    BY SMTT(60) DEF CmpxchgOps
  <2>6. DOMAIN CmpxchgOps = {"cmpxchg_e", "cmpxchg8b_equal", "cmpxchg8b_not", "xadd_e",
      "bound"}
    BY DEF CmpxchgOps
  <2> HIDE DEF HandlerGood
  <2> QED BY <2>1, <2>2, <2>3, <2>4, <2>5, <2>6 DEF TableGood
<1>19. TableGood(BcdOps)
  BY SMTT(60) DEF BcdOps, TableGood
<1>20. TableGood(BitOps)
  BY SMTT(60) DEF BitOps, TableGood
<1>21. TableGood(SystemOps)
  BY SMTT(60) DEF SystemOps, TableGood
<1>22. TableGood(FrameOps)
  BY SMTT(60) DEF FrameOps, TableGood
<1>23. TableGood(TableOps)
  BY SMTT(60) DEF TableOps, TableGood
<1>24. TableGood(ControlRegOps)
  <2>1. HandlerGood(ControlRegOps, "invlpg")
    BY SMTT(60) DEF ControlRegOps
  <2>2. HandlerGood(ControlRegOps, "mov_cr")
    BY SMTT(60) DEF ControlRegOps
  <2>3. HandlerGood(ControlRegOps, "mov_r_cr")
    BY SMTT(60) DEF ControlRegOps
  <2>4. HandlerGood(ControlRegOps, "mov_dr")
    BY SMTT(60) DEF ControlRegOps
  <2>5. HandlerGood(ControlRegOps, "ltr")
    BY SMTT(60) DEF ControlRegOps
  <2>6. HandlerGood(ControlRegOps, "lldt")
    BY SMTT(60) DEF ControlRegOps
  <2>7. DOMAIN ControlRegOps = {"invlpg", "mov_cr", "mov_r_cr", "mov_dr", "ltr", "lldt"}
    BY DEF ControlRegOps
  <2> HIDE DEF HandlerGood
  <2> QED BY <2>1, <2>2, <2>3, <2>4, <2>5, <2>6, <2>7 DEF TableGood
<1>25. TableGood(VerifyOps)
  BY SMTT(60) DEF VerifyOps, TableGood
<1>26. TableGood(ExtendOps)
  BY SMTT(60) DEF ExtendOps, TableGood
<1>27. TableGood(MxcsrOps)
  BY SMTT(60) DEF MxcsrOps, TableGood
<1>28. TableGood(FlagOps)
  BY SMTT(60) DEF FlagOps, TableGood
<1>29. TableGood(MovsOps)
  BY SMTT(60) DEF MovsOps, TableGood
<1>30. TableGood(StosOps)
  BY SMTT(60) DEF StosOps, TableGood
<1>31. TableGood(ScasOps)
  BY SMTT(60) DEF ScasOps, TableGood
<1>32. TableGood(InsOps)
  <2>1. HandlerGood(InsOps, "ins")
    BY SMTT(60) DEF InsOps
  <2>2. HandlerGood(InsOps, "rep_ins")
    BY SMTT(60) DEF InsOps
  <2>3. DOMAIN InsOps = {"ins", "rep_ins"}
    BY DEF InsOps
  <2> HIDE DEF HandlerGood
  <2> QED BY <2>1, <2>2, <2>3 DEF TableGood
<1>33. TableGood(OutsOps)
  <2>1. HandlerGood(OutsOps, "outs")
    BY SMTT(60) DEF OutsOps
  <2>2. HandlerGood(OutsOps, "rep_outs")
    BY SMTT(60) DEF OutsOps
  <2>3. DOMAIN OutsOps = {"outs", "rep_outs"}
    BY DEF OutsOps
  <2> HIDE DEF HandlerGood
  <2> QED BY <2>1, <2>2, <2>3 DEF TableGood
<1>34. TableGood(CmpsOps)
  BY SMTT(60) DEF CmpsOps, TableGood
<1>35. TableGood(LodsOps)
  BY SMTT(60) DEF LodsOps, TableGood
<1>36. TableGood(JmpfOps)
  <2>1. HandlerGood(JmpfOps, "jmpf_real")
    BY SMTT(60) DEF JmpfOps
  <2>2. HandlerGood(JmpfOps, "jmpf")
    BY SMTT(60) DEF JmpfOps
  <2>3. HandlerGood(JmpfOps, "jmpf_gate")
    BY SMTT(60) DEF JmpfOps
  <2>4. DOMAIN JmpfOps = {"jmpf_real", "jmpf", "jmpf_gate"}
    BY DEF JmpfOps
  <2> HIDE DEF HandlerGood
  <2> QED BY <2>1, <2>2, <2>3, <2>4 DEF TableGood
<1>37. TableGood(CallfOps)
  <2>1. HandlerGood(CallfOps, "callf_real")
    BY SMTT(60) DEF CallfOps
  <2>2. HandlerGood(CallfOps, "callf")
    BY SMTT(60) DEF CallfOps
  <2>3. HandlerGood(CallfOps, "callf_gate")
    BY SMTT(60) DEF CallfOps
  <2>4. HandlerGood(CallfOps, "callf_inner")
    BY SMTT(60) DEF CallfOps
  <2>5. DOMAIN CallfOps = {"callf_real", "callf", "callf_gate", "callf_inner"}
    BY DEF CallfOps
  <2> HIDE DEF HandlerGood
  <2> QED BY <2>1, <2>2, <2>3, <2>4, <2>5 DEF TableGood
<1>38. TableGood(RetfOps)
  <2>1. HandlerGood(RetfOps, "retf_real")
    BY SMTT(60) DEF RetfOps
  <2>2. HandlerGood(RetfOps, "retf")
    BY SMTT(60) DEF RetfOps
  <2>3. HandlerGood(RetfOps, "retf_outer")
    BY SMTT(60) DEF RetfOps
  <2>4. DOMAIN RetfOps = {"retf_real", "retf", "retf_outer"}
    BY DEF RetfOps
  <2> HIDE DEF HandlerGood
  <2> QED BY <2>1, <2>2, <2>3, <2>4 DEF TableGood
<1>39. TableGood(IretOps)
  <2>1. HandlerGood(IretOps, "iret_real")
    BY SMTT(60) DEF IretOps
  <2>2. HandlerGood(IretOps, "iret_vme")
    BY SMTT(60) DEF IretOps
  <2>3. HandlerGood(IretOps, "iret_to_v86")
    BY SMTT(60) DEF IretOps
  <2>4. HandlerGood(IretOps, "iret")
    BY SMTT(60) DEF IretOps
  <2>5. DOMAIN IretOps = {"iret_real", "iret_vme", "iret_to_v86", "iret"}
    BY DEF IretOps
  <2> HIDE DEF HandlerGood
  <2> QED BY <2>1, <2>2, <2>3, <2>4, <2>5 DEF TableGood
<1>40. TableGood(IretOuterOps)
  <2>1. HandlerGood(IretOuterOps, "iret_outer")
    BY SMTT(60) DEF IretOuterOps
  <2>2. DOMAIN IretOuterOps = {"iret_outer"}
    BY DEF IretOuterOps
  <2> HIDE DEF HandlerGood
  <2> QED BY <2>1, <2>2 DEF TableGood
<1>41. TableGood(IntOps)
  <2>1. HandlerGood(IntOps, "int_real")
    BY SMTT(60) DEF IntOps
  <2>2. HandlerGood(IntOps, "int_vme")
    BY SMTT(60) DEF IntOps
  <2>3. HandlerGood(IntOps, "int")
    BY SMTT(60) DEF IntOps
  <2>4. DOMAIN IntOps = {"int_real", "int_vme", "int"}
    BY DEF IntOps
  <2> HIDE DEF HandlerGood
  <2> QED BY <2>1, <2>2, <2>3, <2>4 DEF TableGood
<1>42. TableGood(IntInnerOps)
  <2>1. HandlerGood(IntInnerOps, "int_inner")
    BY SMTT(60) DEF IntInnerOps
  <2>2. HandlerGood(IntInnerOps, "int_leave_v86")
    BY SMTT(60) DEF IntInnerOps
  <2>3. DOMAIN IntInnerOps = {"int_inner", "int_leave_v86"}
    BY DEF IntInnerOps
  <2> HIDE DEF HandlerGood
  <2> QED BY <2>1, <2>2, <2>3 DEF TableGood
<1>43. TableGood(TaskOps)
  <2>1. HandlerGood(TaskOps, "jmpf_task")
    BY SMTT(60) DEF TaskOps
  <2>2. HandlerGood(TaskOps, "callf_task")
    BY SMTT(60) DEF TaskOps
  <2>3. HandlerGood(TaskOps, "iret_task")
    BY SMTT(60) DEF TaskOps
  <2>4. HandlerGood(TaskOps, "int_task")
    BY SMTT(60) DEF TaskOps
  <2>5. DOMAIN TaskOps = {"jmpf_task", "callf_task", "iret_task", "int_task"}
    BY DEF TaskOps
  <2> HIDE DEF HandlerGood
  <2> QED BY <2>1, <2>2, <2>3, <2>4, <2>5 DEF TableGood
<1>44. TableGood(SysenterOps)
  BY SMTT(60) DEF SysenterOps, TableGood
<1>45. TableGood(FpuOps)
  <2>1. HandlerGood(FpuForm, "fpu_wait")
    BY SMTT(60) DEF FpuForm
  <2>2. HandlerGood(FpuForm, "fpu_abort")
    BY SMTT(60) DEF FpuForm
  <2>3. HandlerGood(FpuForm, "fpu_control")
    BY SMTT(60) DEF FpuForm
  <2>4. HandlerGood(FpuForm, "fpu_flags")
    BY SMTT(60) DEF FpuForm
  <2>5. HandlerGood(FpuForm, "fpu_invalid")
    BY SMTT(60) DEF FpuForm
  <2>6. HandlerGood(FpuForm, "fpu_to_ax")
    BY SMTT(60) DEF FpuForm
  <2>7. HandlerGood(FpuForm, "fpu_load")
    BY SMTT(60) DEF FpuForm
  <2>8. HandlerGood(FpuForm, "fpu_load_int")
    BY SMTT(60) DEF FpuForm
  <2>9. HandlerGood(FpuForm, "fpu_store")
    BY SMTT(60) DEF FpuForm
  <2>10. HandlerGood(FpuForm, "fldcw")
    BY SMTT(60) DEF FpuForm
  <2>11. HandlerGood(FpuForm, "fstcw")
    BY SMTT(60) DEF FpuForm
  <2>12. HandlerGood(FpuForm, "fstenv")
    BY SMTT(60) DEF FpuForm
  <2>13. HandlerGood(FpuForm, "fldenv")
    BY SMTT(60) DEF FpuForm
  <2>14. HandlerGood(FpuForm, "fsave")
    BY SMTT(60) DEF FpuForm
  <2>15. HandlerGood(FpuForm, "frstor")
    BY SMTT(60) DEF FpuForm
  <2>16. HandlerGood(FpuForm, "fxsave")
    BY SMTT(60) DEF FpuForm
  <2>17. HandlerGood(FpuForm, "fxrstor")
    BY SMTT(60) DEF FpuForm
  <2>18. DOMAIN FpuForm = {"fpu_wait", "fpu_abort", "fpu_control", "fpu_flags",
      "fpu_invalid", "fpu_to_ax", "fpu_load", "fpu_load_int", "fpu_store", "fldcw",
      "fstcw", "fstenv", "fldenv", "fsave", "frstor", "fxsave", "fxrstor"}
    BY DEF FpuForm
  <2> HIDE DEF HandlerGood
  <2>19. TableGood(FpuForm)
    BY <2>1, <2>2, <2>3, <2>4, <2>5, <2>6, <2>7, <2>8, <2>9, <2>10, <2>11, <2>12, <2>13,
       <2>14, <2>15, <2>16, <2>17, <2>18 DEF TableGood
  <2> QED BY <2>19, FpuRows DEF TableGood, HandlerGood
<1>46. TableGood(SimdOps)
  <2>1. HandlerGood(SimdForm, "sse_move")
    BY SMTT(60) DEF SimdForm
  <2>2. HandlerGood(SimdForm, "sse_load")
    BY SMTT(60) DEF SimdForm
  <2>3. HandlerGood(SimdForm, "sse_store")
    BY SMTT(60) DEF SimdForm
  <2>4. HandlerGood(SimdForm, "sse_arith")
    BY SMTT(60) DEF SimdForm
  <2>5. HandlerGood(SimdForm, "sse_mask")
    BY SMTT(60) DEF SimdForm
  <2>6. HandlerGood(SimdForm, "sse_to_gpr")
    BY SMTT(60) DEF SimdForm
  <2>7. HandlerGood(SimdForm, "sse_compare")
    BY SMTT(60) DEF SimdForm
  <2>8. HandlerGood(SimdForm, "sse_to_mmx")
    BY SMTT(60) DEF SimdForm
  <2>9. HandlerGood(SimdForm, "sse_extract")
    BY SMTT(60) DEF SimdForm
  <2>10. HandlerGood(SimdForm, "sse_insert_mmx")
    BY SMTT(60) DEF SimdForm
  <2>11. HandlerGood(SimdForm, "mmx_move")
    BY SMTT(60) DEF SimdForm
  <2>12. HandlerGood(SimdForm, "mmx_load")
    BY SMTT(60) DEF SimdForm
  <2>13. HandlerGood(SimdForm, "mmx_store")
    BY SMTT(60) DEF SimdForm
  <2>14. HandlerGood(SimdForm, "mmx_mask")
    BY SMTT(60) DEF SimdForm
  <2>15. HandlerGood(SimdForm, "mmx_extract")
    BY SMTT(60) DEF SimdForm
  <2>16. HandlerGood(SimdForm, "movnti")
    BY SMTT(60) DEF SimdForm
  <2>17. DOMAIN SimdForm = {"sse_move", "sse_load", "sse_store", "sse_arith", "sse_mask",
      "sse_to_gpr", "sse_compare", "sse_to_mmx", "sse_extract", "sse_insert_mmx",
      "mmx_move", "mmx_load", "mmx_store", "mmx_mask", "mmx_extract", "movnti"}
    BY DEF SimdForm
  <2> HIDE DEF HandlerGood
  <2>18. TableGood(SimdForm)
    BY <2>1, <2>2, <2>3, <2>4, <2>5, <2>6, <2>7, <2>8, <2>9, <2>10, <2>11, <2>12, <2>13,
       <2>14, <2>15, <2>16, <2>17 DEF TableGood
  <2> QED BY <2>18, SimdRows DEF TableGood, HandlerGood
<1> HIDE DEF HandlerGood
<1> QED
  BY <1>1, <1>2, <1>3, <1>4, <1>5, <1>6, <1>7, <1>8, <1>9, <1>10, <1>11, <1>12, <1>13,
     <1>14, <1>15, <1>16, <1>17, <1>18, <1>19, <1>20, <1>21, <1>22, <1>23, <1>24, <1>25,
     <1>26, <1>27, <1>28, <1>29, <1>30, <1>31, <1>32, <1>33, <1>34, <1>35, <1>36, <1>37,
     <1>38, <1>39, <1>40, <1>41, <1>42, <1>43, <1>44, <1>45, <1>46 DEF Tables

HIDE DEF Accesses, SetsTr, Effect, Ld, LdProbe, LdRaw, St, StAsRead, StRaw, VerifyRead, Verify,
         Chk, Up, Undo, Again, Dropped, Aborts, PushAt, Push, Pop, SegLoadProtected, SegLoad,
         SegLoadReal, IoCheck, RegFromMem, Rmw, CsLoadReal, CsLoad, Selector, Gate, InnerStack,
         FarPush, FarPop, TaskSave, TaskLoad, TaskSegments, TaskSwitch, CheckSse, CheckMmx,
         SseIn, MmxIn

\* The instructions are the rows of the tables.
LEMMA OpsGood == \A o \in DOMAIN Ops : Sized(Ops[o]) /\ Good(o, Ops[o])
<1> SUFFICES ASSUME NEW o \in DOMAIN Ops PROVE Sized(Ops[o]) /\ Good(o, Ops[o])
  OBVIOUS
<1> DEFINE t == CHOOSE t \in Tables : o \in DOMAIN t
<1>1. Ops[o] = t[o] /\ \E x \in Tables : o \in DOMAIN x
  BY DEF Ops
<1>2. t \in Tables /\ o \in DOMAIN t
  BY <1>1
<1> HIDE DEF t
<1> QED BY <1>1, <1>2, TablesSized, TablesGood DEF TableSized, TableGood, HandlerGood

-----------------------------------------------------------------------------
(* The execution of a good list.                                             *)

TagSets == {{}, {"r"}, {"r", "w"}}

\* The types, with the values of the page table and of the TLB.
Types ==
  /\ TypeOK
  /\ Sized(Body) /\ Good(op, Body)
  /\ pte \in [Locs -> PageKinds] /\ tags \in [Locs -> TagSets]

\* The access j has been made, or its first half.
Past(j) == j < pc \/ (j = pc /\ beyond)

\* The translation of an access that was made stays in the TLB until the
\* instruction is left.
Probed ==
  \A j \in 1 .. Len(Body) :
      /\ pc <= Len(Body) /\ Past(j)
      /\ Body[j].do \in Accesses /\ Body[j].as \in {"r", "w"} /\ Body[j].onFault = "stop"
    => Body[j].as \in tags[Body[j].at] /\ (j < pc /\ split => Body[j].as \in tags["beyond"])

\* The registers that are changed are those the effects so far have changed.
Registers ==
  pc <= Len(Body) =>
    /\ \A c \in changed : \E j \in 1 .. pc - 1 : LeftSet(Body, pc, j) /\ Body[j].at = c
    /\ \A j \in 1 .. pc - 1 : SetsTr(Body[j]) => "tr" \in changed

\* The places stored to are those of the stores so far.
Stores ==
  pc <= Len(Body) =>
    \A l \in stored : \E j \in 1 .. pc :
      Body[j].do = "store" /\ Past(j) /\ (l = Body[j].at \/ (split /\ l = "beyond"))

\* The instruction ends where it may.
Faulted == status = "fault" => pc <= Len(Body) /\ CanStop(Body, pc)

\* Only the instructions of RunsOn go on after an exception.
RunsOnKnown == ranOn => op \in RunsOn

InstrInv == Types /\ Probed /\ Registers /\ Stores /\ Faulted /\ RunsOnKnown /\ StoresChecked

\* Where an access goes is one of the locations.
LEMMA WhereIs ==
  ASSUME Types
  PROVE  /\ \A j \in 1 .. Len(Body) : Body[j].do \in Accesses
              => Body[j].at \in Locs /\ (split => "beyond" \in Locs)
         /\ pc <= Len(Body) /\ Now.do \in Accesses => Where \in Locs
<1>1. \A j \in 1 .. Len(Body) : Body[j].do \in Accesses => Body[j].at \in LocsOf(Body, Accesses)
  BY DEF Types, Sized, LocsOf
<1>2. \A j \in 1 .. Len(Body) : Body[j].do \in Accesses
        => Body[j].at \in Locs /\ (split => "beyond" \in Locs)
  BY <1>1 DEF Locs, Places
<1>3. pc <= Len(Body) => pc \in 1 .. Len(Body)
  BY DEF Types, TypeOK, Sized
<1> QED BY <1>2, <1>3 DEF Where, Now, Types, TypeOK

\* An access whose translation is there does not fault.
LEMMA SettledReaches ==
  ASSUME Types, Probed, pc <= Len(Body), Now.do \in Accesses, Settled(Body, pc)
  PROVE  Translated
<1>1. PICK j \in 1 .. pc - 1 : /\ Body[j].do \in Accesses /\ Body[j].as \in {"w", Now.as}
                               /\ Body[j].onFault = "stop" /\ Body[j].at = Now.at
  BY DEF Settled, Now
<1>2. j \in 1 .. Len(Body) /\ Past(j) /\ j < pc /\ Now.as \in {"r", "w"}
  BY DEF Types, TypeOK, Sized, Past, Settled, Now
<1>3. Body[j].as \in tags[Where]
  BY <1>1, <1>2 DEF Probed, Where, Types, TypeOK
<1>4. tags[Where] \in TagSets
  BY WhereIs DEF Types
<1> QED BY <1>1, <1>2, <1>3, <1>4 DEF Translated, TagSets

\* The next effect, or the second half of this access.
LEMMA ForwardIs ==
  ASSUME Types, Running, Forward
  PROVE  /\ pc \in 1 .. Len(Body) /\ pc' \in 1 .. Len(Body) + 1 /\ beyond' \in BOOLEAN
         /\ beyond' => pc' = pc /\ ~beyond /\ split /\ Now.do \in Accesses
         /\ ~beyond' => pc' = pc + 1 /\ (split /\ Now.do \in Accesses => beyond)
<1>1. pc \in 1 .. Len(Body)
  BY DEF Types, TypeOK, Sized, Running
<1>2. CASE split /\ Now.do \in Accesses /\ ~beyond
  BY <1>1, <1>2 DEF Forward, Types, Sized
<1>3. CASE ~(split /\ Now.do \in Accesses /\ ~beyond)
  <2>1. beyond' = FALSE /\ pc' = pc + 1
    BY <1>3, Zenon DEF Forward
  <2>2. split /\ Now.do \in Accesses => beyond
    BY <1>3, Zenon
  <2>3. Len(Body) \in Nat
    BY DEF Types, Sized
  <2>4. pc' \in 1 .. Len(Body) + 1
    BY <1>1, <2>1, <2>3
  <2> QED BY <1>1, <2>1, <2>2, <2>4, Zenon
<1> QED BY <1>2, <1>3

\* An access that is made leaves more translations, for its place the one asked for.
LEMMA ReachIs ==
  ASSUME Types, Running, Now.do \in Accesses, Reach
  PROVE  /\ tags' \in [Locs -> TagSets]
         /\ \A l \in Locs : tags[l] \subseteq tags'[l] /\ tags'[l] \subseteq Allows(pte[l])
         /\ Now.as \in {"r", "w"} => Now.as \in tags'[Where]
<1> USE DEF TagSets
<1>1. Where \in Locs /\ tags[Where] \in TagSets /\ pte[Where] \in PageKinds
       /\ \A l \in Locs : tags[l] \subseteq Allows(pte[l])
  BY WhereIs DEF Types, Running, TypeOK
<1>2. CASE Translated /\ UNCHANGED tags
  BY <1>1, <1>2 DEF Translated, Types, TypeOK
<1>3. CASE ~Translated /\ Permitted /\ Fill
  <2> DEFINE new == IF Wanted = "w" THEN {"r", "w"} ELSE {"r"}
  <2>1. tags' = [tags EXCEPT ![Where] = new]
    BY <1>3 DEF Fill
  <2>2. new \in TagSets /\ Wanted \in {"r", "w"} /\ (Now.as \in {"r", "w"} => Wanted = Now.as)
         /\ (Wanted = "r" <=> Now.as = "r")
    BY DEF Wanted
  <2>3. tags[Where] \subseteq new
    BY <1>1, <1>3, <2>2 DEF Translated
  <2>4. new \subseteq Allows(pte[Where])
    BY <1>1, <1>3, <2>2 DEF Permitted, Allows, PageKinds
  <2>5. Now.as \in {"r", "w"} => Now.as \in new
    BY <2>2
  <2>6. tags \in [Locs -> TagSets]
    BY DEF Types
  <2> HIDE DEF new
  <2>7. /\ tags' \in [Locs -> TagSets] /\ tags'[Where] = new
        /\ \A l \in Locs \ {Where} : tags'[l] = tags[l]
    BY <1>1, <2>1, <2>2, <2>6
  <2> QED BY <1>1, <2>7, <2>3, <2>4, <2>5
<1> QED BY <1>2, <1>3 DEF Reach


\* While the instruction and its operand stay, so do its effects and places.
LEMMA SameBody ==
  ASSUME UNCHANGED <<op, split>>
  PROVE  Body' = Body /\ Locs' = Locs
<1>1. Body' = Body
  BY DEF Body
<1>2. Places(Accesses)' = Places(Accesses)
  BY <1>1 DEF Places
<1> QED BY <1>1, <1>2 DEF Locs

LEMMA TypesKeep ==
  ASSUME Types, UNCHANGED <<op, split, pte>>, pc' \in 1 .. Len(Body) + 1, beyond' \in BOOLEAN,
         beyond' => split /\ pc' <= Len(Body) /\ Body[pc'].do \in Accesses,
         tags' \in [Locs -> TagSets], \A l \in Locs : tags'[l] \subseteq Allows(pte[l]),
         stored' \subseteq Locs, unchecked' \subseteq PageKinds, status' \in {"run", "fault", "done"},
         rounds' \in 0 .. MaxRepeats, faults' \in 0 .. MaxFaults
  PROVE  Types'
<1>1. Body' = Body /\ Locs' = Locs
  BY SameBody
<1>2. TypeOK'
  BY <1>1, Zenon DEF Types, TypeOK, Now
<1> QED BY <1>1, <1>2, Zenon DEF Types

\* The next effect, or the other half of this one.
Onward ==
  /\ Types /\ Running /\ Forward /\ UNCHANGED <<op, split, pte>>
  /\ tags' \in [Locs -> TagSets]
  /\ \A l \in Locs : tags[l] \subseteq tags'[l] /\ tags'[l] \subseteq Allows(pte[l])
  /\ Now.do \in Accesses /\ Now.as \in {"r", "w"} /\ Now.onFault = "stop" => Now.as \in tags'[Where]

LEMMA TypesOnward ==
  ASSUME Onward, stored' \subseteq Locs, unchecked' \subseteq PageKinds,
         status' \in {"run", "fault", "done"},
         rounds' \in 0 .. MaxRepeats, faults' \in 0 .. MaxFaults
  PROVE  Types'
<1>1. beyond' => split /\ pc' <= Len(Body) /\ Body[pc'].do \in Accesses
  BY ForwardIs DEF Onward, Now
<1> QED BY <1>1, ForwardIs, TypesKeep DEF Onward

LEMMA ProbedOnward == Onward /\ Probed => Probed'
<1> SUFFICES ASSUME Onward, Probed PROVE Probed'
  OBVIOUS
<1> USE DEF Onward
<1>1. Body' = Body /\ split' = split
  BY SameBody
<1> SUFFICES ASSUME NEW j \in 1 .. Len(Body), pc' <= Len(Body), Past(j)',
                    Body[j].do \in Accesses, Body[j].as \in {"r", "w"}, Body[j].onFault = "stop"
             PROVE  /\ Body[j].as \in tags'[Body[j].at]
                    /\ j < pc' /\ split => Body[j].as \in tags'["beyond"]
  BY <1>1 DEF Probed
<1>2. Body[j].at \in Locs /\ (split => "beyond" \in Locs)
  BY WhereIs
<1>3. CASE Past(j)
  <2>1. Body[j].as \in tags'[Body[j].at]
    BY <1>2, <1>3, ForwardIs DEF Probed, Past, Running
  <2>2. CASE j < pc
    BY <1>2, <1>3, <2>1, <2>2, ForwardIs DEF Probed, Past, Running
  <2>3. CASE j = pc /\ beyond
    BY <2>1, <2>3 DEF Where, Now
  <2> QED BY <1>3, <2>2, <2>3 DEF Past
<1>4. CASE ~Past(j)
  <2>1. j = pc /\ ~beyond
    <3>1. j < pc' \/ (j = pc' /\ beyond')
      BY <1>1 DEF Past
    <3>2. pc \in Nat /\ j \in Nat /\ (beyond' => pc' = pc /\ ~beyond) /\ (~beyond' => pc' = pc + 1)
      BY ForwardIs
    <3> QED BY <1>4, <3>1, <3>2 DEF Past
  <2>2. j < pc' => ~split
    BY <2>1, ForwardIs, <1>1 DEF Now
  <2> QED BY <2>1, <2>2 DEF Where, Now
<1> QED BY <1>3, <1>4

LEMMA RegistersOnward ==
  ASSUME Onward, Registers,
         \/ Now.do \notin {"set", "restore"} /\ changed' = changed
         \/ Now.do = "set" /\ changed' = changed \cup {Now.at}
         \/ Now.do = "restore" /\ changed' = changed \ {Now.at}
  PROVE  Registers'
<1> USE DEF Onward
<1>1. Body' = Body
  BY SameBody
<1>2. pc \in 1 .. Len(Body) /\ (pc' = pc \/ pc' = pc + 1) /\ (pc' = pc => Now.do \in Accesses)
  BY ForwardIs
<1>3. ASSUME NEW c \in changed', pc' <= Len(Body)
      PROVE  \E j \in 1 .. pc' - 1 : LeftSet(Body, pc', j) /\ Body[j].at = c
  <2>1. CASE c \in changed /\ ~(Now.do = "restore" /\ Now.at = c)
    <3>1. PICK j \in 1 .. pc - 1 : LeftSet(Body, pc, j) /\ Body[j].at = c
      BY <1>2, <2>1 DEF Registers
    <3>2. j \in 1 .. pc' - 1
      BY <1>2
    <3>3. ASSUME NEW k \in j + 1 .. pc' - 1
          PROVE  ~(Body[k].do = "restore" /\ Body[k].at = c)
      <4>1. k \in j + 1 .. pc - 1 \/ k = pc
        BY <1>2
      <4> QED BY <2>1, <3>1, <4>1 DEF LeftSet, Now
    <3> QED BY <3>1, <3>2, <3>3 DEF LeftSet
  <2>2. CASE Now.do = "set" /\ c = Now.at
    <3>1. pc' = pc + 1
      BY <1>2, <2>2 DEF Accesses
    <3>2. LeftSet(Body, pc', pc)
      BY <1>2, <2>2, <3>1 DEF LeftSet, Now
    <3> QED BY <1>2, <2>2, <3>1, <3>2 DEF Now
  <2> QED BY <1>3, <2>1, <2>2
<1>4. ASSUME NEW j \in 1 .. pc' - 1, SetsTr(Body[j]), pc' <= Len(Body)
      PROVE  "tr" \in changed'
  <2>1. Now.do = "restore" => Now.at # "tr"
    BY <1>2 DEF Types, Good, Loops, Sized, Now
  <2>2. CASE j \in 1 .. pc - 1
    BY <1>2, <1>4, <2>1, <2>2 DEF Registers
  <2>3. CASE j = pc
    BY <1>4, <2>3 DEF Now, SetsTr
  <2> QED BY <1>2, <2>2, <2>3
<1> QED BY <1>1, <1>3, <1>4 DEF Registers

LEMMA StoresOnward ==
  ASSUME Onward, Stores,
         \/ stored' = stored
         \/ Now.do = "store" /\ stored' = stored \cup {Where}
  PROVE  Stores'
<1> USE DEF Onward
<1>1. Body' = Body /\ split' = split
  BY SameBody
<1>2. /\ pc \in 1 .. Len(Body)
      /\ beyond' => pc' = pc /\ ~beyond
      /\ ~beyond' => pc' = pc + 1
  BY ForwardIs
<1>3. ASSUME NEW l \in stored', pc' <= Len(Body)
      PROVE  \E j \in 1 .. pc' : /\ Body[j].do = "store" /\ Past(j)'
                                 /\ l = Body[j].at \/ (split /\ l = "beyond")
  <2>1. CASE l \in stored
    <3>1. PICK j \in 1 .. pc : /\ Body[j].do = "store" /\ Past(j)
                               /\ l = Body[j].at \/ (split /\ l = "beyond")
      BY <1>2, <2>1 DEF Stores
    <3>2. j \in 1 .. pc' /\ Past(j)'
      BY <1>2, <3>1 DEF Past
    <3> QED BY <3>1, <3>2
  <2>2. CASE l \notin stored
    <3>1. Body[pc].do = "store" /\ (l = Body[pc].at \/ (split /\ l = "beyond"))
      BY <1>3, <2>2 DEF Where, Now, Types, TypeOK
    <3>2. PICK i \in Nat : i = pc
      BY <1>2
    <3>3. i \in 1 .. pc' /\ Past(i)'
      BY <1>2, <3>2 DEF Past
    <3> QED BY <3>1, <3>2, <3>3
  <2> QED BY <2>1, <2>2
<1> QED BY <1>1, <1>3 DEF Stores

LEMMA OnwardKeeps ==
  ASSUME InstrInv, Onward, changed' = changed, stored' = stored, unchecked' = unchecked,
         status' = "run", Now.do \notin {"set", "restore"},
         rounds' = rounds, faults' = faults, ranOn' = ranOn
  PROVE  InstrInv'
<1>1. Types'
  BY TypesOnward DEF InstrInv, Types, TypeOK
<1>2. Probed' /\ Registers' /\ Stores'
  BY ProbedOnward, RegistersOnward, StoresOnward DEF InstrInv
<1>3. Faulted' /\ RunsOnKnown' /\ StoresChecked'
  BY DEF InstrInv, Faulted, RunsOnKnown, StoresChecked, Onward
<1> QED BY <1>1, <1>2, <1>3 DEF InstrInv

LEMMA LoadKeeps == InstrInv /\ Load => InstrInv'
<1> SUFFICES ASSUME InstrInv, Load PROVE InstrInv'
  OBVIOUS
<1>1. Now.do \in Accesses /\ Now.do \notin {"set", "restore"}
  BY DEF Load, Accesses
<1>2. Onward
  BY <1>1, ReachIs DEF Onward, Load, InstrInv
<1>3. status' = "run"
  BY DEF Load, Running
<1> QED BY <1>1, <1>2, <1>3, OnwardKeeps DEF Load

LEMMA StoreKeeps == InstrInv /\ Store => InstrInv'
<1> SUFFICES ASSUME InstrInv, Store PROVE InstrInv'
  OBVIOUS
<1>1. Now.do \in Accesses /\ Now.do \notin {"set", "restore"} /\ Where \in Locs
  BY WhereIs DEF Store, Accesses, Running, InstrInv
<1>2. Onward
  BY <1>1, ReachIs DEF Onward, Store, InstrInv
<1>3. Types'
  BY <1>1, <1>2, TypesOnward DEF InstrInv, Types, TypeOK, Store
<1>4. Probed' /\ Registers' /\ Stores'
  BY <1>1, <1>2, ProbedOnward, RegistersOnward, StoresOnward DEF InstrInv, Store
<1>5. StoresChecked'
  <2>1. op \notin {"stmxcsr", "xchg_e8"} => pte[Where] \in {"rw", "open"}
    <3> SUFFICES ASSUME op \notin {"stmxcsr", "xchg_e8"} PROVE pte[Where] \in {"rw", "open"}
      OBVIOUS
    <3>1. pc \in 1 .. Len(Body)
      BY ForwardIs, <1>2 DEF Onward
    <3>2. Now.as = "w"
      BY <3>1 DEF InstrInv, Types, Good, Checks, Sized, Now, Store
    <3>3. "w" \in tags'[Where]
      BY <3>2, <1>1, ReachIs DEF InstrInv, Store
    <3>4. "w" \in Allows(pte[Where])
      BY <3>3, <1>1, <1>2 DEF Onward
    <3> QED BY <3>4, <1>1 DEF Allows, PageKinds, InstrInv, Types
  <2> QED BY <2>1 DEF StoresChecked, InstrInv, Store
<1>6. Faulted' /\ RunsOnKnown'
  BY DEF InstrInv, Faulted, RunsOnKnown, Store, Running
<1> QED BY <1>3, <1>4, <1>5, <1>6 DEF InstrInv

\* An exception is delivered where the handler can stop, or runs on.
LEMMA DeliverKeeps ==
  ASSUME InstrInv, Running, Deliver, Now.do \in {"load", "store", "probe", "check"},
         ~(Now.do \in Accesses /\ Settled(Body, pc)),
         UNCHANGED <<op, split, pte, tags, changed, stored, unchecked, rounds, faults>>
  PROVE  InstrInv'
<1>1. pc \in 1 .. Len(Body) /\ Body' = Body /\ Locs' = Locs
  BY SameBody DEF InstrInv, Types, TypeOK, Sized, Running
<1>2. CASE Now.onFault = "stop" /\ status' = "fault" /\ UNCHANGED <<pc, beyond, ranOn>>
  <2>1. Types'
    BY <1>1, <1>2, TypesKeep DEF InstrInv, Types, TypeOK, Now
  <2>2. Probed' /\ Registers' /\ Stores'
    <3>1. pc' = pc /\ split' = split /\ tags' = tags /\ changed' = changed /\ stored' = stored
          /\ \A j : Past(j)' <=> Past(j)
      BY <1>2 DEF Past
    <3>2. Probed'
      BY <1>1, <3>1 DEF InstrInv, Probed
    <3>3. Registers'
      BY <1>1, <3>1 DEF InstrInv, Registers
    <3>4. Stores'
      BY <1>1, <3>1 DEF InstrInv, Stores
    <3> QED BY <3>2, <3>3, <3>4
  <2>3. CanStop(Body, pc)
    BY <1>2 DEF CanStop, Now, Accesses
  <2>4. Faulted' /\ RunsOnKnown' /\ StoresChecked'
    BY <1>1, <1>2, <2>3 DEF InstrInv, Faulted, RunsOnKnown, StoresChecked
  <2> QED BY <2>1, <2>2, <2>4 DEF InstrInv
<1>3. CASE Now.onFault # "stop" /\ ranOn' = TRUE /\ UNCHANGED status
            /\ (Forward \/ (pc' = Len(Body) + 1 /\ beyond' = FALSE))
  <2>1. op \in RunsOn
    BY <1>1, <1>3 DEF InstrInv, Types, Good, Ends, Sized, Now
  <2>2. Faulted' /\ RunsOnKnown' /\ StoresChecked'
    BY <1>3, <2>1 DEF InstrInv, Faulted, RunsOnKnown, StoresChecked, Running
  <2>3. Types' /\ Probed' /\ Registers' /\ Stores'
    <3>1. CASE Forward
      <4>1. Onward
        BY <1>3, <3>1 DEF Onward, InstrInv, Types, TypeOK
      <4>2. Types'
        BY <1>3, <4>1, TypesOnward DEF InstrInv, Types, TypeOK, Running
      <4> QED BY <4>1, <4>2, ProbedOnward, RegistersOnward, StoresOnward DEF InstrInv
    <3>2. CASE pc' = Len(Body) + 1 /\ beyond' = FALSE
      <4>1. Len(Body) \in Nat /\ ~(pc' <= Len(Body)) /\ pc' \in 1 .. Len(Body) + 1
        BY <3>2 DEF InstrInv, Types, Sized
      <4>2. Types'
        BY <1>3, <3>2, <4>1, TypesKeep DEF InstrInv, Types, TypeOK, Running
      <4>3. Probed' /\ Registers' /\ Stores'
        BY <1>1, <4>1, Zenon DEF Probed, Registers, Stores
      <4> QED BY <4>2, <4>3
    <3> QED BY <1>3, <3>1, <3>2
  <2> QED BY <2>2, <2>3 DEF InstrInv
<1> QED BY <1>2, <1>3 DEF Deliver

LEMMA PageFaultKeeps == InstrInv /\ PageFault => InstrInv'
<1> SUFFICES ASSUME InstrInv, PageFault PROVE InstrInv'
  OBVIOUS
<1>1. ~Settled(Body, pc)
  BY SettledReaches DEF InstrInv, PageFault, Running
<1> QED BY <1>1, DeliverKeeps DEF PageFault, Accesses

LEMMA CheckKeeps == InstrInv /\ Check => InstrInv'
<1> SUFFICES ASSUME InstrInv, Check PROVE InstrInv'
  OBVIOUS
<1>1. Now.do \notin Accesses /\ Now.do \notin {"set", "restore"}
  BY DEF Check, Accesses
<1>2. CASE Forward /\ UNCHANGED <<ranOn, status>>
  <2>1. Onward
    BY <1>1, <1>2 DEF Onward, Check, InstrInv, Types, TypeOK
  <2> QED BY <1>1, <1>2, <2>1, OnwardKeeps DEF Check, Running
<1>3. CASE Deliver
  BY <1>1, <1>3, DeliverKeeps DEF Check
<1> QED BY <1>2, <1>3 DEF Check

LEMMA AssignKeeps == InstrInv /\ Assign => InstrInv'
<1> SUFFICES ASSUME InstrInv, Assign PROVE InstrInv'
  OBVIOUS
<1>1. Now.do \notin Accesses
  BY DEF Assign, Accesses
<1>2. Onward
  BY <1>1 DEF Onward, Assign, InstrInv, Types, TypeOK
<1>3. Types'
  BY <1>2, TypesOnward DEF InstrInv, Types, TypeOK, Assign
<1>4. Probed' /\ Registers' /\ Stores'
  BY <1>2, ProbedOnward, RegistersOnward, StoresOnward DEF InstrInv, Assign
<1>5. Faulted' /\ RunsOnKnown' /\ StoresChecked'
  BY DEF InstrInv, Faulted, RunsOnKnown, StoresChecked, Assign, Running
<1> QED BY <1>3, <1>4, <1>5 DEF InstrInv

LEMMA NextRoundKeeps == InstrInv /\ NextRound => InstrInv'
<1> SUFFICES ASSUME InstrInv, NextRound PROVE InstrInv'
  OBVIOUS
<1>1. /\ pc \in 1 .. Len(Body) /\ Body' = Body /\ Locs' = Locs /\ split' = split
      /\ Len(Body) \in Nat /\ Now.do = "again" /\ Now.do \notin Accesses
  BY SameBody DEF NextRound, InstrInv, Types, TypeOK, Sized, Running, Accesses
<1>2. Now.at \in 1 .. pc /\ \A j \in 1 .. Len(Body) : ~SetsTr(Body[j])
  BY <1>1 DEF InstrInv, Types, Good, Loops, Sized, Now
<1>3. beyond' = FALSE /\ pc' \in 1 .. pc + 1 /\ rounds' \in 0 .. MaxRepeats
  BY <1>1, <1>2, BoundsAssumption DEF NextRound, Forward, InstrInv, Types, TypeOK
<1>4. Types'
  <2>1. pc' \in 1 .. Len(Body) + 1
    <3>1. pc \in 1 .. Len(Body) /\ Len(Body) \in Nat /\ pc' \in 1 .. pc + 1
      BY <1>1, <1>3, Zenon
    <3> QED BY <3>1
  <2>2. UNCHANGED <<op, split, pte, tags, unchecked, status, faults>> /\ stored' = {}
    BY DEF NextRound
  <2>3. Types /\ TypeOK
    BY DEF InstrInv, Types
  <2>4. /\ tags' \in [Locs -> TagSets] /\ \A l \in Locs : tags'[l] \subseteq Allows(pte[l])
        /\ stored' \subseteq Locs /\ unchecked' \subseteq PageKinds
        /\ status' \in {"run", "fault", "done"} /\ faults' \in 0 .. MaxFaults
    BY <2>2, <2>3 DEF Types, TypeOK
  <2>5. beyond' \in BOOLEAN /\ ~beyond'
    BY <1>3
  <2> QED BY <1>3, <2>1, <2>2, <2>3, <2>4, <2>5, TypesKeep
<1>5. Probed'
  <2>1. ASSUME NEW j \in 1 .. Len(Body), Past(j)' PROVE Past(j) \/ j = pc
    BY <1>1, <1>3, <2>1 DEF Past
  <2>2. ASSUME NEW j \in 1 .. Len(Body), Past(j)', Body[j].do \in Accesses PROVE j < pc
    BY <1>1, <2>1, <2>2 DEF Past, Now, InstrInv, Types, TypeOK
  <2> QED BY <1>1, <2>2 DEF InstrInv, Probed, Past, NextRound
<1>6. Registers' /\ Stores'
  <2>1. changed' = {} /\ stored' = {} /\ pc' \in Nat
    BY <1>1, <1>3 DEF NextRound
  <2>2. pc' <= Len(Body) => \A j \in 1 .. pc' - 1 : j \in 1 .. Len(Body)
    <3>1. Len(Body) \in Nat /\ pc' \in Nat
      BY <1>1, <2>1, Zenon
    <3>2. PICK n \in Nat : n = Len(Body)
      BY <3>1
    <3>3. \A q, j \in Nat : q <= n /\ j \in 1 .. q - 1 => j \in 1 .. n
      BY <3>2
    <3>4. \A j \in 1 .. pc' - 1 : j \in Nat
      OBVIOUS
    <3> QED BY <3>1, <3>2, <3>3, <3>4
  <2>3. Registers'
    BY <1>1, <1>2, <2>1, <2>2 DEF Registers
  <2> QED BY <2>1, <2>3 DEF Stores
<1>7. Faulted' /\ RunsOnKnown' /\ StoresChecked'
  BY DEF InstrInv, Faulted, RunsOnKnown, StoresChecked, NextRound, Running
<1> QED BY <1>4, <1>5, <1>6, <1>7 DEF InstrInv

LEMMA FinishKeeps == InstrInv /\ Finish => InstrInv'
<1> SUFFICES ASSUME InstrInv, Finish PROVE InstrInv'
  OBVIOUS
<1>1. Body' = Body /\ ~(pc' <= Len(Body))
  BY SameBody DEF Finish, InstrInv, Types, TypeOK, Sized
<1>2. Types'
  BY TypesKeep DEF InstrInv, Types, TypeOK, Finish, Now
<1>3. Probed' /\ Registers' /\ Stores'
  BY <1>1, Zenon DEF Probed, Registers, Stores
<1>4. Faulted' /\ RunsOnKnown' /\ StoresChecked'
  BY DEF InstrInv, Faulted, RunsOnKnown, StoresChecked, Finish
<1> QED BY <1>2, <1>3, <1>4 DEF InstrInv

LEMMA RepairKeeps == ASSUME NEW lost PROVE InstrInv /\ Repair(lost) => InstrInv'
<1> SUFFICES ASSUME InstrInv, Repair(lost) PROVE InstrInv'
  OBVIOUS
<1>1. Body' = Body /\ Locs' = Locs
  BY SameBody DEF Repair
<1>2. /\ pte' \in [Locs -> PageKinds] /\ tags' \in [Locs -> TagSets]
      /\ \A l \in Locs : tags'[l] \subseteq Allows(pte'[l])
  <2>1. pte' \in [Locs -> PageKinds] /\ tags' \in [Locs -> TagSets]
    BY DEF Repair, InstrInv, Types, TagSets, PageKinds
  <2>2. ASSUME NEW l \in Locs PROVE tags'[l] \subseteq Allows(pte'[l])
    BY DEF Repair, InstrInv, Types, TypeOK
  <2> QED BY <2>1, <2>2
<1>3. pc' = 1 /\ beyond' = FALSE /\ faults' \in 0 .. MaxFaults /\ Len(Body) \in Nat
  BY BoundsAssumption DEF Repair, InstrInv, Types, TypeOK, Sized
<1>4. TypeOK'
  <2>1. pc' \in 1 .. Len(Body) + 1
    BY <1>3
  <2>2. DOMAIN pte' = Locs /\ DOMAIN tags' = Locs
    BY DEF Repair
  <2>3. /\ op' = op /\ split' = split /\ stored' = {} /\ unchecked' = unchecked
        /\ status' = "run" /\ rounds' = rounds
    BY DEF Repair
  <2>4. TypeOK
    BY DEF InstrInv, Types
  <2> QED BY <1>1, <1>2, <1>3, <2>1, <2>2, <2>3, <2>4, Zenon DEF TypeOK
<1>5. Types'
  BY <1>1, <1>2, <1>4, Zenon DEF Types, Repair, InstrInv
<1>6. Probed' /\ Registers' /\ Stores'
  BY <1>1, <1>3 DEF Probed, Registers, Stores, Repair, Past
<1>7. Faulted' /\ RunsOnKnown' /\ StoresChecked'
  BY DEF InstrInv, Faulted, RunsOnKnown, StoresChecked, Repair
<1> QED BY <1>5, <1>6, <1>7 DEF InstrInv

LEMMA InstrInitially == Init => InstrInv
<1> SUFFICES ASSUME Init PROVE InstrInv
  OBVIOUS
<1>1. Sized(Body) /\ Good(op, Body)
  BY OpsGood DEF Init, Body
<1>2. Types
  <2>1. pc \in 1 .. Len(Body) + 1 /\ rounds \in 0 .. MaxRepeats /\ faults \in 0 .. MaxFaults
    BY <1>1, BoundsAssumption DEF Init, Sized
  <2>2. pte \in [Locs -> PageKinds] /\ tags \in [Locs -> TagSets]
    BY DEF Init, TagSets
  <2>3. TypeOK
    BY <2>1, <2>2 DEF Init, TypeOK
  <2> QED BY <1>1, <2>2, <2>3 DEF Types
<1>3. Probed /\ Registers /\ Stores /\ Faulted /\ RunsOnKnown /\ StoresChecked
  BY <1>1 DEF Init, Probed, Registers, Stores, Faulted, RunsOnKnown, StoresChecked, Past, Sized
<1> QED BY <1>2, <1>3 DEF InstrInv

LEMMA InstrInvariant == Spec => []InstrInv
<1>1. InstrInv /\ UNCHANGED vars => InstrInv'
  <2> SUFFICES ASSUME InstrInv, UNCHANGED vars PROVE InstrInv'
    OBVIOUS
  <2>1. Body' = Body /\ Locs' = Locs
    BY SameBody DEF vars
  <2>2. Types'
    BY <2>1, TypesKeep DEF InstrInv, Types, TypeOK, vars, Now
  <2>3. Probed' /\ Registers' /\ Stores' /\ Faulted' /\ RunsOnKnown' /\ StoresChecked'
    BY <2>1, Zenon DEF InstrInv, Probed, Registers, Stores, Faulted, RunsOnKnown,
       StoresChecked, Past, vars
  <2> QED BY <2>2, <2>3 DEF InstrInv
<1>2. InstrInv /\ [Next]_vars => InstrInv'
  BY <1>1, LoadKeeps, StoreKeeps, PageFaultKeeps, CheckKeeps, AssignKeeps, NextRoundKeeps,
     FinishKeeps, RepairKeeps DEF Next
<1> QED BY <1>2, InstrInitially, PTL DEF Spec

\* pc is in the handler, every access is to a location of the instruction, and no
\* translation is for more than cpu_mmu_translate() lets through, which is what
\* the page table allows, and everything for a 4 MB page.
THEOREM InstrTypeCorrect == Spec => []TypeOK
<1>1. InstrInv => TypeOK
  BY DEF InstrInv, Types
<1> QED BY <1>1, InstrInvariant, PTL

\* Every store is to a page the page table lets the program write, or a 4 MB page,
\* but those of stmxcsr and xchg r8, m8 (the TLB macro, cpu_mmu_translate()).
THEOREM StoresAllowed == Spec => []StoresChecked
<1>1. InstrInv => StoresChecked
  BY DEF InstrInv
<1> QED BY <1>1, InstrInvariant, PTL

\* An exception finds the registers as the instruction found them, but those
\* Imprecise names, and ends the instruction, but those of RunsOn (EXCEP()).
THEOREM ExceptionsPrecise == Spec => []Precise
<1>1. InstrInv => Precise
  <2> SUFFICES ASSUME InstrInv PROVE Precise
    OBVIOUS
  <2>1. ASSUME status = "fault" PROVE changed \subseteq Imprecise(op) \/ "tr" \in changed
    <3>1. pc \in DOMAIN Body /\ pc <= Len(Body) /\ CanStop(Body, pc)
      BY <2>1 DEF InstrInv, Faulted, Types, TypeOK, Sized
    <3>2. CASE \A j \in 1 .. pc - 1 : LeftSet(Body, pc, j) => Body[j].at \in Imprecise(op)
      BY <3>1, <3>2 DEF InstrInv, Registers
    <3>3. CASE \E j \in 1 .. pc - 1 : SetsTr(Body[j])
      BY <3>1, <3>3 DEF InstrInv, Registers
    <3> QED BY <3>1, <3>2, <3>3 DEF InstrInv, Types, Good, Ordered
  <2> QED BY <2>1 DEF Precise, InstrInv, RunsOnKnown
<1> QED BY <1>1, InstrInvariant, PTL

\* No instruction faults when it has overwritten what it will read again.
THEOREM OperandsKept == Spec => []NotTorn
<1>1. InstrInv => NotTorn
  <2> SUFFICES ASSUME InstrInv, status = "fault", NEW l \in Places({"load"}) \cap stored, l # "desc"
               PROVE  FALSE
    BY DEF NotTorn
  <2>1. pc \in 1 .. Len(Body) /\ DOMAIN Body = 1 .. Len(Body) /\ CanStop(Body, pc)
    BY DEF InstrInv, Faulted, Types, TypeOK, Sized
  <2>2. PICK j \in 1 .. pc : /\ Body[j].do = "store" /\ Past(j)
                             /\ l = Body[j].at \/ (split /\ l = "beyond")
    BY <2>1 DEF InstrInv, Stores
  <2>3. PICK k \in 1 .. Len(Body) : /\ Body[k].do = "load"
                                    /\ l = Body[k].at \/ (split /\ l = "beyond")
    BY <2>1 DEF Places, LocsOf
  <2>4. Untorn(op, Body)
    BY DEF InstrInv, Types, Good
  <2>5. CASE split
    <3>1. Splittable(op)
      BY <2>5 DEF InstrInv, Types, TypeOK
    <3>2. PICK m \in {"m", "stack", "frame", "src", "dst"} :
            LocsOf(Body, Accesses) = {m} /\ op # "xchg_e8"
      BY <3>1 DEF Splittable, Body
    <3>3. Body[j].at = m /\ Body[k].at = m
      <4>1. \A i \in 1 .. Len(Body) :
              Body[i].do \in Accesses => Body[i].at \in LocsOf(Body, Accesses)
        BY <2>1 DEF LocsOf
      <4>2. Body[j].do \in Accesses /\ Body[k].do \in Accesses /\ j \in 1 .. Len(Body)
        BY <2>1, <2>2, <2>3 DEF Accesses
      <4> QED BY <2>3, <3>2, <4>1, <4>2
    <3> QED BY <2>1, <2>2, <2>3, <2>4, <3>2, <3>3 DEF Untorn
  <2>6. CASE ~split
    <3>1. j < pc /\ l = Body[j].at /\ l = Body[k].at
      BY <2>1, <2>2, <2>3, <2>6 DEF Past, InstrInv, Types, TypeOK
    <3> QED BY <2>1, <2>2, <2>3, <2>4, <3>1 DEF Untorn
  <2> QED BY <2>5, <2>6
<1> QED BY <1>1, InstrInvariant, PTL

-----------------------------------------------------------------------------
(* Both together.                                                            *)

\* Each half runs as it does alone, or rests.
LEMMA HalvesAlone == CodeSpec => Spec /\ CacheSpec
<1>1. CodeInit => Init /\ CacheInit
  <2>1. InstrIdle => Init
    <3>1. "push_r" \in DOMAIN Ops
      <4>1. CallRetOps \in Tables /\ "push_r" \in DOMAIN CallRetOps
        BY DEF Tables, CallRetOps
      <4> QED BY <4>1 DEF Ops
    <3> QED BY <3>1 DEF InstrIdle, Init, PageKinds
  <2> QED BY <2>1 DEF CodeInit, CacheIdle
<1>2. [CodeNext]_<<part, vars, cacheVars>> => [Next]_vars /\ [CacheNext]_cacheVars
  BY DEF CodeNext
<1> QED BY <1>1, <1>2, PTL DEF CodeSpec, Spec, CacheSpec

\* The types of both, whichever half runs: the accesses of an instruction are to
\* its locations, a translation is never for more than the page table allows,
\* and no list of entries, traces or chunks is longer than its array.
THEOREM CodeTypeCorrect == CodeSpec => []TypesOK
<1>1. TypeOK /\ CacheTypeOK => TypesOK
  BY DEF TypesOK
<1> QED BY <1>1, HalvesAlone, InstrTypeCorrect, TypeCorrect, PTL
=============================================================================
