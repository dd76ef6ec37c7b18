------------------------------- MODULE MCCode -------------------------------
(***************************************************************************)
(* The execution of code, for TLC: one instruction after the other (Instr) *)
(* in one half of the behaviours, the caches of translations and of        *)
(* translated code (CodeCache) in the other.  The two share no state: of a *)
(* store Instr keeps whether its page allows it, CodeCache where it goes.  *)
(***************************************************************************)
EXTENDS Instr, CodeCache, TLC

\* The stores of the CPU and of devices, with a page table that stays; and a
\* page table that changes, with less of a page.
Transfers == [mappings |-> [page : Pages, global : {FALSE}], remaps |-> FALSE,
              devices |-> TRUE, chunks |-> {0, 1}]
Remaps == [mappings |-> [page : Pages, global : BOOLEAN], remaps |-> TRUE,
           devices |-> FALSE, chunks |-> {0}]
TransfersAndRemaps == {Transfers, Remaps}

VARIABLE part   \* "instr" or "cache"

\* The half that is not looked at stays in one of its initial states.
InstrIdle ==
  /\ op = "push_r" /\ split = FALSE /\ pc = 1 /\ beyond = FALSE /\ status = "run"
  /\ rounds = 0 /\ faults = 0
  /\ pte = [l \in Locs |-> "none"] /\ tags = [l \in Locs |-> {}]
  /\ changed = {} /\ stored = {} /\ unchecked = {} /\ ranOn = FALSE

CacheIdle ==
  /\ CacheInit /\ use = Remaps
  /\ \A l, k \in Lins : pt[l] = pt[k] /\ ~pt[l].global

CodeInit ==
  \/ part = "instr" /\ Init /\ CacheIdle
  \/ part = "cache" /\ CacheInit /\ InstrIdle

CodeNext ==
  \/ part = "instr" /\ Next /\ UNCHANGED <<part, cacheVars>>
  \/ part = "cache" /\ CacheNext /\ UNCHANGED <<part, vars>>

CodeSpec == CodeInit /\ [][CodeNext]_<<part, vars, cacheVars>>

Symmetry == Permutations(Lins) \cup Permutations(Pages)

-----------------------------------------------------------------------------
\* The types of both halves.
TypesOK == TypeOK /\ CacheTypeOK
=============================================================================
