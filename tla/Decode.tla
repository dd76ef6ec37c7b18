------------------------------- MODULE Decode -------------------------------
(***************************************************************************)
(* The instruction decoder (src/src/cpu/decoder.c): how many bytes         *)
(* find_instruction_length() takes an instruction for, how many the        *)
(* decode_*() functions read, and what cpu_decode() does with an           *)
(* instruction near the end of its page.                                   *)
(*                                                                         *)
(* A family stands for the opcodes of a decode_*() function that have the  *)
(* same row in optable[] or optable0F[]; of its bytes only the number      *)
(* matters.  A trace is decoded instruction by instruction from a chosen   *)
(* distance to the end of the page.                                        *)
(***************************************************************************)
EXTENDS Integers, Sequences

CONSTANTS MaxTrace,      \* MAX_TRACE_SIZE
          Rooms,         \* distances to the end of the page a trace starts at
          PrefixLists,   \* the prefixes an instruction may have, in order
          Operands       \* ModR/M bytes: [mod, rm, base5]

PrefixNames == {"66", "67", "seg", "lock", "rep"}

ASSUME DecodeAssumption ==
  /\ MaxTrace \in Nat \ {0, 1} /\ Rooms \subseteq Nat \ {0}
  /\ PrefixLists \subseteq Seq(PrefixNames)
  /\ Operands \subseteq [mod : 0 .. 3, rm : 0 .. 7, base5 : BOOLEAN]

(***************************************************************************)
(* Families.  operand ("one", "modrm" or "moffs") and imm, a set of        *)
(* immediates ("b" 1 byte, "w" 2 bytes, "v" 2 or 4 bytes), are the row of  *)
(* the table; readOperand, readImm and minor (a third opcode byte) are     *)
(* what the decode function reads, "byte" being a ModR/M byte alone.       *)
(***************************************************************************)
Family(operand, imm) ==
  [operand |-> operand, imm |-> imm, readOperand |-> operand, readImm |-> imm, minor |-> 0,
   map |-> 1, lock |-> FALSE, ends |-> FALSE]

One == Family("one", {})
Imm(imm) == Family("one", imm)
ModRM == Family("modrm", {})
ModRMImm(imm) == Family("modrm", imm)
Moffs == Family("moffs", {})

Ends(f) == [f EXCEPT !.ends = TRUE]
Locks(f) == [f EXCEPT !.lock = TRUE]
Reads(f, operand, imm) == [f EXCEPT !.readOperand = operand, !.readImm = imm]

\* A #UD decided by the ModR/M byte.
Undefined(f) == Ends(Reads(f, "byte", {}))

JccToDec ==
  [jcc8 |-> Imm({"b"}), mov_rbib |-> Imm({"b"}), mov_rviv |-> Imm({"v"}), push_rv |-> One,
   inc_rv |-> One]

FpuToAas ==
  [fpu |-> ModRM, arith_00 |-> Locks(ModRM), arith_02 |-> ModRM, arith_04 |-> Imm({"b"}),
   arith_05 |-> Imm({"v"}), xchg |-> One, daa |-> One]

CmpToArpl ==
  [cmp_38 |-> ModRM, cmp_3C |-> Imm({"b"}), cmp_3D |-> Imm({"v"}), pusha |-> One,
   bound |-> ModRM, bound_ud |-> Undefined(ModRM), arpl |-> ModRM]

PushToTest ==
  [push_iv |-> Imm({"v"}), imul_69 |-> ModRMImm({"v"}), push_ib |-> Imm({"b"}),
   imul_6B |-> ModRMImm({"b"}), ins_outs |-> One, group_80 |-> Locks(ModRMImm({"b"})),
   group_81 |-> Locks(ModRMImm({"v"})), group_82 |-> ModRMImm({"b"}), test_84 |-> ModRM]

XchgToFwait ==
  [xchg_86 |-> Locks(ModRM), mov_88 |-> ModRM, lea_ud |-> Undefined(ModRM), pop_8F |-> ModRM,
   nop |-> One, callf |-> Ends(Imm({"v", "w"}))]

PushfToTestImm ==
  [pushf |-> One, mov_moffs |-> Moffs, movs_cmps |-> One, test_A8 |-> Imm({"b"}),
   test_A9 |-> Imm({"v"})]

StosToRet ==
  [stos_scas |-> One, shift_C0 |-> ModRMImm({"b"}), ret_iw |-> Ends(Imm({"w"})),
   ret |-> Ends(One)]

\* enter and retf iw have an immediate of 16 bits, and the rows one of 32 bits
\* in 32-bit code.
LesToIret ==
  [les |-> ModRM, les_ud |-> Undefined(ModRM), mov_C6 |-> ModRMImm({"b"}),
   mov_C6_ud |-> Undefined(ModRMImm({"b"})), mov_C7 |-> ModRMImm({"v"}),
   mov_C7_ud |-> Undefined(ModRMImm({"v"})), enter |-> Reads(Imm({"v", "b"}), "one", {"w", "b"}),
   leave |-> One, retf_iw |-> Ends(Reads(Imm({"v"}), "one", {"w"})), retf |-> Ends(One),
   int |-> Ends(Imm({"b"})), iret |-> Ends(One)]

ShiftToCall ==
  [shift_D0 |-> ModRM, aam |-> Imm({"b"}), xlat |-> One, loop |-> Imm({"b"}),
   in_imm |-> Imm({"b"}), call_j |-> Ends(Imm({"v"}))]

\* The row of F6 and F7 has no immediate: find_instruction_length() adds it.
JmpToGroup3 ==
  [jmp_j |-> Ends(Imm({"v"})), jmpf |-> Ends(Imm({"v", "w"})), jmp_jb |-> Ends(Imm({"b"})),
   in_dx |-> One, hlt |-> Ends(One), test_F6 |-> ModRMImm({"b"}), test_F7 |-> ModRMImm({"v"}),
   group_3 |-> ModRM]

FlagsToGroup5 ==
  [clc |-> One, inc_FE |-> Locks(ModRM), fe_ud |-> Locks(Ends(ModRM)),
   push_FF |-> Locks(ModRM), call_FF |-> Locks(Ends(ModRM))]

OneByte ==
  {JccToDec, FpuToAas, CmpToArpl, PushToTest, XchgToFwait, PushfToTestImm,
   StosToRet, LesToIret, ShiftToCall, JmpToGroup3, FlagsToGroup5}

(***************************************************************************)
(* The families of table0F[].                                              *)
(***************************************************************************)
SystemGroups == [group_6 |-> ModRM, group_7 |-> ModRM, lar |-> ModRM, clts |-> One]

\* 0F 18 is invalid for the row, which counts no operand, and decode_0F18() reads
\* one.  0F 19 to 0F 1E have an operand for the row and are invalid, as 0F 78 to
\* 0F 7B; the opcode byte that decode_invalid0F() gives back is counted, since a
\* #UD uses no length.  mov to and from a control register reads no more than the
\* ModR/M byte.
MovesToDebug ==
  [sse_10 |-> ModRM, prefetch |-> Reads(One, "modrm", {}),
   invalid_19 |-> Ends(Reads(ModRM, "one", {})), nop_1F |-> ModRM,
   mov_cr |-> Ends(Reads(ModRM, "byte", {})), mov_dr |-> Reads(Imm({"b"}), "byte", {})]

\* 0F 38 is an opcode without operand for the row.
Sse28ToSse50 ==
  [sse_28 |-> ModRM, wrmsr |-> One, sse_38 |-> [Reads(One, "modrm", {}) EXCEPT !.minor = 1],
   sysenter |-> One, cmov |-> ModRM, sse_50 |-> ModRM]

Sse58ToSse68 == [sse_58 |-> ModRM, sse_60 |-> ModRM, sse_68 |-> ModRM]

\* emms has no operand, and the row a ModR/M byte.
Sse70ToSse7E ==
  [sse_70 |-> ModRMImm({"b"}), sse_74 |-> ModRM, emms |-> Reads(ModRM, "one", {}),
   sse_7C |-> ModRM, sse_7E |-> ModRM]

JccToShrd ==
  [jccv |-> Imm({"v"}), setcc |-> ModRM, push_fs |-> One, bt |-> ModRM,
   shld_ib |-> ModRMImm({"b"}), shld_cl |-> ModRM, bts |-> Locks(ModRM)]

FxsaveToLgs ==
  [fxsave |-> ModRM, fxsave_ud |-> Ends(ModRM), imul_AF |-> ModRM, cmpxchg |-> Locks(ModRM),
   lss |-> ModRM, lss_ud |-> Undefined(ModRM)]

MovxToXadd ==
  [movzx |-> ModRM, group_8 |-> Locks(ModRMImm({"b"})),
   group_8_ud |-> Locks(Ends(Reads(ModRMImm({"b"}), "modrm", {}))), bsf |-> ModRM,
   xadd |-> Locks(ModRM)]

\* The rows of 0F C2, C4, C5 and C6 have no immediate.
Cmpxchg8ToSseD8 ==
  [cmpxchg8b |-> Locks(ModRM), cmpxchg8b_ud |-> Locks(Undefined(ModRM)),
   sse_C2 |-> Reads(ModRM, "modrm", {"b"}), movnti |-> ModRM, sse_D0 |-> ModRM, bswap |-> One]

SseE0ToSseF8 == [sse_E0 |-> ModRM, sse_E8 |-> ModRM, sse_F1 |-> ModRM, ud |-> Ends(One)]

TwoByte ==
  {SystemGroups, MovesToDebug, Sse28ToSse50, Sse58ToSse68, Sse70ToSse7E, JccToShrd,
   FxsaveToLgs, MovxToXadd, Cmpxchg8ToSseD8, SseE0ToSseF8}

Names(tables) == UNION {DOMAIN t : t \in tables}
Row(tables, n) == (CHOOSE t \in tables : n \in DOMAIN t)[n]

Families ==
  [n \in Names(OneByte \cup TwoByte) |->
     IF n \in Names(OneByte) THEN Row(OneByte, n) ELSE [Row(TwoByte, n) EXCEPT !.map = 2]]

NoOperand == [mod |-> 3, rm |-> 0, base5 |-> FALSE]

\* The ModR/M bytes a family is decoded with: a #UD decided by it has mod = 3,
\* but for C6 and C7, where the REG field decides, and for a move to or from
\* CR, which the decoder refuses unless mod = 3.
OperandsOf(n) ==
  CASE Families[n].operand # "modrm" /\ Families[n].readOperand # "modrm" -> {NoOperand}
    [] n \in {"bound_ud", "lea_ud", "les_ud", "lss_ud", "cmpxchg8b_ud"} ->
         {o \in Operands : o.mod = 3}
    [] n \in {"bound", "les", "lss", "cmpxchg8b"} -> {o \in Operands : o.mod # 3}
    [] OTHER -> Operands

Instructions ==
  {i \in [name : DOMAIN Families, operand : Operands \cup {NoOperand}, prefixes : PrefixLists] :
     i.operand \in OperandsOf(i.name)}

(***************************************************************************)
(* Lengths.                                                                *)
(***************************************************************************)
\* The code size or the address size after prefixes, each counted once.
Is16(code16, prefix, prefixes) ==
  IF \E k \in DOMAIN prefixes : prefixes[k] = prefix THEN ~code16 ELSE code16

ImmLength(imm, is16) ==
  (IF "b" \in imm THEN 1 ELSE 0) + (IF "w" \in imm THEN 2 ELSE 0)
  + (IF "v" \notin imm THEN 0 ELSE IF is16 THEN 2 ELSE 4)

MoffsLength(is16) == IF is16 THEN 2 ELSE 4

\* Mutant: the SIB byte before a displacement of 32 bits is not counted.
ScanOperandNoSib(o, is16) ==
  IF o.mod = 3 THEN 0
  ELSE IF is16
    THEN CASE o.mod = 0 -> (IF o.rm = 6 THEN 2 ELSE 0) [] o.mod = 1 -> 1 [] o.mod = 2 -> 2
    ELSE CASE o.mod = 0 /\ o.rm = 4 -> 1 + (IF o.base5 THEN 4 ELSE 0)
           [] o.mod = 1 /\ o.rm = 4 -> 2
           [] o.mod = 2 \/ (o.rm = 5 /\ o.mod = 0) -> 4
           [] o.mod = 1 /\ o.rm # 4 -> 1
           [] OTHER -> 0

\* find_instruction_length() after the ModR/M byte.
ScanOperand(o, is16) ==
  IF o.mod = 3 THEN 0
  ELSE IF is16
    THEN CASE o.mod = 0 -> (IF o.rm = 6 THEN 2 ELSE 0) [] o.mod = 1 -> 1 [] o.mod = 2 -> 2
    ELSE CASE o.mod = 0 /\ o.rm = 4 -> 1 + (IF o.base5 THEN 4 ELSE 0)
           [] o.mod = 1 /\ o.rm = 4 -> 2
           [] o.mod = 2 /\ o.rm = 4 -> 5
           [] (o.mod = 2 /\ o.rm # 4) \/ (o.rm = 5 /\ o.mod = 0) -> 4
           [] o.mod = 1 /\ o.rm # 4 -> 1
           [] OTHER -> 0

ScanLength(i, prefixes, code16) ==
  LET f == Families[i.name]
      c16 == Is16(code16, "66", prefixes)
      a16 == Is16(code16, "67", prefixes)
  IN Len(prefixes) + f.map + ImmLength(f.imm, c16)
     + (CASE f.operand = "modrm" -> 1 + ScanOperand(i.operand, a16)
          [] f.operand = "moffs" -> MoffsLength(a16)
          [] OTHER -> 0)

\* parse_modrm(): an SIB byte, then a displacement.
ParseModrm(o, is16) ==
  LET sib == IF ~is16 /\ o.rm = 4 /\ o.mod # 3 THEN 1 ELSE 0
      disp == CASE o.mod = 1 -> 1
                [] o.mod = 2 -> MoffsLength(is16)
                [] o.mod = 0 /\ is16 /\ o.rm = 6 -> 2
                [] o.mod = 0 /\ ~is16 /\ (o.rm = 5 \/ (o.rm = 4 /\ o.base5)) -> 4
                [] OTHER -> 0
  IN sib + disp

ReadLength(i, code16) ==
  LET f == Families[i.name]
      c16 == Is16(code16, "66", i.prefixes)
      a16 == Is16(code16, "67", i.prefixes)
  IN Len(i.prefixes) + f.map + f.minor + ImmLength(f.readImm, c16)
     + (CASE f.readOperand = "modrm" -> 1 + ParseModrm(i.operand, a16)
          [] f.readOperand = "moffs" -> MoffsLength(a16)
          [] f.readOperand = "byte" -> 1
          [] OTHER -> 0)

(***************************************************************************)
(* decode_prefix().  The length is checked at the first prefix, for what   *)
(* follows it; LOCK is checked once all of the instruction is read.        *)
(***************************************************************************)
Has(i, prefix) == \E k \in DOMAIN i.prefixes : i.prefixes[k] = prefix

TooLong(i, code16) == i.prefixes # <<>> /\ ScanLength(i, Tail(i.prefixes), code16) > 15

BadLock(i) == Has(i, "lock") /\ ~Families[i.name].lock

DecodedLength(i, code16) == IF TooLong(i, code16) THEN 1 ELSE ReadLength(i, code16)

EndsTrace(i, code16) == TooLong(i, code16) \/ BadLock(i) \/ Families[i.name].ends

VARIABLES code16,      \* cpu.state_hash: 16-bit code and addresses
          phase,       \* "idle", "loop", "decoded", "done"
          left,        \* bytes from rawp to the end of the page
          count,       \* instructions_translated
          fetched,     \* the instruction is decoded from prefetch[]
          insn,        \* the instruction decoded last, and how
          segPrefix,   \* seg_prefix[] holds a prefix
          badLocks,    \* a LOCK prefix was refused with a segment prefix present
          cached       \* the trace is entered in the trace cache

vars == <<code16, phase, left, count, fetched, insn, segPrefix, badLocks, cached>>

None == [name |-> "none", left |-> 0, length |-> 0, crossed |-> FALSE, excess |-> FALSE,
         refused |-> FALSE]

Init ==
  /\ code16 \in BOOLEAN /\ phase = "idle" /\ left = 0 /\ count = 0
  /\ fetched = FALSE /\ insn = None
  /\ segPrefix = FALSE /\ badLocks = FALSE /\ cached = FALSE

\* cpu_get_trace() finds no trace and calls cpu_decode().
Begin(r) ==
  /\ phase = "idle"
  /\ left' = r /\ phase' = "loop"
  /\ UNCHANGED <<code16, count, fetched, insn, segPrefix, badLocks, cached>>

\* Mutant: an instruction that ends with the page is taken to go beyond.
OffPageExact(i) == left <= 0 \/ (left <= 15 /\ ScanLength(i, i.prefixes, code16) >= left)

\* The last 15 bytes of the page, and an instruction that seems to go beyond,
\* or a position that is in the next page already.
OffPage(i) == left <= 0 \/ (left <= 15 /\ ScanLength(i, i.prefixes, code16) > left)

\* op_trace_end after what has been decoded; the trace is cached.
EndAtPage ==
  /\ \/ phase = "decoded" /\ left <= 0
     \/ phase = "loop" /\ count # 0 /\ \E i \in Instructions : OffPage(i)
  /\ phase' = "done" /\ cached' = TRUE
  /\ UNCHANGED <<code16, left, count, fetched, insn, segPrefix, badLocks>>

Shown(i, crossed) ==
  [name |-> i.name, left |-> left, length |-> DecodedLength(i, code16), crossed |-> crossed,
   excess |-> ScanLength(i, i.prefixes, code16) > 15, refused |-> TooLong(i, code16)]

\* cpu_mmu_translate() has raised a page fault for the next page.
FetchFault(i) ==
  /\ count = 0 /\ OffPage(i)
  /\ phase' = "done" /\ insn' = Shown(i, TRUE)
  /\ UNCHANGED <<code16, left, count, fetched, segPrefix, badLocks, cached>>

\* The bytes are copied to prefetch[] through the linear address.
Fetch(i) == count = 0 /\ OffPage(i) /\ fetched' = TRUE

Read(i) == ~OffPage(i) /\ UNCHANGED fetched

\* Mutant: the prefix is kept.
SegmentsKept(i) == segPrefix \/ Has(i, "seg")

\* The segment prefix is dropped with the other state of decode_prefix(), at
\* "done" but not at "error".
Segments(i) ==
  CASE i.prefixes = <<>> \/ TooLong(i, code16) -> segPrefix
    [] BadLock(i) /\ ~TooLong(i, code16) -> segPrefix \/ Has(i, "seg")
    [] OTHER -> FALSE

\* Mutant: no place for op_trace_end.
FullTrace(n) == n >= MaxTrace

Full(n) == n >= MaxTrace - 1

Decoded(i) ==
  /\ Fetch(i) \/ Read(i)
  /\ insn' = Shown(i, fetched')
  /\ left' = left - DecodedLength(i, code16)
  /\ count' = count + 1
  /\ segPrefix' = Segments(i)
  /\ badLocks' = (badLocks \/ (BadLock(i) /\ Has(i, "seg")))
  /\ phase' = IF fetched' \/ EndsTrace(i, code16) \/ Full(count + 1)
              THEN "done" ELSE "decoded"
  /\ cached' = (phase' = "done" /\ ~fetched')
  /\ UNCHANGED code16

\* The loop of cpu_decode() goes on.
Continue ==
  /\ phase = "decoded" /\ left > 0
  /\ phase' = "loop" /\ insn' = None
  /\ UNCHANGED <<code16, left, count, fetched, segPrefix, badLocks, cached>>

\* The trace is executed, and another one is needed.
Executed ==
  /\ phase = "done"
  /\ phase' = "idle" /\ insn' = None /\ left' = 0 /\ count' = 0
  /\ fetched' = FALSE /\ cached' = FALSE
  /\ UNCHANGED <<code16, segPrefix, badLocks>>

Next ==
  \/ \E r \in Rooms : Begin(r)
  \/ EndAtPage
  \/ phase = "loop" /\ \E i \in Instructions : FetchFault(i) \/ Decoded(i)
  \/ Continue \/ Executed

Spec == Init /\ [][Next]_vars

-----------------------------------------------------------------------------
\* The rows that take an instruction for a shorter one than it is.
Short == {"prefetch", "sse_38", "sse_C2"}

\* The rows that take it for a longer one.
Long ==
  {"enter", "retf_iw", "emms", "mov_C6_ud", "mov_C7_ud", "mov_cr", "group_8_ud", "invalid_19"}

\* The length of an instruction has 4 bits in i->flags: 16 would be a length of
\* 0 and an address size.  decode_prefix() refuses what is too long, but leaves
\* the first prefix out of the length, its byte and the size it selects: after
\* 67 in 16-bit code an SIB byte and a displacement may follow.  It does not see
\* what a short row leaves out, either.
LengthFits ==
  insn.length <= 15 \/ (insn.excess /\ insn.length <= 21) \/ insn.name \in Short

TypeOK ==
  /\ phase \in {"idle", "loop", "decoded", "done"}
  /\ count \in 0 .. MaxTrace - 1
  /\ left \in Int
  /\ {code16, fetched, segPrefix, badLocks, cached} \subseteq BOOLEAN
  /\ phase = "idle" => left = 0 /\ count = 0 /\ insn = None
  /\ cached => phase = "done" /\ ~fetched
  /\ LengthFits

\* A trace decoded from the page itself holds no byte of another one: the next
\* page in memory need not be the one the program runs on in, and a write to
\* that one would not invalidate the trace.  The check at the end of the page
\* sees to it, unless a row of the table says too few bytes or the prefixes
\* make the instruction longer than any may be.
InPage == left < 0 /\ ~fetched => insn.name \in Short \/ insn.excess

\* The next page is read, or a page fault is raised for it, only for an
\* instruction that reaches it, unless a row of the table says too many bytes or
\* decode_prefix() refuses it: a program may end with the last byte of its last
\* page.
FetchNeeded ==
  insn.crossed /\ insn.name \notin Long /\ ~insn.refused => insn.length > insn.left

\* A segment prefix is for one instruction.  It outlives it only where a LOCK
\* prefix was refused.
SegmentsDropped == segPrefix => badLocks
=============================================================================
