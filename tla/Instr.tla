------------------------------- MODULE Instr -------------------------------
(***************************************************************************)
(* How one guest instruction touches memory and registers, and what is     *)
(* left of it when one of its memory accesses faults                       *)
(* (src/src/cpu/opcodes.c, ops/, access.c, seg.c).                         *)
(*                                                                         *)
(* A handler is the list of its effects in the order of the code: loads,   *)
(* stores, checks that may raise an exception, assignments to registers.   *)
(* Whether a load or a store faults depends on the guest's page table and  *)
(* on the translations the TLB holds; a fault is delivered to the guest    *)
(* (EXCEP()), whose handler repairs the page, possibly takes another page  *)
(* away, and returns to the same instruction.  Operand values are left     *)
(* out: a register is changed or not, a location is stored to or not.      *)
(***************************************************************************)
EXTENDS Naturals, Sequences

CONSTANTS MaxFaults,     \* page faults while the instruction is executed
          MaxRepeats     \* iterations of a REP prefix

ASSUME BoundsAssumption == MaxFaults \in Nat /\ MaxRepeats \in Nat

(***************************************************************************)
(* The effects.  "as" is the access the translation is asked for, "r" or   *)
(* "w" (cpu.tlb_shift_read, cpu.tlb_shift_write), not always the access    *)
(* that follows; "raw" asks for "w" but looks at the unshifted tag, that   *)
(* is at the bits of a read.  "onFault" is what the handler does when the  *)
(* effect has delivered an exception: EXCEP(), or going on, or ending as   *)
(* if nothing had happened.                                                *)
(***************************************************************************)
Effect(what, where, access) ==
  [do |-> what, at |-> where, as |-> access, onFault |-> "stop"]

Ld(l)      == Effect("load", l, "r")     \* cpu_readN(.., tlb_shift_read)
LdUnprobed(l) == Effect("load", l, "r")   \* mutant of LdProbe: no probe
LdProbe(l) == Effect("load", l, "w")     \* a read translated as a write
LdRaw(l)   == Effect("load", l, "raw")   \* cpu_access_readN(.., tag, tlb_shift_write)
St(l)      == Effect("store", l, "w")    \* cpu_writeN(.., tlb_shift_write)
StAsRead(l) == Effect("store", l, "r")   \* cpu_write32(.., tlb_shift_read)
StRaw(l)   == Effect("store", l, "raw")
VerifyRead(l) == Effect("probe", l, "r")   \* cpu_access_verify(.., TLB_SYSTEM_READ)
Verify(l)  == Effect("probe", l, "raw")  \* the same for writing
Chk        == Effect("check", "none", "none")
Up(c)      == Effect("set", c, "none")   \* a register, a flag, a port changes
Undo(c)    == Effect("restore", c, "none")
Again(head) == Effect("again", head, "none")  \* an iteration of REP is complete

Dropped(e) == [e EXCEPT !.onFault = "goOn"]   \* the result is not looked at
Aborts(e)  == [e EXCEPT !.onFault = "end"]    \* FPU_ABORT()

Accesses == {"load", "store", "probe"}

(***************************************************************************)
(* Sequences the handlers share.                                           *)
(***************************************************************************)

\* Mutant: ESP moves before the store.
PushMovesFirst(l) == <<Up("esp"), St(l)>>

\* Mutant: the tag of a read is looked up for the store.
PushReadTag(l) == <<StAsRead(l), Up("esp")>>

\* cpu_push16(), cpu_push32(): ESP moves once the store has succeeded.
PushAt(l) == <<St(l), Up("esp")>>
Push == PushAt("stack")

\* cpu_pop16(), cpu_pop16_dest32(), cpu_pop32().
Pop == <<Ld("stack"), Up("esp")>>

\* cpu_seg_load_protected(): the segment register is loaded, then the
\* accessed bit is written back to the descriptor table.
SegLoadProtected == <<Up("seg"), St("desc"), Up("mode")>>

\* cpu_load_seg_value_mov() in protected mode.
SegLoad == <<Chk, Ld("desc"), Chk>> \o SegLoadProtected

\* cpu_seg_load_real(), cpu_seg_load_virtual().
SegLoadReal == <<Up("seg"), Up("mode")>>

\* cpu_io_check_access() when the I/O permission map has to be read.
IoCheck == <<Ld("desc"), Chk, Ld("tss"), Chk, Ld("tss"), Chk>>

\* The macro arith_re.
RegFromMem == <<Ld("m"), Up("gpr"), Up("flags")>>

\* The macros arith_rmw, arith_rmw2 and arith_rmw3: the operand is read under
\* a translation for writing, changed with the flags, and written back with
\* the result of cpu_access_writeN() ignored.
Rmw == <<LdProbe("m"), Up("flags"), Dropped(St("m"))>>

(***************************************************************************)
(* The handlers of opcodes.c, a table per group, an entry per family of    *)
(* handlers with the same effects (the operand sizes and the register and  *)
(* memory forms that differ only in the width).                            *)
(***************************************************************************)
NearJumpOps ==
  [ud |-> <<Chk>>, jmp_r |-> <<Chk, Up("eip")>>, jmp_e |-> <<Ld("m"), Up("eip")>>,
   call_r |-> Push \o <<Up("eip")>>, call_e |-> <<Ld("m")>> \o Push \o <<Up("eip")>>]

LoopOps ==
  [loop_taken |-> <<Up("cx"), Up("eip")>>, loop_not |-> <<Up("cx")>>, jecxz |-> <<Up("eip")>>]

JccOps == [jcc_taken |-> <<Up("eip")>>, jcc_not |-> <<>>]

CallRetOps ==
  [call_j |-> Push \o <<Up("eip")>>, ret |-> Pop \o <<Up("eip")>>,
   ret_iw |-> Pop \o <<Up("eip"), Up("esp")>>, push_r |-> Push,
   push_e |-> <<Ld("m")>> \o Push]

\* pop_e computes its address with the ESP after the pop and restores the ESP
\* before the pop in case the store faults; pusha and popa work on a copy.
StackOps ==
  [pop_r |-> Pop \o <<Up("gpr")>>,
   pop_e |-> Pop \o <<Undo("esp"), St("m"), Up("esp")>>,
   push_s |-> Push,
   pop_s |-> <<Ld("stack")>> \o SegLoad \o <<Up("esp"), Up("guard")>>,
   pop_s_real |-> <<Ld("stack")>> \o SegLoadReal \o <<Up("esp"), Up("guard")>>]

PushaOps ==
  [pusha |-> <<St("stack"), St("stack2"), Up("esp")>>,
   popa |-> <<Ld("stack"), Ld("stack2"), Up("gpr"), Up("esp")>>]

ArithOps ==
  [arith_r |-> <<Up("gpr"), Up("flags")>>, arith_re |-> RegFromMem, arith_e |-> Rmw]

CmpOps == [cmp_r |-> <<Up("flags")>>, cmp_e |-> <<Ld("m"), Up("flags")>>]

TestOps == [test_r |-> <<Up("flags")>>, test_e |-> <<Ld("m"), Up("flags")>>]

IncDecOps ==
  [inc_dec_neg_r |-> <<Up("gpr"), Up("flags")>>, inc_dec_neg_e |-> Rmw,
   not_r |-> <<Up("gpr")>>, not_e |-> <<LdProbe("m"), Dropped(St("m"))>>]

\* cpu_muldivN() raises #DE before it writes a register.
MulDivOps ==
  [mul_r |-> <<Up("flags"), Up("gpr")>>, mul_e |-> <<Ld("m"), Up("flags"), Up("gpr")>>,
   div_r |-> <<Chk, Up("gpr")>>, div_e |-> <<Ld("m"), Chk, Up("gpr")>>]

ShiftdOps == [shiftd_r |-> <<Up("gpr"), Up("flags")>>, shiftd_e |-> Rmw]

IoOps ==
  [out |-> IoCheck \o <<Up("port")>>, in |-> IoCheck \o <<Up("port"), Up("gpr")>>]

MovOps ==
  [mov_r |-> <<Up("gpr")>>, mov_re |-> <<Ld("m"), Up("gpr")>>, mov_e |-> <<St("m")>>,
   mov_s_r |-> SegLoad \o <<Up("guard")>>,
   mov_s_e |-> <<Ld("m")>> \o SegLoad \o <<Up("guard")>>]

\* cmov reads memory whatever the condition is.
MoffsCmovOps ==
  [cmov_e |-> <<Ld("m"), Up("gpr")>>, cmov_e_not |-> <<Ld("m")>>, setcc_e |-> <<St("m")>>,
   lea |-> <<Up("gpr")>>]

\* lds, les, lss, lfs, lgs: the selector is read and loaded, then the offset
\* is read.
LoadFarOps ==
  [lds |-> <<Ld("m2")>> \o SegLoad \o <<Ld("m"), Up("gpr")>>,
   lds_real |-> <<Ld("m2")>> \o SegLoadReal \o <<Ld("m"), Up("gpr")>>]

XchgOps ==
  [xchg_r |-> <<Up("gpr")>>, xchg_e8 |-> <<LdRaw("m"), StRaw("m"), Up("gpr")>>,
   xchg_e |-> <<LdProbe("m"), Dropped(St("m")), Up("gpr")>>]

CmpxchgOps ==
  [cmpxchg_e |-> <<LdProbe("m"), Up("flags"), Up("gpr"), Dropped(St("m"))>>,
   cmpxchg8b_equal |-> <<LdProbe("m"), LdProbe("m2"), Up("flags"), St("m"), St("m2")>>,
   cmpxchg8b_not |-> <<LdProbe("m"), LdProbe("m2"), Up("flags"), Up("gpr")>>,
   xadd_e |-> <<LdProbe("m"), Up("flags"), Up("gpr"), Dropped(St("m"))>>,
   bound |-> <<Ld("m"), Ld("m2"), Chk>>]

BcdOps == [bcd |-> <<Up("flags"), Up("gpr")>>, aam |-> <<Chk, Up("gpr"), Up("flags")>>]

BitOps == [bt_r |-> <<Up("gpr"), Up("flags")>>, bt_e |-> <<Ld("m"), Up("flags")>>,
           bts_e |-> Rmw, bsf_e |-> <<Ld("m"), Up("flags"), Up("gpr")>>]

SystemOps ==
  [cli |-> <<Chk, Up("eflags")>>, sti |-> <<Chk, Up("eflags"), Up("guard")>>,
   hlt |-> <<Chk, Up("guard")>>, cpuid |-> <<Up("gpr")>>, rdmsr |-> <<Chk, Up("gpr")>>,
   wrmsr |-> <<Up("msr")>>, rdtsc |-> <<Chk, Up("gpr")>>, setflag |-> <<Up("eflags")>>]

\* enter pushes the frame pointer and the enclosing frames one by one, and ESP
\* is committed by each push; leave reads before it commits.
FrameOps ==
  [enter0 |-> Push \o <<Up("ebp"), Up("esp")>>,
   enter |-> Push \o <<Ld("frame")>> \o PushAt("stack2") \o PushAt("stack2")
                  \o <<Up("ebp"), Up("esp")>>,
   leave |-> <<Ld("frame"), Up("ebp"), Up("esp")>>]

TableOps ==
  [sgdt |-> <<St("m"), St("m2")>>, lgdt |-> <<Chk, Ld("m"), Ld("m2"), Up("dtr")>>,
   str_e |-> <<Chk, St("m")>>, smsw_e |-> <<St("m")>>, lmsw |-> <<Chk, LdProbe("m"), Up("cr")>>]

\* ltr() writes the busy bit of the descriptor before it loads TR; lldt() only
\* reads.
ControlRegOps ==
  [invlpg |-> <<Chk, Up("tlb")>>, mov_cr |-> <<Up("cr"), Up("tlb"), Up("eip")>>,
   mov_r_cr |-> <<Up("gpr"), Up("eip")>>, mov_dr |-> <<Up("dr"), Up("tlb")>>,
   ltr |-> <<Chk, Ld("m"), Chk, Ld("desc"), Chk, St("desc"), Up("tr")>>,
   lldt |-> <<Chk, Ld("m"), Chk, Ld("desc"), Chk, Up("ldtr")>>]

\* lar(), lsl() and verify_segment_access() take a failed descriptor read for
\* an invalid selector, a page fault included, and the handler goes on.
VerifyOps ==
  [lar |-> <<Chk, Ld("m"), Dropped(Ld("desc")), Up("flags"), Up("gpr")>>,
   verr |-> <<Chk, Ld("m"), Dropped(Ld("desc")), Up("flags")>>,
   arpl |-> <<Chk, LdProbe("m"), Up("flags"), Dropped(St("m"))>>]

ExtendOps ==
  [clts |-> <<Chk, Up("cr")>>, movx_r |-> <<Up("gpr")>>, movx_e |-> <<Ld("m"), Up("gpr")>>,
   xlat |-> <<Ld("m"), Up("gpr")>>]

MxcsrOps ==
  [ldmxcsr |-> <<Chk, Ld("m"), Chk, Up("mxcsr")>>, stmxcsr |-> <<Chk, StAsRead("m")>>]

\* pushf(), pushfd(), popf(), popfd(); popf in virtual 8086 mode with VME
\* checks the popped flags after the pop.
FlagOps ==
  [pushf |-> <<Chk>> \o Push, popf |-> <<Chk>> \o Pop \o <<Up("flags"), Up("eflags")>>,
   popf_vme |-> Pop \o <<Chk, Up("eflags"), Up("flags")>>]

(***************************************************************************)
(* Far control transfers, interrupts and tasks (ops/ctrlflow.c).  The      *)
(* stack is pushed and popped through a copy of ESP that set_esp()         *)
(* commits; pops ask for a translation for writing.                        *)
(***************************************************************************)
\* cpu_load_csip_real(), cpu_load_csip_virtual().
CsLoadReal == <<Up("eip"), Up("seg"), Up("mode")>>

\* cpu_load_csip_protected().
CsLoad == <<Up("eip")>> \o SegLoadProtected

\* The selector of a far transfer, and one through a gate.
Selector == <<Chk, Ld("desc"), Chk>>
Gate == Selector \o <<Ld("desc"), Chk>>

\* get_tss_esp() and get_tss_ss(), and the descriptor of the new stack.
InnerStack == <<Ld("tss"), Ld("tss"), Chk, Ld("desc"), Chk>>

FarPush == <<St("stack"), St("stack2")>>
FarPop == <<LdProbe("stack"), LdProbe("stack2")>>

JmpfOps ==
  [jmpf_real |-> <<Ld("m")>> \o CsLoadReal, jmpf |-> Selector \o CsLoad,
   jmpf_gate |-> Gate \o CsLoad]

\* With the new stack, ESP is set between the loads of SS and of CS.
CallfOps ==
  [callf_real |-> FarPush \o <<Up("esp")>> \o CsLoadReal,
   callf |-> Selector \o FarPush \o CsLoad \o <<Up("esp")>>,
   callf_gate |-> Gate \o FarPush \o CsLoad \o <<Up("esp")>>,
   callf_inner |-> Gate \o InnerStack \o <<Ld("stack"), St("stack2")>> \o SegLoadProtected
                     \o <<Up("esp")>> \o CsLoad]

RetfOps ==
  [retf_real |-> FarPop \o <<Chk, Up("esp")>> \o CsLoadReal,
   retf |-> FarPop \o Selector \o CsLoad \o <<Up("esp")>>,
   retf_outer |-> FarPop \o Selector \o <<LdProbe("stack2")>> \o Selector
                    \o SegLoadProtected \o CsLoad \o <<Up("esp")>>]

IretOps ==
  [iret_real |-> FarPop \o <<Up("esp")>> \o CsLoadReal \o <<Up("eflags")>>,
   iret_vme |-> FarPop \o <<Chk, Up("esp")>> \o CsLoadReal \o <<Up("eflags")>>,
   iret_to_v86 |-> FarPop \o <<Up("seg")>> \o CsLoadReal \o <<Up("esp"), Up("eflags")>>,
   iret |-> FarPop \o Selector \o CsLoad \o <<Up("esp"), Up("eflags")>>]

IretOuterOps ==
  [iret_outer |-> FarPop \o Selector \o <<LdProbe("stack2")>> \o Selector
                    \o SegLoadProtected \o CsLoad \o <<Up("esp"), Up("seg"), Up("eflags")>>]

\* cpu_interrupt() of a software interrupt: ESP is committed before SS and CS
\* are loaded, and leaving virtual 8086 mode clears the data segments between
\* the pushes.
IntOps ==
  [int_real |-> FarPush \o <<Up("esp")>> \o CsLoadReal \o <<Up("eflags")>>,
   int_vme |-> <<Chk, Ld("tss"), Ld("tss"), Ld("m")>> \o FarPush \o <<Up("eflags")>>
                 \o CsLoadReal \o <<Up("esp")>>,
   int |-> Gate \o FarPush \o <<Up("esp")>> \o CsLoad \o <<Up("eflags")>>]

IntInnerOps ==
  [int_inner |-> Gate \o InnerStack \o FarPush \o <<Up("esp")>> \o SegLoadProtected \o CsLoad
                   \o <<Up("eflags")>>,
   int_leave_v86 |-> Gate \o InnerStack \o <<St("stack"), Up("seg"), St("stack2"), Up("esp")>>
                       \o SegLoadProtected \o CsLoad \o <<Up("eflags")>>]

\* do_task_switch().  The old TSS is verified under an unshifted tag; the old
\* busy bit is cleared before the state is saved; TR is loaded, with CR3 and
\* the registers, before the LDT and the segments are looked at.
TaskSave(type) ==
  <<Chk, VerifyRead("tss"), Verify("tss")>>
  \o (IF type \in {"jmp", "iret"} THEN <<Ld("desc"), St("desc")>> ELSE <<>>)
  \o <<St("tss")>> \o (IF type = "call" THEN <<St("tss")>> ELSE <<>>)

TaskLoad(type) ==
  <<Ld("newtss")>> \o (IF type \in {"jmp", "iret"} THEN <<Ld("desc"), St("desc")>> ELSE <<>>)
  \o <<Up("tr"), Up("cr"), Up("eip"), Up("eflags"), Up("gpr"), Up("seg")>>

TaskSegments == <<Chk, Ld("desc"), Chk, Up("ldtr"), Ld("desc"), Chk>> \o SegLoadProtected

TaskSwitch(type) == TaskSave(type) \o TaskLoad(type) \o TaskSegments

TaskOps ==
  [jmpf_task |-> Selector \o TaskSwitch("jmp"), callf_task |-> Selector \o TaskSwitch("call"),
   iret_task |-> <<Ld("link"), Chk, Ld("desc"), Chk>> \o TaskSwitch("iret"),
   int_task |-> Gate \o TaskSwitch("call")]

SysenterOps ==
  [sysenter |-> <<Chk, Up("eflags"), Up("eip"), Up("esp"), Up("seg"), Up("mode")>>]

(***************************************************************************)
(* The x87 (fpu.c).  fpu_nm_check() ends the handler; what fpu_fwait()     *)
(* delivers ends it in half of the groups, and is FPU_ABORT()ed, which     *)
(* means "not an exception", in the others.  A store updates the pointers  *)
(* and puts the exceptions of the conversion, or all of its flags, into    *)
(* the status word before it writes; fstenv() brings the tag word up to    *)
(* date before it writes.                                                  *)
(***************************************************************************)
FpuForm ==
  [fpu_wait |-> <<Chk, Chk, Up("fpu")>>, fpu_abort |-> <<Chk, Aborts(Chk), Up("fpu")>>,
   fpu_control |-> <<Chk, Up("fpu")>>, fpu_flags |-> <<Chk, Chk, Up("flags"), Up("fpu")>>,
   fpu_invalid |-> <<Chk, Chk>>, fpu_to_ax |-> <<Chk, Up("gpr")>>,
   fpu_load |-> <<Chk, Chk, Ld("m"), Up("fpu")>>,
   fpu_load_int |-> <<Chk, Chk, Up("fpuptr"), Ld("m"), Up("fpu")>>,
   fpu_store |-> <<Chk, Chk, Up("fpuptr"), Up("fpusw"), St("m"), Up("fpu")>>,
   fldcw |-> <<Chk, Ld("m"), Up("fpu")>>, fstcw |-> <<Chk, St("m")>>,
   fstenv |-> <<Chk, Up("fputag"), Aborts(St("m")), Aborts(St("m2"))>>,
   fldenv |-> <<Chk, Aborts(Ld("m")), Up("fpu"), Aborts(Ld("m2")), Up("fpu")>>,
   fsave |-> <<Chk, Up("fputag"), Aborts(St("m")), St("m2"), Up("fpu")>>,
   frstor |-> <<Chk, Aborts(Ld("m")), Up("fpu"), Ld("m2"), Up("fpu")>>,
   fxsave |-> <<Chk, Chk, Verify("m"), Verify("m2"), St("m"), Dropped(St("m2")), St("m2")>>,
   fxrstor |-> <<Chk, Chk, Ld("m"), Ld("m2"), Chk, Up("mxcsr"), Up("fpu"), Ld("m2"), Up("xmm")>>]

\* The forms the cases of fpu_reg_op() have.
FpuArith == {"fpu_wait", "fpu_abort"}
FpuConstantsAndTranscendentals == {"fpu_abort"}
FpuRemainderAndMove == {"fpu_wait"}
FpuCompareAndStore ==
  {"fpu_wait", "fpu_abort", "fpu_control", "fpu_flags", "fpu_invalid", "fpu_to_ax"}

\* Those of fpu_mem_op().
FpuMemArith == {"fpu_load"}
FpuMemStore ==
  {"fpu_store", "fldcw", "fstenv", "fstcw", "fldenv", "fpu_load", "frstor", "fsave"}
FpuMemInteger == {"fpu_load", "fpu_load_int", "fpu_store"}
FpuContext == {"fxsave", "fxrstor"}

(***************************************************************************)
(* MMX and SSE (ops/simd.c): a check of the mode, an operand that has to   *)
(* be aligned or not, and a register or the memory.  CHECK_MMX resets the  *)
(* x87 stack before the operand is read, and the registers are written     *)
(* before cpu_sse_handle_exceptions() looks at what the operation raised.  *)
(***************************************************************************)
CheckSse == <<Chk>>
CheckMmx == <<Chk, Chk, Up("fpu")>>
SseIn == CheckSse \o <<Chk, Ld("m")>>
MmxIn == CheckMmx \o <<Ld("m")>>

SimdForm ==
  [sse_move |-> CheckSse \o <<Up("xmm")>>, sse_load |-> SseIn \o <<Up("xmm")>>,
   sse_store |-> CheckSse \o <<Chk, St("m")>>, sse_arith |-> SseIn \o <<Up("xmm"), Chk>>,
   sse_mask |-> SseIn \o <<Up("gpr")>>, sse_to_gpr |-> SseIn \o <<Up("gpr"), Chk>>,
   sse_compare |-> SseIn \o <<Up("flags"), Chk>>, sse_to_mmx |-> SseIn \o <<Up("mmx"), Chk>>,
   sse_extract |-> CheckSse \o <<Up("gpr")>>, sse_insert_mmx |-> SseIn \o <<Up("mmx")>>,
   mmx_move |-> CheckMmx \o <<Up("mmx")>>, mmx_load |-> MmxIn \o <<Up("mmx")>>,
   mmx_store |-> CheckMmx \o <<St("m")>>, mmx_mask |-> MmxIn \o <<Up("gpr")>>,
   mmx_extract |-> CheckMmx \o <<Up("gpr")>>, movnti |-> <<St("m")>>]

\* The forms the cases of each function have.
Execute0F10 == {"sse_load", "sse_store", "sse_move"}
Execute0F28 ==
  {"sse_load", "sse_store", "sse_arith", "sse_to_mmx", "sse_to_gpr", "sse_compare"}
Execute0F50 == {"sse_mask", "sse_arith", "sse_load"}
Execute0F58 == {"sse_arith"}
Execute0F60 == {"mmx_load", "sse_load"}
Execute0F68 == {"mmx_load", "sse_load"}
Execute0F70 == {"mmx_load", "sse_load", "mmx_move", "sse_move"}
Execute0F7C == {"sse_arith"}
Execute0F7E == {"mmx_store", "sse_store", "sse_load"}
Execute0FC2 ==
  {"sse_arith", "sse_load", "movnti", "sse_insert_mmx", "mmx_extract", "sse_extract"}
Execute0FD0 == {"mmx_load", "sse_load", "sse_store", "mmx_move", "mmx_mask", "sse_mask"}
Execute0FD8 == {"mmx_load", "sse_load"}
Execute0FE0 == {"mmx_load", "sse_load", "sse_arith", "mmx_store", "sse_store"}
Execute0FE8 == {"mmx_load", "sse_load"}
Execute0FF1 == {"mmx_load", "sse_load", "mmx_store", "sse_store"}
Execute0FF8 == {"mmx_load", "sse_load"}
Execute0F38 == {"mmx_load", "sse_load"}
Emms == {"mmx_move"}

Chosen(forms, names) == [n \in names |-> forms[n]]

FpuOps ==
  Chosen(FpuForm, FpuArith \cup FpuConstantsAndTranscendentals \cup FpuRemainderAndMove
                  \cup FpuCompareAndStore \cup FpuMemArith \cup FpuMemStore
                  \cup FpuMemInteger \cup FpuContext)

SimdOps ==
  Chosen(SimdForm, Execute0F10 \cup Execute0F28 \cup Execute0F50 \cup Execute0F58
                   \cup Execute0F60 \cup Execute0F68 \cup Execute0F70 \cup Execute0F7C
                   \cup Execute0F7E \cup Execute0FC2 \cup Execute0FD0 \cup Execute0FD8
                   \cup Execute0FE0 \cup Execute0FE8 \cup Execute0FF1 \cup Execute0FF8
                   \cup Execute0F38 \cup Emms)

(***************************************************************************)
(* String instructions (ops/string.c).  An iteration of REP commits the    *)
(* index registers and the count after its accesses; Again leads to the    *)
(* effect the next iteration starts with.                                  *)
(***************************************************************************)
MovsOps ==
  [movs |-> <<Ld("src"), St("dst"), Up("si"), Up("di")>>,
   rep_movs |-> <<Ld("src"), St("dst"), Up("si"), Up("di"), Up("cx"), Again(1)>>]

StosOps ==
  [stos |-> <<St("dst"), Up("di")>>, rep_stos |-> <<St("dst"), Up("di"), Up("cx"), Again(1)>>]

ScasOps ==
  [scas |-> <<Ld("dst"), Up("di"), Up("flags")>>,
   rep_scas |-> <<Ld("dst"), Up("di"), Up("cx"), Up("flags"), Again(1)>>]

\* insN reads the port before it stores.
InsOps ==
  [ins |-> IoCheck \o <<Up("port"), St("dst"), Up("di")>>,
   rep_ins |-> IoCheck \o <<Up("port"), St("dst"), Up("di"), Up("cx"), Again(Len(IoCheck) + 1)>>]

OutsOps ==
  [outs |-> IoCheck \o <<Ld("src"), Up("port"), Up("si")>>,
   rep_outs |-> IoCheck \o <<Ld("src"), Up("port"), Up("si"), Up("cx"), Again(Len(IoCheck) + 1)>>]

CmpsOps ==
  [cmps |-> <<Ld("src"), Ld("dst"), Up("di"), Up("si"), Up("flags")>>,
   rep_cmps |-> <<Ld("src"), Ld("dst"), Up("di"), Up("si"), Up("cx"), Up("flags"), Again(1)>>]

LodsOps ==
  [lods |-> <<Ld("src"), Up("gpr"), Up("si")>>,
   rep_lods |-> <<Ld("src"), Up("gpr"), Up("si"), Up("cx"), Again(1)>>]

(***************************************************************************)
(* All of them.                                                            *)
(***************************************************************************)
Tables ==
  {NearJumpOps, LoopOps, JccOps, CallRetOps, StackOps, PushaOps, ArithOps, CmpOps, TestOps,
   IncDecOps, MulDivOps, ShiftdOps, IoOps, MovOps, MoffsCmovOps, LoadFarOps, XchgOps,
   CmpxchgOps, BcdOps, BitOps, SystemOps, FrameOps, TableOps, ControlRegOps, VerifyOps,
   ExtendOps, MxcsrOps, FlagOps, MovsOps, StosOps, ScasOps, InsOps, OutsOps, CmpsOps, LodsOps,
   JmpfOps, CallfOps, RetfOps, IretOps, IretOuterOps, IntOps, IntInnerOps, TaskOps,
   SysenterOps, FpuOps, SimdOps}

Ops ==
  [n \in UNION {DOMAIN t : t \in Tables} |-> (CHOOSE t \in Tables : n \in DOMAIN t)[n]]

\* The locations a list of effects accesses, or loads.
LocsOf(body, kinds) == {body[i].at : i \in {j \in DOMAIN body : body[j].do \in kinds}}

\* One operand, of a width that can straddle a page.
Splittable(o) ==
  /\ \E l \in {"m", "stack", "frame", "src", "dst"} : LocsOf(Ops[o], Accesses) = {l}
  /\ o # "xchg_e8"

VARIABLES op,          \* the instruction
          split,       \* its operand is across two pages
          pc,          \* the next of its effects
          beyond,      \* of the next access, the part in the second page
          pte,         \* page table: what the page of a location allows
          tags,        \* cpu.tlb_tags: the accesses translated for it
          changed,     \* registers changed since the instruction (iteration) began
          stored,      \* locations stored to since
          unchecked,   \* the pages stored to that do not allow it, by their pte
          ranOn,       \* a fault was delivered and the handler went on
          status,      \* "run", "fault", "done"
          rounds, faults

vars ==
  <<op, split, pc, beyond, pte, tags, changed, stored, unchecked, ranOn, status, rounds, faults>>

Body == Ops[op]

\* With the second page of an operand that is across two.
Places(kinds) ==
  LocsOf(Body, kinds) \cup {l \in {"beyond"} : split /\ LocsOf(Body, kinds) # {}}
Locs == Places(Accesses)

\* What cpu_mmu_translate() lets through.  "open" is a 4 MB page the guest has
\* made read-only, or the supervisor's: of such a page only the present bit is
\* looked at, its R/W and U/S bits are not.
PageKinds == {"none", "ro", "rw", "open"}
Allows(p) ==
  CASE p = "none" -> {} [] p = "ro" -> {"r"} [] p \in {"rw", "open"} -> {"r", "w"}

\* A translation is in the TLB only if the page allowed it.
Init ==
  /\ op \in DOMAIN Ops /\ split \in {FALSE, Splittable(op)}
  /\ pc = 1 /\ beyond = FALSE
  /\ pte \in [Locs -> PageKinds]
  /\ tags \in [Locs -> {{}, {"r"}, {"r", "w"}}]
  /\ \A l \in Locs : tags[l] \subseteq Allows(pte[l])
  /\ changed = {} /\ stored = {} /\ unchecked = {} /\ ranOn = FALSE
  /\ status = "run" /\ rounds = 0 /\ faults = 0

Running == status = "run" /\ pc <= Len(Body)

Now == Body[pc]
Where == IF beyond THEN "beyond" ELSE Now.at

\* cpu_access_readN() and cpu_access_writeN() take an operand across two pages
\* byte by byte.
Forward ==
  IF split /\ Now.do \in Accesses /\ ~beyond
  THEN beyond' = TRUE /\ UNCHANGED pc
  ELSE beyond' = FALSE /\ pc' = pc + 1

\* The tag lets the access through.
Translated ==
  IF Now.as = "raw" THEN tags[Where] # {} ELSE Now.as \in tags[Where]

Wanted == IF Now.as = "r" THEN "r" ELSE "w"

Permitted == Wanted \in Allows(pte[Where])

\* Mutant: a translation for reading fills the write tags too.
FillBoth == tags' = [tags EXCEPT ![Where] = {"r", "w"}]

\* cpu_set_tlb_entry(): a translation for reading leaves the write tags invalid.
Fill == tags' = [tags EXCEPT ![Where] = IF Wanted = "w" THEN {"r", "w"} ELSE {"r"}]

\* The TLB macro, cpu_access_readN(), cpu_access_writeN(), cpu_mmu_translate().
Reach ==
  \/ Translated /\ UNCHANGED tags
  \/ ~Translated /\ Permitted /\ Fill

\* cpu_exception() has delivered the exception; EXCEP() restarts the guest in
\* its handler, unless the handler of the instruction drops the result.
Deliver ==
  \/ Now.onFault = "stop" /\ status' = "fault" /\ UNCHANGED <<pc, beyond, ranOn>>
  \/ Now.onFault = "goOn" /\ Forward /\ ranOn' = TRUE /\ UNCHANGED status
  \/ Now.onFault = "end" /\ pc' = Len(Body) + 1 /\ beyond' = FALSE
     /\ ranOn' = TRUE /\ UNCHANGED status

Load ==
  /\ Running /\ Now.do \in {"load", "probe"}
  /\ Reach /\ Forward
  /\ UNCHANGED <<op, split, pte, changed, stored, unchecked, ranOn, status, rounds, faults>>

\* The guest's page table is what decides whether the store is allowed, whatever
\* the program asked the TLB for.
Store ==
  /\ Running /\ Now.do = "store"
  /\ Reach /\ Forward
  /\ stored' = stored \cup {Where}
  /\ unchecked' = IF pte[Where] = "rw" THEN unchecked ELSE unchecked \cup {pte[Where]}
  /\ UNCHANGED <<op, split, pte, changed, ranOn, status, rounds, faults>>

PageFault ==
  /\ Running /\ Now.do \in Accesses
  /\ ~Translated /\ ~Permitted
  /\ Deliver
  /\ UNCHANGED <<op, split, pte, tags, changed, stored, unchecked, rounds, faults>>

\* Any other exception, a #GP, #UD, #NM, #DE, #MF and so on.
Check ==
  /\ Running /\ Now.do = "check"
  /\ \/ Forward /\ UNCHANGED <<ranOn, status>>
     \/ Deliver
  /\ UNCHANGED <<op, split, pte, tags, changed, stored, unchecked, rounds, faults>>

Assign ==
  /\ Running
  /\ \/ Now.do = "set" /\ changed' = changed \cup {Now.at}
     \/ Now.do = "restore" /\ changed' = changed \ {Now.at}
  /\ Forward
  /\ UNCHANGED <<op, split, pte, tags, stored, unchecked, ranOn, status, rounds, faults>>

\* The registers of a complete iteration are those a restart goes on from.
NextRound ==
  /\ Running /\ Now.do = "again"
  /\ \/ rounds < MaxRepeats /\ rounds' = rounds + 1 /\ pc' = Now.at /\ beyond' = FALSE
     \/ Forward /\ UNCHANGED rounds
  /\ changed' = {} /\ stored' = {}
  /\ UNCHANGED <<op, split, pte, tags, unchecked, ranOn, status, faults>>

\* NEXT() and STOP().
Finish ==
  /\ status = "run" /\ pc > Len(Body)
  /\ status' = "done"
  /\ UNCHANGED <<op, split, pc, beyond, pte, tags,
                 changed, stored, unchecked, ranOn, rounds, faults>>

\* The guest's page fault handler: the page is made accessible, another one may
\* be taken away, both are flushed from the TLB, and IRET restarts the
\* instruction.
Repair(lost) ==
  /\ status = "fault" /\ Now.do \in Accesses /\ faults < MaxFaults
  /\ lost \subseteq Locs \ {Where}
  /\ pte' = [l \in Locs |-> IF l = Where THEN (IF Wanted = "w" THEN "rw" ELSE "ro")
                           ELSE IF l \in lost THEN "none" ELSE pte[l]]
  /\ tags' = [l \in Locs |-> IF l = Where \/ l \in lost THEN {} ELSE tags[l]]
  /\ pc' = 1 /\ beyond' = FALSE /\ status' = "run" /\ faults' = faults + 1
  /\ changed' = {} /\ stored' = {}
  /\ UNCHANGED <<op, split, unchecked, ranOn, rounds>>

Next ==
  \/ Load \/ Store \/ PageFault \/ Check \/ Assign \/ NextRound \/ Finish
  \/ \E l \in Locs : Repair({l}) \/ Repair({})

Spec == Init /\ [][Next]_vars

-----------------------------------------------------------------------------
TypeOK ==
  /\ op \in DOMAIN Ops /\ split \in {FALSE, Splittable(op)}
  /\ pc \in 1 .. Len(Body) + 1
  /\ beyond \in BOOLEAN /\ (beyond => split /\ pc <= Len(Body) /\ Now.do \in Accesses)
  /\ DOMAIN pte = Locs /\ DOMAIN tags = Locs
  /\ \A l \in Locs : tags[l] \subseteq Allows(pte[l])
  /\ stored \subseteq Locs /\ unchecked \subseteq PageKinds
  /\ status \in {"run", "fault", "done"}
  /\ rounds \in 0 .. MaxRepeats /\ faults \in 0 .. MaxFaults

\* The registers an instruction may have changed when one of its exceptions is
\* delivered.  A segment register is loaded before the accessed bit of its
\* descriptor is written back, and lds and its kin load it before they read
\* the offset; a far transfer has CS and EIP, and in some cases ESP, when the
\* accessed bit of CS faults; enter commits ESP push by push; popf with VME
\* pops before it checks; ins consumes the port before it stores; the x87
\* pointers are updated before the operand is accessed, the status word before
\* it is stored (the restart of an FST or FIST may raise #MF for it, fpu.c:1417)
\* and the tag word before FSAVE stores; CHECK_MMX resets the x87 stack; an SSE
\* operation writes its result before it raises #XM.
Imprecise(o) ==
  CASE o \in {"mov_s_r", "mov_s_e", "pop_s"} -> {"seg"}
    [] o \in {"lds", "lds_real"} -> {"seg", "mode"}
    [] o \in {"enter", "popf_vme"} -> {"esp"}
    [] o \in {"ins", "rep_ins"} -> {"port"}
    [] o \in {"jmpf", "jmpf_gate", "callf", "callf_gate", "retf", "iret"} -> {"eip", "seg"}
    [] o \in {"retf_outer", "iret_outer"} -> {"eip", "seg", "mode"}
    [] o = "int" -> {"esp", "eip", "seg"}
    [] o \in {"callf_inner", "int_inner", "int_leave_v86"} -> {"esp", "eip", "seg", "mode"}
    [] o = "fpu_load_int" -> {"fpuptr"}
    [] o = "fpu_store" -> {"fpuptr", "fpusw"}
    [] o = "fsave" -> {"fputag"}
    [] o = "frstor" -> {"fpu"}
    [] o \in {"mmx_load", "mmx_store", "mmx_mask"} -> {"fpu"}
    [] o = "sse_arith" -> {"xmm"}
    [] o = "sse_to_gpr" -> {"gpr"}
    [] o = "sse_compare" -> {"flags"}
    [] o = "sse_to_mmx" -> {"mmx"}
    [] OTHER -> {}

\* lar, lsl, verr and verw take a page fault for an invalid selector; FXSAVE
\* drops the result of fpu_store_f80(); FPU_ABORT() follows a fault of FSTENV
\* or FLDENV, and a #MF of fpu_fwait().
RunsOn == {"lar", "verr", "fxsave", "fstenv", "fldenv", "fsave", "frstor", "fpu_abort"}

\* An exception leaves the registers as they were when the instruction, or the
\* iteration of REP, began, so that the guest's handler can restart it: ESP
\* in particular is not moved by a push, a pop, a call or a return that
\* faults.  The instructions that break this are those Imprecise names; a task
\* switch may fault in the new task once it has loaded TR.  And it ends the
\* instruction: nothing of it is executed, nor EIP advanced, in the context of
\* the guest's handler.  The ignored result of the writes of a
\* read-modify-write is harmless; the instructions of RunsOn do run on.
Precise ==
  /\ status = "fault" => changed \subseteq Imprecise(op) \/ "tr" \in changed
  /\ ranOn => op \in RunsOn

\* No instruction faults after it has overwritten a location it reads: the
\* restart would take its own result for the operand (a read-modify-write
\* probes all of its operand for writing before it writes any of it).  The
\* accessed and busy bits of descriptors may be written twice.
NotTorn ==
  status = "fault" => Places({"load"}) \cap stored \subseteq {"desc"}

\* Every store goes to a page the guest's page table lets the program write, but
\* for 4 MB pages, which cpu_mmu_translate() takes for writable by anyone
\* (mmu.c:159).  Of the handlers, stmxcsr asks for a read and xchg r8, m8 looks at
\* the wrong bits of the tag: these write to any page.
StoresChecked == unchecked \subseteq {"open"} \/ op \in {"stmxcsr", "xchg_e8"}
=============================================================================
