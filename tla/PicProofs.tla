----------------------------- MODULE PicProofs -----------------------------
(***************************************************************************)
(* Theorems about Pic, for any number of inputs, devices, masks and uses:  *)
(* no interrupt is taken while it is in service; with fixed priorities a   *)
(* nested interrupt outranks those it nests in; and what the pair signals  *)
(* is what it should: the first in order of priority, and under plain use  *)
(* every request that outranks what is in service.                         *)
(***************************************************************************)
EXTENDS Pic, WellFoundedInduction, TLAPS

\* What both invariants come to, for a pair <<master, slave>> and the INTR line.
LatchFree(m, s, line) ==
    /\ line => m.hp \notin m.isr
    /\ Cascade \in m.irr => s.hp \notin s.isr

IInv == TypeOK /\ NoReentry

-----------------------------------------------------------------------------
(* One controller.                                                          *)

\* A rank is an integer, so no input outranks itself.
LEMMA RankInt ==
    ASSUME NEW c \in Controller, NEW i \in Lines
    PROVE  Rank(c, i) \in Int
  BY PicAssumption DEF Rank, Controller, Lines

\* The search of pic_internal_update() only finds a requested input that is not in service.
LEMMA CandidateFree ==
    ASSUME NEW c \in Controller, NEW i \in Candidate(c)
    PROVE  i \in Lines /\ i \in c.irr /\ i \notin c.isr
  <1>1. i \in c.irr /\ i \in Lines
    BY DEF Candidate, NestedCandidate, SpecialCandidate, Unmasked, Controller
  <1>2. CASE c.special
    BY <1>1, <1>2 DEF Candidate, SpecialCandidate
  <1>3. CASE ~c.special
    <2>1. ASSUME i \in c.isr PROVE FALSE
      <3>1. Rank(c, i) < Rank(c, i)
        BY <1>3, <2>1 DEF Candidate, NestedCandidate
      <3>2. QED BY <1>1, <3>1, RankInt
    <2>2. QED BY <1>1, <2>1
  <1>4. QED BY <1>2, <1>3

\* Latching changes hp only, and to an input that is not in service.
LEMMA LatchedKeeps ==
    ASSUME NEW c \in Controller
    PROVE  /\ Latched(c) \in Controller
           /\ Latched(c).irr = c.irr /\ Latched(c).isr = c.isr
           /\ Signals(c) => Latched(c).hp \notin c.isr
           /\ ~Signals(c) => Latched(c) = c
  <1>1. CASE Signals(c)
    <2> DEFINE h == CHOOSE i \in Candidate(c) : TRUE
    <2>1. h \in Candidate(c)
      BY <1>1 DEF Signals
    <2>2. h \in Lines /\ h \notin c.isr
      BY <2>1, CandidateFree
    <2>3. Latched(c) = [c EXCEPT !.hp = h]
      BY <1>1 DEF Latched
    <2> HIDE DEF h
    <2>4. QED BY <1>1, <2>2, <2>3 DEF Controller
  <1>2. CASE ~Signals(c)
    BY <1>2 DEF Latched
  <1>3. QED BY <1>1, <1>2

LEMMA PinsKeep ==
    ASSUME NEW c \in Controller, NEW i \in Lines
    PROVE  /\ Asserted(c, i) \in Controller /\ Deasserted(c, i) \in Controller
           /\ Asserted(c, i).isr = c.isr /\ Deasserted(c, i).isr = c.isr
           /\ Asserted(c, i).hp = c.hp /\ Deasserted(c, i).hp = c.hp
           /\ Asserted(c, i).irr = c.irr \cup {i} /\ Deasserted(c, i).irr = c.irr \ {i}
  BY DEF Asserted, Deasserted, Controller

\* Acknowledging takes the latched input out of the requests.
LEMMA AcknowledgedKeeps ==
    ASSUME NEW c \in Controller
    PROVE  /\ Acknowledged(c) \in Controller
           /\ Acknowledged(c).hp = c.hp
           /\ Acknowledged(c).irr = c.irr \ {c.hp}
  BY DEF Acknowledged, Genuine, Controller

-----------------------------------------------------------------------------
(* The pair.                                                                *)

LEMMA UpdateMasterKeeps ==
    ASSUME intr \in BOOLEAN, NEW m \in Controller, NEW s,
           LatchFree(m, s, intr), UpdateMaster(m)
    PROVE  master' \in Controller /\ intr' \in BOOLEAN /\ LatchFree(master', s, intr')
  <1>1. /\ master' \in Controller
        /\ master'.irr = m.irr /\ master'.isr = m.isr
        /\ Signals(m) => master'.hp \notin m.isr
        /\ ~Signals(m) => master' = m
    BY LatchedKeeps DEF UpdateMaster
  <1>2. intr' \in BOOLEAN /\ (intr' <=> intr \/ Signals(m))
    BY DEF UpdateMaster
  <1>3. intr' => master'.hp \notin master'.isr
    BY <1>1, <1>2 DEF LatchFree
  <1>4. QED BY <1>1, <1>2, <1>3 DEF LatchFree

LEMMA UpdateSlaveKeeps ==
    ASSUME intr \in BOOLEAN, NEW m \in Controller, NEW s \in Controller,
           LatchFree(m, s, intr), UpdateSlave(s, m)
    PROVE  /\ master' \in Controller /\ slave' \in Controller /\ intr' \in BOOLEAN
           /\ LatchFree(master', slave', intr')
  <1>1. /\ slave' \in Controller
        /\ Signals(s) => slave'.hp \notin slave'.isr
        /\ ~Signals(s) => slave' = s
    BY LatchedKeeps DEF UpdateSlave
  <1>2. CASE Signals(s)
    <2>1. UpdateMaster(Asserted(m, Cascade))
      BY <1>2 DEF UpdateSlave
    <2>2. Cascade \in Lines
      BY PicAssumption
    <2>3. /\ Asserted(m, Cascade) \in Controller
          /\ LatchFree(Asserted(m, Cascade), slave', intr)
      BY <1>1, <1>2, <2>2, PinsKeep DEF LatchFree
    <2>4. QED BY <1>1, <2>1, <2>3, UpdateMasterKeeps
  <1>3. CASE ~Signals(s)
    BY <1>1, <1>3 DEF UpdateSlave, LatchFree
  <1>4. QED BY <1>2, <1>3

\* An update of either controller, after a change that frees no latched input.
LEMMA UpdateKeeps ==
    ASSUME TypeOK, NEW chip \in Chips, NEW c \in Controller,
           chip = "master" => LatchFree(c, slave, intr),
           chip = "slave" => LatchFree(master, c, intr),
           Update(chip, c)
    PROVE  /\ master' \in Controller /\ slave' \in Controller /\ intr' \in BOOLEAN
           /\ LatchFree(master', slave', intr')
  <1>1. CASE chip = "master"
    <2>1. UpdateMaster(c) /\ slave' = slave
      BY <1>1 DEF Update
    <2>2. QED BY <1>1, <2>1, UpdateMasterKeeps DEF TypeOK
  <1>2. CASE chip = "slave"
    <2>1. UpdateSlave(c, master)
      BY <1>2 DEF Update
    <2>2. QED BY <1>2, <2>1, UpdateSlaveKeeps DEF TypeOK
  <1>3. QED BY <1>1, <1>2 DEF Chips

\* The same for a handler that stores a controller and ends without an update.
LEMMA StoreKeeps ==
    ASSUME TypeOK, NEW chip \in Chips, NEW c \in Controller, NEW line \in BOOLEAN,
           chip = "master" => LatchFree(c, slave, line),
           chip = "slave" => LatchFree(master, c, line),
           Store(chip, c), intr' = line
    PROVE  /\ master' \in Controller /\ slave' \in Controller /\ intr' \in BOOLEAN
           /\ LatchFree(master', slave', intr')
  <1>1. CASE chip = "master"
    BY <1>1 DEF Store, TypeOK
  <1>2. CASE chip = "slave"
    BY <1>2 DEF Store, TypeOK
  <1>3. QED BY <1>1, <1>2 DEF Chips

LEMMA ControllerOfType ==
    ASSUME TypeOK, NEW chip \in Chips
    PROVE  ControllerOf(chip) \in Controller
  BY DEF ControllerOf, TypeOK

\* A controller that differs from the current one in neither hp nor requests,
\* and has nothing more in service.
LEMMA FewerInService ==
    ASSUME IInv, NEW chip \in Chips, NEW c \in Controller,
           c.hp = ControllerOf(chip).hp, c.irr \subseteq ControllerOf(chip).irr,
           c.isr \subseteq ControllerOf(chip).isr
    PROVE  /\ chip = "master" => LatchFree(c, slave, intr)
           /\ chip = "slave" => LatchFree(master, c, intr)
  BY DEF IInv, NoReentry, LatchFree, ControllerOf

-----------------------------------------------------------------------------
(* The initial states and the steps.                                        *)

LEMMA InitInv == Init => IInv
  <1> SUFFICES ASSUME Init PROVE IInv
    OBVIOUS
  <1>1. PowerOnController \in Controller /\ PowerOnController.irr = {}
    BY PicAssumption DEF PowerOnController, Controller, Lines
  <1>2. ASSUME NEW mask \in Masks
        PROVE  BiosController(mask) \in Controller /\ BiosController(mask).irr = {}
    <2>1. mask \in SUBSET Lines /\ NumLines - 1 \in Lines
      BY PicAssumption DEF Lines
    <2>2. QED BY <1>1, <2>1 DEF BiosController, Controller
  <1>3. /\ master \in Controller /\ slave \in Controller
        /\ master.irr = {} /\ intr = FALSE
    BY <1>1, <1>2 DEF Init
  <1>4. use \in Uses /\ raises \in Nat /\ inits \in [Chips -> Nat]
    BY DEF Init
  <1>5. QED BY <1>3, <1>4 DEF IInv, TypeOK, NoReentry

LEMMA CountsKept ==
    ASSUME TypeOK, UNCHANGED <<use, raises, inits>> \/ CountRaise
    PROVE  use' \in Uses /\ raises' \in Nat /\ inits' \in [Chips -> Nat]
  BY DEF TypeOK, CountRaise

\* What each step lemma shows of the pair is enough for the invariant.
LEMMA Assemble ==
    ASSUME master' \in Controller, slave' \in Controller, intr' \in BOOLEAN,
           LatchFree(master', slave', intr'),
           use' \in Uses, raises' \in Nat, inits' \in [Chips -> Nat]
    PROVE  IInv'
  BY DEF IInv, TypeOK, NoReentry, LatchFree

LEMMA DeviceInv ==
    ASSUME IInv, NEW l \in DeviceLines,
           RaiseIrq(l[1], l[2]) \/ LowerIrq(l[1], l[2]) \/ PulseIrq(l[1], l[2])
    PROVE  IInv'
  <1> DEFINE chip == l[1]
             i == l[2]
  <1>1. chip \in Chips /\ i \in Lines /\ Cascade \in Lines
        /\ (chip = "master" => i # Cascade)
    BY PicAssumption
  <1>2. /\ master \in Controller /\ slave \in Controller /\ intr \in BOOLEAN
        /\ LatchFree(master, slave, intr)
    BY DEF IInv, TypeOK, NoReentry, LatchFree
  <1>3. TypeOK
    BY DEF IInv
  <1> HIDE DEF chip, i
  <1>4. ASSUME NEW c \in Controller
        PROVE  /\ Asserted(c, i) \in Controller /\ Deasserted(c, i) \in Controller
               /\ Asserted(c, i).isr = c.isr /\ Deasserted(c, i).isr = c.isr
               /\ Asserted(c, i).hp = c.hp /\ Deasserted(c, i).hp = c.hp
               /\ Asserted(c, i).irr = c.irr \cup {i} /\ Deasserted(c, i).irr = c.irr \ {i}
    BY <1>1, PinsKeep
  <1>5. LatchFree(Asserted(master, i), slave, intr) \/ chip # "master"
    BY <1>1, <1>2, <1>4 DEF LatchFree
  <1>6. LatchFree(master, Asserted(slave, i), intr)
    BY <1>2, <1>4 DEF LatchFree
  <1>7. /\ MasterBehind(Deasserted(slave, i)) \in Controller
        /\ LatchFree(MasterBehind(Deasserted(slave, i)), slave, intr)
    <2> DEFINE m == MasterBehind(Deasserted(slave, i))
    <2>1. m = master \/ m = Deasserted(master, Cascade)
      BY DEF MasterBehind
    <2>2. /\ Deasserted(master, Cascade) \in Controller
          /\ LatchFree(Deasserted(master, Cascade), slave, intr)
      <3>1. /\ Deasserted(master, Cascade) \in Controller
            /\ Deasserted(master, Cascade).isr = master.isr
            /\ Deasserted(master, Cascade).hp = master.hp
            /\ Deasserted(master, Cascade).irr = master.irr \ {Cascade}
        BY <1>1, <1>2, PinsKeep
      <3>2. QED BY <1>2, <3>1 DEF LatchFree
    <2>3. QED BY <1>2, <2>1, <2>2
  <1>8. CASE RaiseIrq(chip, i)
    <2>1. Update(chip, Asserted(ControllerOf(chip), i)) /\ CountRaise
      BY <1>8 DEF RaiseIrq
    <2>2. ControllerOf(chip) \in Controller
      BY <1>1, <1>3, ControllerOfType
    <2>3. /\ chip = "master" => LatchFree(Asserted(ControllerOf(chip), i), slave, intr)
          /\ chip = "slave" => LatchFree(master, Asserted(ControllerOf(chip), i), intr)
      BY <1>5, <1>6 DEF ControllerOf
    <2>4. QED BY <1>1, <1>3, <1>4, <2>1, <2>2, <2>3, UpdateKeeps, CountsKept, Assemble
  <1>9. CASE LowerIrq(chip, i)
    <2>1. UNCHANGED <<intr, use, raises, inits>>
      BY <1>9 DEF LowerIrq
    <2>2. CASE chip = "master"
      <3>1. master' = Deasserted(master, i) /\ slave' = slave
        BY <1>9, <2>2 DEF LowerIrq
      <3>2. LatchFree(master', slave', intr')
        BY <1>2, <1>4, <2>1, <3>1 DEF LatchFree
      <3>3. QED BY <1>2, <1>3, <1>4, <2>1, <3>1, <3>2, CountsKept, Assemble
    <2>3. CASE chip = "slave"
      <3>1. slave' = Deasserted(slave, i) /\ master' = MasterBehind(slave')
        BY <1>9, <2>3 DEF LowerIrq
      <3>2. LatchFree(master', slave', intr')
        BY <1>2, <1>4, <1>7, <2>1, <3>1 DEF LatchFree
      <3>3. QED BY <1>2, <1>3, <1>4, <1>7, <2>1, <3>1, <3>2, CountsKept, Assemble
    <2>4. QED BY <1>1, <2>2, <2>3 DEF Chips
  <1>10. CASE PulseIrq(chip, i)
    <2>1. CountRaise
      BY <1>10 DEF PulseIrq
    <2>2. CASE chip = "master"
      <3>1. UpdateMaster(Asserted(master, i)) /\ slave' = slave
        BY <1>10, <2>2 DEF PulseIrq
      <3>2. LatchFree(Asserted(master, i), slave, intr)
        BY <1>5, <2>2
      <3>3. QED BY <1>2, <1>3, <1>4, <2>1, <3>1, <3>2, UpdateMasterKeeps, CountsKept, Assemble
    <2>3. CASE chip = "slave"
      <3>1. UpdateSlave(Asserted(slave, i), MasterBehind(Deasserted(slave, i)))
        BY <1>10, <2>3 DEF PulseIrq
      <3>2. LatchFree(MasterBehind(Deasserted(slave, i)), Asserted(slave, i), intr)
        BY <1>2, <1>4, <1>7 DEF LatchFree
      <3>3. QED BY <1>2, <1>3, <1>4, <1>7, <2>1, <3>1, <3>2, UpdateSlaveKeeps, CountsKept, Assemble
    <2>4. QED BY <1>1, <2>2, <2>3 DEF Chips
  <1>11. QED BY <1>8, <1>9, <1>10 DEF chip, i

LEMMA GetInterruptInv ==
    ASSUME IInv, GetInterrupt
    PROVE  IInv'
  <1>1. master \in Controller /\ slave \in Controller /\ TypeOK
    BY DEF IInv, TypeOK
  <1>2. /\ intr' = FALSE /\ master' = Acknowledged(master)
        /\ slave' = IF Genuine(master) /\ master.hp = Cascade
                    THEN Acknowledged(slave) ELSE slave
        /\ UNCHANGED <<use, raises, inits>>
    BY DEF GetInterrupt
  <1>3. master' \in Controller /\ slave' \in Controller
    BY <1>1, <1>2, AcknowledgedKeeps
  <1>4. ASSUME Cascade \in master'.irr PROVE slave'.hp \notin slave'.isr
    <2>1. Cascade \in master.irr /\ Cascade # master.hp
      BY <1>1, <1>2, <1>4, AcknowledgedKeeps
    <2>2. slave' = slave /\ slave.hp \notin slave.isr
      BY <1>2, <2>1 DEF IInv, NoReentry
    <2>3. QED BY <2>2
  <1>5. LatchFree(master', slave', intr')
    BY <1>2, <1>4 DEF LatchFree
  <1>6. QED BY <1>1, <1>2, <1>3, <1>5, CountsKept, Assemble

LEMMA StoreInv ==
    ASSUME IInv, NEW chip \in Chips, NEW c \in Controller,
           c.hp = ControllerOf(chip).hp, c.irr \subseteq ControllerOf(chip).irr,
           c.isr \subseteq ControllerOf(chip).isr,
           \/ Store(chip, c) /\ UNCHANGED intr
           \/ Update(chip, c),
           UNCHANGED <<use, raises, inits>>
    PROVE  IInv'
  <1>1. /\ chip = "master" => LatchFree(c, slave, intr)
        /\ chip = "slave" => LatchFree(master, c, intr)
    BY FewerInService
  <1>2. TypeOK /\ intr \in BOOLEAN
    BY DEF IInv, TypeOK
  <1>3. CASE Store(chip, c) /\ UNCHANGED intr
    BY <1>1, <1>2, <1>3, StoreKeeps, CountsKept, Assemble
  <1>4. CASE Update(chip, c)
    BY <1>1, <1>2, <1>4, UpdateKeeps, CountsKept, Assemble
  <1>5. QED BY <1>3, <1>4

LEMMA Icw1Inv ==
    ASSUME IInv, NEW chip \in Chips, WriteIcw1(chip)
    PROVE  IInv'
  <1> DEFINE o == ControllerOf(chip)
  <1>1. PICK todo \in SUBSET {2, 3, 4} : Store(chip, Initialized(o, todo))
    BY DEF WriteIcw1
  <1>2. o \in Controller /\ TypeOK
    BY ControllerOfType DEF IInv
  <1>3. NumLines - 1 \in Lines
    BY PicAssumption DEF Lines
  <1>4. /\ Initialized(o, todo) \in Controller
        /\ Initialized(o, todo).irr = {} /\ Initialized(o, todo).isr = {}
    BY <1>2, <1>3 DEF Initialized, Controller
  <1>5. /\ chip = "master" => LatchFree(Initialized(o, todo), slave, FALSE)
        /\ chip = "slave" => LatchFree(master, Initialized(o, todo), FALSE)
    BY <1>4 DEF LatchFree
  <1>6. use' \in Uses /\ raises' \in Nat /\ inits' \in [Chips -> Nat] /\ intr' = FALSE
    BY <1>2 DEF WriteIcw1, TypeOK
  <1> HIDE DEF o
  <1>7. /\ master' \in Controller /\ slave' \in Controller /\ intr' \in BOOLEAN
        /\ LatchFree(master', slave', intr')
    BY <1>1, <1>2, <1>4, <1>5, <1>6, StoreKeeps
  <1>8. QED BY <1>6, <1>7, Assemble

LEMMA GuestInv ==
    ASSUME IInv, NEW chip \in Chips,
           \/ WriteIcw(chip)
           \/ \E mask \in Masks : WriteOcw1(chip, mask)
           \/ \E level \in Lines : WriteEoi(chip, level) \/ WriteSetPriority(chip, level)
           \/ WriteRotateInAutoEoi(chip)
           \/ WriteOcw3(chip)
    PROVE  IInv'
  <1> DEFINE o == ControllerOf(chip)
  <1>1. o \in Controller
    BY ControllerOfType DEF IInv
  <1>2. ASSUME NEW c \in Controller, c.hp = o.hp, c.irr = o.irr, c.isr \subseteq o.isr,
               (Store(chip, c) /\ UNCHANGED intr) \/ Update(chip, c),
               UNCHANGED <<use, raises, inits>>
        PROVE  IInv'
    BY <1>2, StoreInv
  <1>3. CASE WriteIcw(chip)
    <2>1. PICK word \in o.todo, aeoi \in BOOLEAN :
            /\ Store(chip, [o EXCEPT !.todo = @ \ {word},
                                     !.aeoi = IF word = 4 THEN aeoi ELSE @])
            /\ UNCHANGED <<intr, use, raises, inits>>
      BY <1>3 DEF WriteIcw
    <2> DEFINE c == [o EXCEPT !.todo = @ \ {word}, !.aeoi = IF word = 4 THEN aeoi ELSE @]
    <2>2. c \in Controller /\ c.hp = o.hp /\ c.irr = o.irr /\ c.isr = o.isr
      BY <1>1 DEF Controller
    <2> HIDE DEF o, c
    <2>3. QED BY <1>2, <2>1, <2>2 DEF c
  <1>4. ASSUME NEW mask \in Masks, WriteOcw1(chip, mask) PROVE IInv'
    <2> DEFINE c == [o EXCEPT !.imr = mask]
    <2>1. Update(chip, c) /\ UNCHANGED <<use, raises, inits>>
      BY <1>4 DEF WriteOcw1
    <2>2. c \in Controller /\ c.hp = o.hp /\ c.irr = o.irr /\ c.isr = o.isr
      BY <1>1, PicAssumption DEF Controller
    <2> HIDE DEF o, c
    <2>3. QED BY <1>2, <2>1, <2>2
  <1>5. ASSUME NEW level \in Lines, WriteEoi(chip, level) PROVE IInv'
    <2>1. PICK specific \in BOOLEAN, rotate \in BOOLEAN :
            /\ Update(chip, [o EXCEPT !.isr = @ \ (IF specific THEN {level} ELSE TopInService(o)),
                                      !.base = IF rotate THEN level ELSE @])
            /\ UNCHANGED <<use, raises, inits>>
      BY <1>5 DEF WriteEoi
    <2> DEFINE ended == IF specific THEN {level} ELSE TopInService(o)
               c == [o EXCEPT !.isr = @ \ ended, !.base = IF rotate THEN level ELSE @]
    <2> HIDE DEF ended
    <2>2. c \in Controller /\ c.hp = o.hp /\ c.irr = o.irr /\ c.isr \subseteq o.isr
      BY <1>1 DEF Controller
    <2>3. Update(chip, c) /\ UNCHANGED <<use, raises, inits>>
      BY <2>1 DEF ended
    <2> HIDE DEF o, c
    <2>4. QED BY <1>2, <2>2, <2>3
  <1>6. ASSUME NEW level \in Lines, WriteSetPriority(chip, level) PROVE IInv'
    <2> DEFINE c == [o EXCEPT !.base = level]
    <2>1. Store(chip, c) /\ UNCHANGED <<intr, use, raises, inits>>
      BY <1>6 DEF WriteSetPriority
    <2>2. c \in Controller /\ c.hp = o.hp /\ c.irr = o.irr /\ c.isr = o.isr
      BY <1>1 DEF Controller
    <2> HIDE DEF o, c
    <2>3. QED BY <1>2, <2>1, <2>2
  <1>7. CASE WriteRotateInAutoEoi(chip)
    <2>1. PICK on \in BOOLEAN : /\ Store(chip, [o EXCEPT !.raeoi = on])
                                /\ UNCHANGED <<intr, use, raises, inits>>
      BY <1>7 DEF WriteRotateInAutoEoi
    <2> DEFINE c == [o EXCEPT !.raeoi = on]
    <2>2. c \in Controller /\ c.hp = o.hp /\ c.irr = o.irr /\ c.isr = o.isr
      BY <1>1 DEF Controller
    <2> HIDE DEF o, c
    <2>3. QED BY <1>2, <2>1, <2>2 DEF c
  <1>8. CASE WriteOcw3(chip)
    <2>1. PICK on \in BOOLEAN : /\ Store(chip, [o EXCEPT !.special = on])
                                /\ UNCHANGED <<intr, use, raises, inits>>
      BY <1>8 DEF WriteOcw3
    <2> DEFINE c == [o EXCEPT !.special = on]
    <2>2. c \in Controller /\ c.hp = o.hp /\ c.irr = o.irr /\ c.isr = o.isr
      BY <1>1 DEF Controller
    <2> HIDE DEF o, c
    <2>3. QED BY <1>2, <2>1, <2>2 DEF c
  <1>9. QED BY <1>3, <1>4, <1>5, <1>6, <1>7, <1>8

LEMMA ResetInv ==
    ASSUME IInv, Reset
    PROVE  IInv'
  <1>1. ASSUME NEW c \in Controller
        PROVE  /\ Cleared(c) \in Controller
               /\ Cleared(c).irr = {} /\ Cleared(c).isr = {}
    BY DEF Cleared, Controller
  <1>2. /\ master \in Controller /\ slave \in Controller /\ intr \in BOOLEAN /\ TypeOK
    BY DEF IInv, TypeOK
  <1>3. /\ master' = Cleared(master) /\ slave' = Cleared(slave)
        /\ UNCHANGED <<intr, use, raises, inits>>
    BY DEF Reset
  <1>4. LatchFree(master', slave', intr')
    BY <1>1, <1>2, <1>3 DEF LatchFree
  <1>5. QED BY <1>1, <1>2, <1>3, <1>4, CountsKept, Assemble

LEMMA NextInv == IInv /\ [Next]_vars => IInv'
  <1> SUFFICES ASSUME IInv, [Next]_vars PROVE IInv'
    OBVIOUS
  <1>1. CASE Device
    BY <1>1, DeviceInv DEF Device
  <1>2. CASE GetInterrupt
    BY <1>2, GetInterruptInv
  <1>3. CASE Guest
    <2>1. PICK chip \in Chips :
            \/ WriteIcw1(chip)
            \/ WriteIcw(chip)
            \/ \E mask \in Masks : WriteOcw1(chip, mask)
            \/ \E level \in Lines : WriteEoi(chip, level) \/ WriteSetPriority(chip, level)
            \/ WriteRotateInAutoEoi(chip)
            \/ WriteOcw3(chip)
      BY <1>3 DEF Guest
    <2>2. QED BY <2>1, Icw1Inv, GuestInv
  <1>4. CASE Reset
    BY <1>4, ResetInv
  <1>5. CASE UNCHANGED vars
    BY <1>5 DEF vars, IInv, TypeOK, NoReentry
  <1>6. QED BY <1>1, <1>2, <1>3, <1>4, <1>5 DEF Next

-----------------------------------------------------------------------------
\* Whatever devices and guest do, the controllers' registers stay within their types.
THEOREM TypeCorrect == Spec => []TypeOK
  <1>1. IInv => TypeOK
    BY DEF IInv
  <1>2. QED BY InitInv, NextInv, <1>1, PTL DEF Spec

\* Whatever devices and guest do, no interrupt in service is handed over again.
THEOREM NeverReentered == Spec => []NoReentry
  <1>1. IInv => NoReentry
    BY DEF IInv
  <1>2. QED BY InitInv, NextInv, <1>1, PTL DEF Spec

-----------------------------------------------------------------------------
(* With fixed priorities a nested interrupt outranks those it nests in.      *)

\* The latched input outranks what is in service.
Above(c) == \A j \in c.isr : Rank(c, c.hp) < Rank(c, j)

\* NestingOrder for a pair <<master, slave>> and the INTR line, with what it
\* needs: no controller is in special mask mode.
Ordered(m, s, line) ==
    /\ ~m.special /\ ~s.special
    /\ line => Above(m)
    /\ Cascade \in m.irr => Above(s)

OInv == FixedPriority => Ordered(master, slave, intr)

\* c is o with less in service, and perhaps other requests and modes.
Eased(c, o) ==
    /\ c \in Controller
    /\ c.hp = o.hp /\ c.base = o.base /\ c.special = o.special
    /\ c.isr \subseteq o.isr

-----------------------------------------------------------------------------
(* One controller.                                                          *)

LEMMA EasedAbove ==
    ASSUME NEW o, NEW c, Eased(c, o), Above(o)
    PROVE  Above(c)
  BY DEF Eased, Above, Rank

\* A new latch outranks what is in service: that is how it was chosen.
LEMMA LatchedAbove ==
    ASSUME NEW c \in Controller, ~c.special
    PROVE  /\ Latched(c) \in Controller
           /\ Latched(c).irr = c.irr /\ ~Latched(c).special
           /\ Signals(c) => Above(Latched(c))
           /\ ~Signals(c) => Latched(c) = c
  <1>1. CASE Signals(c)
    <2> DEFINE h == CHOOSE i \in Candidate(c) : TRUE
    <2>1. h \in Candidate(c)
      BY <1>1 DEF Signals
    <2>2. h \in Lines /\ \A j \in c.isr : Rank(c, h) < Rank(c, j)
      BY <2>1, CandidateFree DEF Candidate, NestedCandidate
    <2>3. Latched(c) = [c EXCEPT !.hp = h]
      BY <1>1 DEF Latched
    <2> HIDE DEF h
    <2>4. /\ Latched(c) \in Controller
          /\ Latched(c).hp = h /\ Latched(c).isr = c.isr /\ Latched(c).base = c.base
          /\ Latched(c).irr = c.irr /\ Latched(c).special = c.special
      BY <2>2, <2>3 DEF Controller
    <2>5. \A j \in Lines : Rank(Latched(c), j) = Rank(c, j)
      BY <2>4 DEF Rank
    <2>6. c.isr \subseteq Lines
      BY DEF Controller
    <2>7. QED BY <1>1, <2>2, <2>4, <2>5, <2>6 DEF Above
  <1>2. CASE ~Signals(c)
    BY <1>2 DEF Latched
  <1>3. QED BY <1>1, <1>2

LEMMA PinsEase ==
    ASSUME NEW c \in Controller, NEW i \in Lines
    PROVE  /\ Eased(Asserted(c, i), c) /\ Eased(Deasserted(c, i), c)
           /\ Asserted(c, i).irr = c.irr \cup {i} /\ Deasserted(c, i).irr = c.irr \ {i}
  BY DEF Eased, Asserted, Deasserted, Controller

-----------------------------------------------------------------------------
(* The pair.                                                                *)

LEMMA UpdateMasterOrder ==
    ASSUME NEW m \in Controller, NEW s, Ordered(m, s, intr), UpdateMaster(m)
    PROVE  Ordered(master', s, intr')
  <1>1. /\ master'.irr = m.irr /\ ~master'.special
        /\ Signals(m) => Above(master')
        /\ ~Signals(m) => master' = m
    BY LatchedAbove DEF UpdateMaster, Ordered
  <1>2. intr' <=> intr \/ Signals(m)
    BY DEF UpdateMaster
  <1>3. intr' => Above(master')
    BY <1>1, <1>2 DEF Ordered
  <1>4. QED BY <1>1, <1>3 DEF Ordered

LEMMA UpdateSlaveOrder ==
    ASSUME NEW m \in Controller, NEW s \in Controller,
           Ordered(m, s, intr), UpdateSlave(s, m)
    PROVE  Ordered(master', slave', intr')
  <1>1. /\ ~slave'.special
        /\ Signals(s) => Above(slave')
        /\ ~Signals(s) => slave' = s
    BY LatchedAbove DEF UpdateSlave, Ordered
  <1>2. CASE Signals(s)
    <2> DEFINE a == Asserted(m, Cascade)
    <2>1. UpdateMaster(a)
      BY <1>2 DEF UpdateSlave
    <2>2. Eased(a, m)
      BY PinsEase, PicAssumption
    <2>3. a \in Controller /\ ~a.special /\ (intr => Above(a))
      BY <2>2, EasedAbove DEF Ordered, Eased
    <2> HIDE DEF a
    <2>4. Ordered(a, slave', intr)
      BY <1>1, <1>2, <2>3 DEF Ordered
    <2>5. QED BY <2>1, <2>3, <2>4, UpdateMasterOrder
  <1>3. CASE ~Signals(s)
    BY <1>1, <1>3 DEF UpdateSlave
  <1>4. QED BY <1>2, <1>3

\* A controller eased, with no new request, and then updated or not.
LEMMA EasedOrder ==
    ASSUME TypeOK, Ordered(master, slave, intr), NEW chip \in Chips, NEW c,
           Eased(c, ControllerOf(chip)), c.irr \subseteq ControllerOf(chip).irr,
           \/ Store(chip, c) /\ UNCHANGED intr
           \/ Update(chip, c)
    PROVE  Ordered(master', slave', intr')
  <1>1. c \in Controller /\ master \in Controller /\ slave \in Controller
    BY DEF Eased, TypeOK
  <1>2. CASE chip = "master"
    <2>1. Ordered(c, slave, intr)
      BY <1>2, EasedAbove DEF Ordered, Eased, ControllerOf
    <2>2. CASE Store(chip, c) /\ UNCHANGED intr
      BY <1>2, <2>1, <2>2 DEF Store
    <2>3. CASE Update(chip, c)
      <3>1. UpdateMaster(c) /\ slave' = slave
        BY <1>2, <2>3 DEF Update
      <3>2. Ordered(master', slave, intr')
        BY <1>1, <2>1, <3>1, UpdateMasterOrder
      <3>3. QED BY <3>1, <3>2
    <2>4. QED BY <2>2, <2>3
  <1>3. CASE chip = "slave"
    <2>1. Ordered(master, c, intr)
      BY <1>3, EasedAbove DEF Ordered, Eased, ControllerOf
    <2>2. CASE Store(chip, c) /\ UNCHANGED intr
      BY <1>3, <2>1, <2>2 DEF Store
    <2>3. CASE Update(chip, c)
      BY <1>1, <1>3, <2>1, <2>3, UpdateSlaveOrder DEF Update
    <2>4. QED BY <2>2, <2>3
  <1>4. QED BY <1>2, <1>3 DEF Chips

\* Lines go up and down: no interrupt enters or leaves service.
LEMMA PinsOrder ==
    ASSUME NEW m \in Controller, NEW s \in Controller, NEW line, Ordered(m, s, line),
           NEW j \in Lines
    PROVE  /\ j # Cascade => Ordered(Asserted(m, j), s, line)
           /\ Ordered(Deasserted(m, j), s, line)
           /\ Ordered(m, Asserted(s, j), line) /\ Ordered(m, Deasserted(s, j), line)
  <1>1. ASSUME NEW c, Eased(c, m), Cascade \in c.irr => Cascade \in m.irr
        PROVE  Ordered(c, s, line)
    <2>1. ~c.special /\ (Above(m) => Above(c))
      BY <1>1, EasedAbove DEF Eased, Ordered
    <2>2. QED BY <1>1, <2>1 DEF Ordered
  <1>2. ASSUME NEW c, Eased(c, s)  PROVE  Ordered(m, c, line)
    <2>1. ~c.special /\ (Above(s) => Above(c))
      BY <1>2, EasedAbove DEF Eased, Ordered
    <2>2. QED BY <2>1 DEF Ordered
  <1>3. /\ Eased(Asserted(m, j), m) /\ Eased(Deasserted(m, j), m)
        /\ Eased(Asserted(s, j), s) /\ Eased(Deasserted(s, j), s)
        /\ Asserted(m, j).irr = m.irr \cup {j} /\ Deasserted(m, j).irr = m.irr \ {j}
    BY PinsEase
  <1>4. Ordered(m, Asserted(s, j), line) /\ Ordered(m, Deasserted(s, j), line)
    BY <1>2, <1>3
  <1>5. Ordered(Deasserted(m, j), s, line)
    BY <1>1, <1>3
  <1>6. j # Cascade => Ordered(Asserted(m, j), s, line)
    BY <1>1, <1>3
  <1>7. QED BY <1>4, <1>5, <1>6

-----------------------------------------------------------------------------
(* The initial states and the steps.                                        *)

LEMMA InitOrder == Init => OInv
  <1> SUFFICES ASSUME Init PROVE Ordered(master, slave, intr)
    BY DEF OInv
  <1>1. ~PowerOnController.special /\ PowerOnController.irr = {}
    BY DEF PowerOnController
  <1>2. ASSUME NEW mask
        PROVE  ~BiosController(mask).special /\ BiosController(mask).irr = {}
    BY DEF BiosController, PowerOnController
  <1>3. ~master.special /\ ~slave.special /\ master.irr = {} /\ intr = FALSE
    BY <1>1, <1>2 DEF Init
  <1>4. QED BY <1>3 DEF Ordered

\* What each step below keeps.
Keeps == Ordered(master', slave', intr')

LEMMA DeviceOrder ==
    ASSUME TypeOK, Ordered(master, slave, intr), NEW l \in DeviceLines,
           RaiseIrq(l[1], l[2]) \/ LowerIrq(l[1], l[2]) \/ PulseIrq(l[1], l[2])
    PROVE  Keeps
  <1> DEFINE chip == l[1]
             i == l[2]
             behind == MasterBehind(Deasserted(slave, i))
  <1>1. /\ chip \in Chips /\ i \in Lines /\ Cascade \in Lines
        /\ chip = "master" => i # Cascade
    BY PicAssumption
  <1>2. master \in Controller /\ slave \in Controller
    BY DEF TypeOK
  <1> HIDE DEF chip, i
  <1>3. ASSUME NEW c \in Controller
        PROVE  Asserted(c, i) \in Controller /\ Deasserted(c, i) \in Controller
    BY <1>1, PinsEase DEF Eased
  <1>4. CASE chip = "master"
    <2>1. Ordered(Asserted(master, i), slave, intr)
      BY <1>1, <1>2, <1>4, PinsOrder
    <2>2. Ordered(Deasserted(master, i), slave, intr)
      BY <1>1, <1>2, PinsOrder
    <2>3. CASE RaiseIrq(chip, i) \/ PulseIrq(chip, i)
      <3>1. UpdateMaster(Asserted(master, i)) /\ slave' = slave
        BY <1>4, <2>3 DEF RaiseIrq, PulseIrq, Update, ControllerOf
      <3>2. Ordered(master', slave, intr')
        BY <1>1, <1>2, <1>3, <2>1, <3>1, UpdateMasterOrder
      <3>3. QED BY <3>1, <3>2 DEF Keeps
    <2>4. CASE LowerIrq(chip, i)
      BY <1>4, <2>2, <2>4 DEF LowerIrq, Keeps
    <2>5. QED BY <2>3, <2>4 DEF chip, i
  <1>5. CASE chip = "slave"
    <2>1. behind \in Controller /\ Ordered(behind, slave, intr)
      <3>1. behind = master \/ behind = Deasserted(master, Cascade)
        BY DEF MasterBehind
      <3>2. Eased(Deasserted(master, Cascade), master)
        BY <1>1, <1>2, PinsEase
      <3>3. Deasserted(master, Cascade) \in Controller
        BY <3>2 DEF Eased
      <3>4. Ordered(Deasserted(master, Cascade), slave, intr)
        BY <1>1, <1>2, PinsOrder
      <3> HIDE DEF behind
      <3>5. QED BY <1>2, <3>1, <3>3, <3>4
    <2>2. /\ Ordered(master, Asserted(slave, i), intr)
          /\ Ordered(behind, Asserted(slave, i), intr)
          /\ Ordered(behind, Deasserted(slave, i), intr)
      <3> HIDE DEF behind
      <3>1. QED BY <1>1, <1>2, <2>1, PinsOrder
    <2>3. CASE RaiseIrq(chip, i)
      <3>1. UpdateSlave(Asserted(slave, i), master)
        BY <1>5, <2>3 DEF RaiseIrq, Update, ControllerOf
      <3>2. QED BY <1>1, <1>2, <1>3, <2>2, <3>1, UpdateSlaveOrder DEF Keeps
    <2>4. CASE LowerIrq(chip, i)
      <3>1. slave' = Deasserted(slave, i) /\ master' = behind /\ intr' = intr
        BY <1>5, <2>4 DEF LowerIrq
      <3> HIDE DEF behind
      <3>2. QED BY <2>2, <3>1 DEF Keeps
    <2>5. CASE PulseIrq(chip, i)
      <3>1. UpdateSlave(Asserted(slave, i), behind)
        BY <1>5, <2>5 DEF PulseIrq
      <3> HIDE DEF behind
      <3>2. QED BY <1>1, <1>2, <1>3, <2>1, <2>2, <3>1, UpdateSlaveOrder DEF Keeps
    <2>6. QED BY <2>3, <2>4, <2>5 DEF chip, i
  <1>6. QED BY <1>1, <1>4, <1>5 DEF Chips

\* The priorities rotate with an automatic EOI, but the INTR line is low then,
\* and the cascade input no longer requested if it is the slave's that do.
LEMMA GetInterruptOrder ==
    ASSUME TypeOK, Ordered(master, slave, intr), GetInterrupt
    PROVE  Keeps
  <1>1. master \in Controller /\ slave \in Controller
    BY DEF TypeOK
  <1>2. /\ intr' = FALSE /\ master' = Acknowledged(master)
        /\ slave' = IF Genuine(master) /\ master.hp = Cascade
                    THEN Acknowledged(slave) ELSE slave
    BY DEF GetInterrupt
  <1>3. ASSUME NEW c \in Controller  PROVE  Acknowledged(c).special = c.special
    BY DEF Acknowledged, Controller
  <1>4. ~master'.special /\ ~slave'.special
    BY <1>1, <1>2, <1>3 DEF Ordered
  <1>5. ASSUME Cascade \in master'.irr  PROVE  Above(slave')
    <2>1. Cascade \in master.irr /\ Cascade # master.hp
      BY <1>1, <1>2, <1>5, AcknowledgedKeeps
    <2>2. slave' = slave
      BY <1>2, <2>1
    <2>3. QED BY <2>1, <2>2 DEF Ordered
  <1>6. QED BY <1>2, <1>4, <1>5 DEF Ordered, Keeps

\* ICW1 changes the priorities, with nothing in service and INTR low.
LEMMA Icw1Order ==
    ASSUME TypeOK, Ordered(master, slave, intr), NEW chip \in Chips, WriteIcw1(chip)
    PROVE  Keeps
  <1> DEFINE o == ControllerOf(chip)
  <1>1. PICK todo \in SUBSET {2, 3, 4} : Store(chip, Initialized(o, todo))
    BY DEF WriteIcw1
  <1>2. o \in Controller /\ ~o.special /\ intr' = FALSE
    BY ControllerOfType DEF WriteIcw1, Ordered, ControllerOf
  <1>3. /\ Initialized(o, todo).irr = {} /\ Initialized(o, todo).isr = {}
        /\ ~Initialized(o, todo).special
    BY <1>2 DEF Initialized, Controller
  <1> HIDE DEF o
  <1>4. CASE chip = "master"
    BY <1>1, <1>2, <1>3, <1>4 DEF Store, Ordered, Keeps
  <1>5. CASE chip = "slave"
    BY <1>1, <1>2, <1>3, <1>5 DEF Store, Ordered, Above, Keeps
  <1>6. QED BY <1>4, <1>5 DEF Chips

LEMMA GuestOrder ==
    ASSUME TypeOK, FixedPriority, Ordered(master, slave, intr), NEW chip \in Chips,
           \/ WriteIcw(chip)
           \/ \E mask \in Masks : WriteOcw1(chip, mask)
           \/ \E level \in Lines : WriteEoi(chip, level) \/ WriteSetPriority(chip, level)
           \/ WriteRotateInAutoEoi(chip)
           \/ WriteOcw3(chip)
    PROVE  Keeps
  <1> DEFINE o == ControllerOf(chip)
  <1>1. o \in Controller /\ ~o.special
    BY ControllerOfType DEF Ordered, ControllerOf
  <1>2. ASSUME NEW c, Eased(c, o), c.irr = o.irr,
               (Store(chip, c) /\ UNCHANGED intr) \/ Update(chip, c)
        PROVE  Keeps
    BY <1>2, EasedOrder DEF Keeps
  <1>3. CASE WriteIcw(chip)
    <2>1. PICK word \in o.todo, aeoi \in BOOLEAN :
            /\ Store(chip, [o EXCEPT !.todo = @ \ {word},
                                     !.aeoi = IF word = 4 THEN aeoi ELSE @])
            /\ UNCHANGED <<intr, use, raises, inits>>
      BY <1>3 DEF WriteIcw
    <2> DEFINE c == [o EXCEPT !.todo = @ \ {word}, !.aeoi = IF word = 4 THEN aeoi ELSE @]
    <2>2. Eased(c, o) /\ c.irr = o.irr
      BY <1>1 DEF Controller, Eased
    <2> HIDE DEF o, c
    <2>3. QED BY <1>2, <2>1, <2>2 DEF c
  <1>4. ASSUME NEW mask \in Masks, WriteOcw1(chip, mask) PROVE Keeps
    <2> DEFINE c == [o EXCEPT !.imr = mask]
    <2>1. Update(chip, c)
      BY <1>4 DEF WriteOcw1
    <2>2. Eased(c, o) /\ c.irr = o.irr
      BY <1>1, PicAssumption DEF Controller, Eased
    <2> HIDE DEF o, c
    <2>3. QED BY <1>2, <2>1, <2>2
  <1>5. ASSUME NEW level \in Lines, WriteEoi(chip, level) PROVE Keeps
    <2>1. PICK specific \in BOOLEAN, rotate \in BOOLEAN :
            /\ rotate => "rotate" \in use.commands
            /\ Update(chip, [o EXCEPT !.isr = @ \ (IF specific THEN {level} ELSE TopInService(o)),
                                      !.base = IF rotate THEN level ELSE @])
      BY <1>5 DEF WriteEoi
    <2> DEFINE ended == IF specific THEN {level} ELSE TopInService(o)
               c == [o EXCEPT !.isr = @ \ ended, !.base = IF rotate THEN level ELSE @]
    <2> HIDE DEF ended
    <2>2. ~rotate
      BY <2>1 DEF FixedPriority
    <2>3. Eased(c, o) /\ c.irr = o.irr
      BY <1>1, <2>2 DEF Controller, Eased
    <2>4. Update(chip, c)
      BY <2>1 DEF ended
    <2> HIDE DEF o, c
    <2>5. QED BY <1>2, <2>3, <2>4
  <1>6. ASSUME NEW level \in Lines, WriteSetPriority(chip, level) PROVE Keeps
    BY <1>6 DEF WriteSetPriority, FixedPriority
  <1>7. CASE WriteRotateInAutoEoi(chip)
    <2>1. PICK on \in BOOLEAN : Store(chip, [o EXCEPT !.raeoi = on]) /\ UNCHANGED intr
      BY <1>7 DEF WriteRotateInAutoEoi
    <2> DEFINE c == [o EXCEPT !.raeoi = on]
    <2>2. Eased(c, o) /\ c.irr = o.irr
      BY <1>1 DEF Controller, Eased
    <2> HIDE DEF o, c
    <2>3. QED BY <1>2, <2>1, <2>2 DEF c
  <1>8. CASE WriteOcw3(chip)
    <2>1. PICK on \in BOOLEAN : /\ (IF on THEN "special" ELSE "readselect") \in use.commands
                                /\ Store(chip, [o EXCEPT !.special = on]) /\ UNCHANGED intr
      BY <1>8 DEF WriteOcw3
    <2> DEFINE c == [o EXCEPT !.special = on]
    <2>2. on = FALSE
      BY <2>1 DEF FixedPriority
    <2>3. c \in Controller /\ ~c.special
      BY <1>1, <2>2 DEF Controller
    <2>4. c.hp = o.hp /\ c.base = o.base /\ c.isr = o.isr /\ c.irr = o.irr
      BY <1>1 DEF Controller
    <2>5. c.special \in BOOLEAN /\ o.special \in BOOLEAN
      BY <1>1, <2>3 DEF Controller
    <2> HIDE DEF o, c
    <2>6. c.special = o.special
      BY <1>1, <2>3, <2>5
    <2>7. Eased(c, o)
      BY <2>3, <2>4, <2>6 DEF Eased
    <2>8. QED BY <1>2, <2>1, <2>4, <2>7 DEF c
  <1>9. QED BY <1>3, <1>4, <1>5, <1>6, <1>7, <1>8

LEMMA ResetOrder ==
    ASSUME TypeOK, Ordered(master, slave, intr), Reset
    PROVE  Keeps
  <1>1. ASSUME NEW c \in Controller, ~c.special
        PROVE  ~Cleared(c).special /\ Above(Cleared(c))
    BY <1>1 DEF Cleared, Controller, Above
  <1>2. master \in Controller /\ slave \in Controller
    BY DEF TypeOK
  <1>3. master' = Cleared(master) /\ slave' = Cleared(slave) /\ intr' = intr
    BY DEF Reset
  <1>4. /\ ~Cleared(master).special /\ Above(Cleared(master))
        /\ ~Cleared(slave).special /\ Above(Cleared(slave))
    BY <1>1, <1>2 DEF Ordered
  <1>5. QED BY <1>3, <1>4 DEF Ordered, Keeps

LEMMA NextOrder == IInv /\ OInv /\ [Next]_vars => OInv'
  <1> SUFFICES ASSUME IInv, OInv, [Next]_vars, FixedPriority'  PROVE Keeps
    BY DEF OInv, Keeps
  <1>1. use' = use
    BY DEF Next, Device, RaiseIrq, LowerIrq, PulseIrq, CountRaise, GetInterrupt, Guest,
           WriteIcw1, WriteIcw, WriteOcw1, WriteEoi, WriteSetPriority,
           WriteRotateInAutoEoi, WriteOcw3, Reset, vars
  <1>2. FixedPriority
    BY <1>1 DEF FixedPriority
  <1>3. TypeOK /\ Ordered(master, slave, intr)
    BY <1>2 DEF IInv, OInv
  <1>4. CASE Device
    BY <1>3, <1>4, DeviceOrder DEF Device
  <1>5. CASE GetInterrupt
    BY <1>3, <1>5, GetInterruptOrder
  <1>6. CASE Guest
    <2>1. PICK chip \in Chips :
            \/ WriteIcw1(chip)
            \/ WriteIcw(chip)
            \/ \E mask \in Masks : WriteOcw1(chip, mask)
            \/ \E level \in Lines : WriteEoi(chip, level) \/ WriteSetPriority(chip, level)
            \/ WriteRotateInAutoEoi(chip)
            \/ WriteOcw3(chip)
      BY <1>6 DEF Guest
    <2>2. QED BY <1>2, <1>3, <2>1, Icw1Order, GuestOrder
  <1>7. CASE Reset
    BY <1>3, <1>7, ResetOrder
  <1>8. CASE UNCHANGED vars
    BY <1>3, <1>8 DEF vars, Keeps
  <1>9. QED BY <1>4, <1>5, <1>6, <1>7, <1>8 DEF Next

-----------------------------------------------------------------------------
\* With fixed priorities, whatever else devices and guest do, an interrupt that
\* is signalled outranks those in service, on either controller, although it
\* was latched before them.
THEOREM NestingOrdered == Spec => []NestingOrder
  <1>1. OInv => NestingOrder
    BY DEF OInv, Ordered, Above, NestingOrder
  <1>2. QED BY InitInv, NextInv, InitOrder, NextOrder, <1>1, PTL DEF Spec

-----------------------------------------------------------------------------
(* What the pair signals is the first in order of priority.                  *)

\* The latched input is the one an update would latch now.
Top(c) == c.hp \in NestedCandidate(c)

\* A controller whose latch is right as long as it is requested.
First(c) == Genuine(c) /\ NestedCandidate(c) # {} => Top(c)

\* Of HighestFirst: what holds while INTR is up.
HInv == FixedPriority /\ intr => First(master)

\* No mode that plain use does not reach.
Quiet(c) == ~c.special /\ ~c.aeoi /\ c.todo = {}

\* on: whether the controller's output is passed on, by INTR or the cascade.
Passed(c, on) == /\ on => Top(c)
                 /\ ~on => Outranking(c) = {}

\* NoLostRequest for a pair <<master, slave>> and the INTR line, made inductive.
AllPassed(m, s, line) ==
    /\ Quiet(m) /\ Passed(m, line)
    /\ Quiet(s) /\ Passed(s, Cascade \in m.irr)

LInv == PlainUse => AllPassed(master, slave, intr)

-----------------------------------------------------------------------------
(* The search for a candidate.                                              *)

LEMMA RankNat ==
    ASSUME NEW c \in Controller, NEW i \in Lines
    PROVE  Rank(c, i) \in Nat
  <1>1. c.base \in Int /\ i \in Int /\ NumLines \in Nat /\ NumLines > 0
    BY PicAssumption DEF Controller, Lines
  <1>2. i - c.base - 1 \in Int
    BY <1>1
  <1>3. \A x \in Int : x % NumLines \in Nat
    BY <1>1
  <1>4. QED BY <1>2, <1>3 DEF Rank

\* Of some inputs, one is the first in order of priority.
LEMMA FirstExists ==
    ASSUME NEW c \in Controller, NEW S \in SUBSET Lines, S # {}
    PROVE  \E k \in S : \A j \in S : Rank(c, k) <= Rank(c, j)
  <1> DEFINE T == {Rank(c, j) : j \in S}
             R == OpToRel(<, Nat)
  <1>1. \A j \in S : Rank(c, j) \in Nat
    BY RankNat
  <1>2. T \subseteq Nat /\ T # {}
    BY <1>1
  <1>3. \E x \in T : \A y \in T : ~(<<y, x>> \in R)
    <2>1. IsWellFoundedOn(R, Nat)
      BY NatLessThanWellFounded
    <2> HIDE DEF T, R
    <2>2. QED BY <1>2, <2>1, WFMin
  <1>4. PICK x \in T : \A y \in T : ~(<<y, x>> \in R)
    BY <1>3
  <1>5. PICK k \in S : x = Rank(c, k)
    OBVIOUS
  <1>6. ASSUME NEW j \in S  PROVE  Rank(c, k) <= Rank(c, j)
    <2>1. ~(Rank(c, j) < Rank(c, k))
      BY <1>1, <1>4, <1>5 DEF OpToRel
    <2>2. QED BY <1>1, <2>1
  <1>7. QED BY <1>6

\* If an unmasked request outranks what is in service, the first one does.
LEMMA CandidateExists ==
    ASSUME NEW c \in Controller, NEW i \in Outranking(c)
    PROVE  NestedCandidate(c) # {}
  <1>1. Unmasked(c) \in SUBSET Lines /\ c.isr \subseteq Lines /\ i \in Unmasked(c)
    BY DEF Unmasked, Outranking, Controller
  <1>2. PICK k \in Unmasked(c) : \A j \in Unmasked(c) : Rank(c, k) <= Rank(c, j)
    BY <1>1, FirstExists
  <1>3. ASSUME NEW j \in c.isr  PROVE  Rank(c, k) < Rank(c, j)
    <2>1. Rank(c, k) <= Rank(c, i) /\ Rank(c, i) < Rank(c, j)
      BY <1>1, <1>2 DEF Outranking
    <2>2. Rank(c, k) \in Nat /\ Rank(c, i) \in Nat /\ Rank(c, j) \in Nat
      BY <1>1, RankNat
    <2>3. QED BY <2>1, <2>2
  <1>4. QED BY <1>2, <1>3 DEF NestedCandidate

LEMMA CandidateOutranks ==
    ASSUME NEW c
    PROVE  NestedCandidate(c) \subseteq Outranking(c)
  BY DEF NestedCandidate, Outranking

LEMMA SignalsOutranking ==
    ASSUME NEW c \in Controller, ~c.special
    PROVE  Signals(c) <=> Outranking(c) # {}
  BY CandidateExists, CandidateOutranks DEF Signals, Candidate

\* More requests and less in service: nothing outranks less.
LEMMA OutrankingGrows ==
    ASSUME NEW c, NEW o, c.base = o.base, c.imr = o.imr,
           o.irr \subseteq c.irr, c.isr \subseteq o.isr
    PROVE  Outranking(o) \subseteq Outranking(c)
  BY DEF Outranking, Unmasked, Rank

\* What is searched does not depend on the other fields.
LEMMA SameSearch ==
    ASSUME NEW c, NEW o, c.base = o.base, c.imr = o.imr, c.irr = o.irr, c.isr = o.isr
    PROVE  NestedCandidate(c) = NestedCandidate(o) /\ Outranking(c) = Outranking(o)
  BY DEF NestedCandidate, Outranking, Unmasked, Rank

\* An update latches the candidate, if there is one.
LEMMA LatchedTop ==
    ASSUME NEW c \in Controller, ~c.special
    PROVE  /\ Latched(c) \in Controller
           /\ Latched(c).irr = c.irr /\ Latched(c).isr = c.isr
           /\ NestedCandidate(Latched(c)) = NestedCandidate(c)
           /\ Outranking(Latched(c)) = Outranking(c)
           /\ NestedCandidate(c) # {} => Top(Latched(c))
           /\ Quiet(c) => Quiet(Latched(c))
  <1>1. CASE Signals(c)
    <2> DEFINE h == CHOOSE i \in Candidate(c) : TRUE
    <2>1. h \in Candidate(c) /\ Candidate(c) = NestedCandidate(c)
      BY <1>1 DEF Signals, Candidate
    <2>2. h \in Lines
      BY <2>1, CandidateFree
    <2>3. Latched(c) = [c EXCEPT !.hp = h]
      BY <1>1 DEF Latched
    <2> HIDE DEF h
    <2> DEFINE d == Latched(c)
    <2>4. d \in Controller /\ d.hp = h
      BY <2>2, <2>3 DEF Controller
    <2>5. d.base = c.base /\ d.imr = c.imr /\ d.irr = c.irr /\ d.isr = c.isr
      BY <2>3 DEF Controller
    <2>6. Quiet(c) => Quiet(d)
      BY <2>3 DEF Controller, Quiet
    <2> HIDE DEF d
    <2>7. NestedCandidate(d) = NestedCandidate(c) /\ Outranking(d) = Outranking(c)
      BY <2>5, SameSearch
    <2>8. QED BY <2>1, <2>4, <2>5, <2>6, <2>7 DEF Top, d
  <1>2. CASE ~Signals(c)
    BY <1>2 DEF Latched, Signals, Candidate
  <1>3. QED BY <1>1, <1>2

-----------------------------------------------------------------------------
(* The first is taken.                                                      *)

LEMMA UpdatedFirst ==
    ASSUME NEW m \in Controller, ~m.special, UpdateMaster(m)
    PROVE  NestedCandidate(master') # {} => Top(master')
  BY LatchedTop DEF UpdateMaster

LEMMA LoweredFirst ==
    ASSUME NEW c \in Controller, NEW i \in Lines, First(c)
    PROVE  First(Deasserted(c, i))
  <1> DEFINE d == Deasserted(c, i)
  <1>1. /\ d.irr = c.irr \ {i} /\ d.isr = c.isr /\ d.imr = c.imr
        /\ d.base = c.base /\ d.hp = c.hp
    BY DEF Deasserted, Controller
  <1> HIDE DEF d
  <1> SUFFICES ASSUME Genuine(d), NEW k \in NestedCandidate(d)  PROVE Top(d)
    BY DEF First, d
  <1>2. Outranking(d) \subseteq Outranking(c)
    BY <1>1, OutrankingGrows
  <1>3. k \in Outranking(c)
    BY <1>2, CandidateOutranks
  <1>4. Genuine(c) /\ NestedCandidate(c) # {}
    BY <1>1, <1>3, CandidateExists DEF Genuine
  <1>5. c.hp \in NestedCandidate(c)
    BY <1>4 DEF First, Top
  <1>6. d.hp \in d.irr
    BY DEF Genuine
  <1>7. d.hp \in NestedCandidate(d)
    BY <1>1, <1>5, <1>6 DEF NestedCandidate, Unmasked, Rank
  <1>8. QED BY <1>7 DEF Top

\* The fields First looks at.
LEMMA SameFirst ==
    ASSUME NEW c, NEW o, First(o), c.hp = o.hp,
           c.base = o.base, c.imr = o.imr, c.irr = o.irr, c.isr = o.isr
    PROVE  First(c)
  <1>1. NestedCandidate(c) = NestedCandidate(o)
    BY SameSearch
  <1>2. QED BY <1>1 DEF First, Genuine, Top

LEMMA UpdateSlaveFirst ==
    ASSUME NEW m \in Controller, NEW s, ~m.special, intr => First(m), UpdateSlave(s, m)
    PROVE  intr' => First(master')
  <1>1. CASE Signals(s)
    <2> DEFINE a == Asserted(m, Cascade)
    <2>1. UpdateMaster(a)
      BY <1>1 DEF UpdateSlave
    <2>2. a \in Controller /\ ~a.special
      BY PinsEase, PicAssumption DEF Eased
    <2> HIDE DEF a
    <2>3. QED BY <2>1, <2>2, UpdatedFirst DEF First
  <1>2. CASE ~Signals(s)
    BY <1>2 DEF UpdateSlave
  <1>3. QED BY <1>1, <1>2

\* What each step below keeps, while it leaves INTR up.
FirstNext == intr' => First(master')

LEMMA DeviceFirst ==
    ASSUME TypeOK, ~master.special, intr => First(master), NEW l \in DeviceLines,
           RaiseIrq(l[1], l[2]) \/ LowerIrq(l[1], l[2]) \/ PulseIrq(l[1], l[2])
    PROVE  FirstNext
  <1> DEFINE chip == l[1]
             i == l[2]
             behind == MasterBehind(Deasserted(slave, i))
             a == Asserted(master, i)
  <1>1. chip \in Chips /\ i \in Lines /\ Cascade \in Lines
    BY PicAssumption
  <1>2. master \in Controller
    BY DEF TypeOK
  <1> HIDE DEF chip, i
  <1>3. CASE chip = "master"
    <2>1. CASE RaiseIrq(chip, i) \/ PulseIrq(chip, i)
      <3>1. UpdateMaster(a)
        BY <1>3, <2>1 DEF RaiseIrq, PulseIrq, Update, ControllerOf
      <3>2. Eased(a, master)
        BY <1>1, <1>2, PinsEase
      <3> HIDE DEF a
      <3>3. a \in Controller /\ ~a.special
        BY <3>2 DEF Eased
      <3>4. QED BY <3>1, <3>3, UpdatedFirst DEF First, FirstNext
    <2>2. CASE LowerIrq(chip, i)
      <3>1. master' = Deasserted(master, i) /\ intr' = intr
        BY <1>3, <2>2 DEF LowerIrq
      <3>2. QED BY <1>1, <1>2, <3>1, LoweredFirst DEF FirstNext
    <2>3. QED BY <2>1, <2>2 DEF chip, i
  <1>4. CASE chip = "slave"
    <2>1. behind \in Controller /\ ~behind.special /\ (intr => First(behind))
      <3>1. behind = master \/ behind = Deasserted(master, Cascade)
        BY DEF MasterBehind
      <3>2. Eased(Deasserted(master, Cascade), master)
        BY <1>1, <1>2, PinsEase
      <3>3. intr => First(Deasserted(master, Cascade))
        BY <1>1, <1>2, LoweredFirst
      <3> HIDE DEF behind
      <3>4. QED BY <1>2, <3>1, <3>2, <3>3 DEF Eased
    <2>2. CASE RaiseIrq(chip, i)
      <3>1. UpdateSlave(Asserted(slave, i), master)
        BY <1>4, <2>2 DEF RaiseIrq, Update, ControllerOf
      <3>2. QED BY <1>2, <3>1, UpdateSlaveFirst DEF FirstNext
    <2>3. CASE LowerIrq(chip, i)
      <3>1. master' = behind /\ intr' = intr
        BY <1>4, <2>3 DEF LowerIrq
      <3> HIDE DEF behind
      <3>2. QED BY <2>1, <3>1 DEF FirstNext
    <2>4. CASE PulseIrq(chip, i)
      <3>1. UpdateSlave(Asserted(slave, i), behind)
        BY <1>4, <2>4 DEF PulseIrq
      <3> HIDE DEF behind
      <3>2. QED BY <2>1, <3>1, UpdateSlaveFirst DEF FirstNext
    <2>5. QED BY <2>2, <2>3, <2>4 DEF chip, i
  <1>5. QED BY <1>1, <1>3, <1>4 DEF Chips

\* A write that updates, or that stores a controller with the same search.
LEMMA WrittenFirst ==
    ASSUME TypeOK, ~master.special, intr => First(master),
           NEW chip \in Chips, NEW c \in Controller, ~c.special,
           \/ Update(chip, c)
           \/ /\ Store(chip, c) /\ UNCHANGED intr
              /\ c.hp = ControllerOf(chip).hp /\ c.base = ControllerOf(chip).base
              /\ c.imr = ControllerOf(chip).imr /\ c.irr = ControllerOf(chip).irr
              /\ c.isr = ControllerOf(chip).isr
    PROVE  FirstNext
  <1>1. master \in Controller
    BY DEF TypeOK
  <1>2. CASE chip = "master" /\ Update(chip, c)
    <2>1. UpdateMaster(c)
      BY <1>2 DEF Update
    <2>2. QED BY <2>1, UpdatedFirst DEF First, FirstNext
  <1>3. CASE chip = "slave" /\ Update(chip, c)
    <2>1. UpdateSlave(c, master)
      BY <1>3 DEF Update
    <2>2. QED BY <1>1, <2>1, UpdateSlaveFirst DEF FirstNext
  <1>4. CASE chip = "master" /\ ~Update(chip, c)
    <2>1. master' = c /\ intr' = intr
      BY <1>4 DEF Store
    <2>2. /\ c.hp = master.hp /\ c.base = master.base /\ c.imr = master.imr
          /\ c.irr = master.irr /\ c.isr = master.isr
      BY <1>4 DEF ControllerOf
    <2>3. QED BY <2>1, <2>2, SameFirst DEF FirstNext
  <1>5. CASE chip = "slave" /\ ~Update(chip, c)
    BY <1>5 DEF Store, FirstNext
  <1>6. QED BY <1>2, <1>3, <1>4, <1>5 DEF Chips

LEMMA GuestFirst ==
    ASSUME TypeOK, FixedPriority, ~master.special, ~slave.special, intr => First(master),
           NEW chip \in Chips,
           \/ WriteIcw(chip)
           \/ \E mask \in Masks : WriteOcw1(chip, mask)
           \/ \E level \in Lines : WriteEoi(chip, level) \/ WriteSetPriority(chip, level)
           \/ WriteRotateInAutoEoi(chip)
           \/ WriteOcw3(chip)
    PROVE  FirstNext
  <1> DEFINE o == ControllerOf(chip)
  <1>1. o \in Controller /\ ~o.special
    BY ControllerOfType DEF ControllerOf
  <1>2. ASSUME NEW c \in Controller, ~c.special,
               c.hp = o.hp, c.base = o.base, c.imr = o.imr, c.irr = o.irr, c.isr = o.isr,
               Store(chip, c) /\ UNCHANGED intr
        PROVE  FirstNext
    BY <1>2, WrittenFirst
  <1>3. CASE WriteIcw(chip)
    <2>1. PICK word \in o.todo, aeoi \in BOOLEAN :
            /\ Store(chip, [o EXCEPT !.todo = @ \ {word},
                                     !.aeoi = IF word = 4 THEN aeoi ELSE @])
            /\ UNCHANGED <<intr, use, raises, inits>>
      BY <1>3 DEF WriteIcw
    <2> DEFINE c == [o EXCEPT !.todo = @ \ {word}, !.aeoi = IF word = 4 THEN aeoi ELSE @]
    <2>2. c \in Controller
      BY <1>1 DEF Controller
    <2>3. c.hp = o.hp /\ c.base = o.base /\ c.imr = o.imr /\ c.irr = o.irr /\ c.isr = o.isr
      BY <1>1 DEF Controller
    <2>4. ~c.special
      BY <1>1 DEF Controller
    <2> HIDE DEF o, c
    <2>5. QED BY <1>2, <2>1, <2>2, <2>3, <2>4 DEF c
  <1>4. ASSUME NEW mask \in Masks, WriteOcw1(chip, mask) PROVE FirstNext
    <2> DEFINE c == [o EXCEPT !.imr = mask]
    <2>1. Update(chip, c)
      BY <1>4 DEF WriteOcw1
    <2>2. c \in Controller /\ ~c.special
      BY <1>1, PicAssumption DEF Controller
    <2> HIDE DEF o, c
    <2>3. QED BY <2>1, <2>2, WrittenFirst
  <1>5. ASSUME NEW level \in Lines, WriteEoi(chip, level) PROVE FirstNext
    <2>1. PICK specific \in BOOLEAN, rotate \in BOOLEAN :
            Update(chip, [o EXCEPT !.isr = @ \ (IF specific THEN {level} ELSE TopInService(o)),
                                   !.base = IF rotate THEN level ELSE @])
      BY <1>5 DEF WriteEoi
    <2> DEFINE ended == IF specific THEN {level} ELSE TopInService(o)
               c == [o EXCEPT !.isr = @ \ ended, !.base = IF rotate THEN level ELSE @]
    <2> HIDE DEF ended
    <2>2. c \in Controller /\ ~c.special
      BY <1>1 DEF Controller
    <2>3. Update(chip, c)
      BY <2>1 DEF ended
    <2> HIDE DEF o, c
    <2>4. QED BY <2>2, <2>3, WrittenFirst
  <1>6. ASSUME NEW level \in Lines, WriteSetPriority(chip, level) PROVE FirstNext
    BY <1>6 DEF WriteSetPriority, FixedPriority
  <1>7. CASE WriteRotateInAutoEoi(chip)
    <2>1. PICK on \in BOOLEAN : Store(chip, [o EXCEPT !.raeoi = on]) /\ UNCHANGED intr
      BY <1>7 DEF WriteRotateInAutoEoi
    <2> DEFINE c == [o EXCEPT !.raeoi = on]
    <2>2. c \in Controller /\ ~c.special
      BY <1>1 DEF Controller
    <2>3. c.hp = o.hp /\ c.base = o.base /\ c.imr = o.imr /\ c.irr = o.irr /\ c.isr = o.isr
      BY <1>1 DEF Controller
    <2> HIDE DEF o, c
    <2>4. QED BY <1>2, <2>1, <2>2, <2>3 DEF c
  <1>8. CASE WriteOcw3(chip)
    <2>1. PICK on \in BOOLEAN : /\ (IF on THEN "special" ELSE "readselect") \in use.commands
                                /\ Store(chip, [o EXCEPT !.special = on]) /\ UNCHANGED intr
      BY <1>8 DEF WriteOcw3
    <2> DEFINE c == [o EXCEPT !.special = on]
    <2>2. on = FALSE
      BY <2>1 DEF FixedPriority
    <2>3. c \in Controller /\ ~c.special
      BY <1>1, <2>2 DEF Controller
    <2>4. c.hp = o.hp /\ c.base = o.base /\ c.imr = o.imr /\ c.irr = o.irr /\ c.isr = o.isr
      BY <1>1 DEF Controller
    <2> HIDE DEF o, c
    <2>5. QED BY <1>2, <2>1, <2>3, <2>4 DEF c
  <1>9. QED BY <1>3, <1>4, <1>5, <1>6, <1>7, <1>8

LEMMA NextFirst == IInv /\ OInv /\ HInv /\ [Next]_vars => HInv'
  <1> SUFFICES ASSUME IInv, OInv, HInv, [Next]_vars, FixedPriority'  PROVE FirstNext
    BY DEF HInv, FirstNext
  <1>1. use' = use
    BY DEF Next, Device, RaiseIrq, LowerIrq, PulseIrq, CountRaise, GetInterrupt, Guest,
           WriteIcw1, WriteIcw, WriteOcw1, WriteEoi, WriteSetPriority,
           WriteRotateInAutoEoi, WriteOcw3, Reset, vars
  <1>2. FixedPriority
    BY <1>1 DEF FixedPriority
  <1>3. TypeOK /\ ~master.special /\ ~slave.special /\ (intr => First(master))
    BY <1>2 DEF IInv, OInv, Ordered, HInv
  <1>4. CASE Device
    BY <1>3, <1>4, DeviceFirst DEF Device
  <1>5. CASE GetInterrupt
    BY <1>5 DEF GetInterrupt, FirstNext
  <1>6. CASE Guest
    <2>1. PICK chip \in Chips :
            \/ WriteIcw1(chip)
            \/ WriteIcw(chip)
            \/ \E mask \in Masks : WriteOcw1(chip, mask)
            \/ \E level \in Lines : WriteEoi(chip, level) \/ WriteSetPriority(chip, level)
            \/ WriteRotateInAutoEoi(chip)
            \/ WriteOcw3(chip)
      BY <1>6 DEF Guest
    <2>2. CASE WriteIcw1(chip)
      BY <2>2 DEF WriteIcw1, FirstNext
    <2>3. CASE ~WriteIcw1(chip)
      BY <1>2, <1>3, <2>1, <2>3, GuestFirst
    <2>4. QED BY <2>2, <2>3
  <1>7. CASE Reset
    <2>1. master'.irr = {}
      BY <1>3, <1>7 DEF Reset, Cleared, TypeOK, Controller
    <2>2. QED BY <2>1 DEF FirstNext, First, Genuine
  <1>8. CASE UNCHANGED vars
    BY <1>3, <1>8 DEF vars, FirstNext
  <1>9. QED BY <1>4, <1>5, <1>6, <1>7, <1>8 DEF Next

\* With fixed priorities the interrupt the CPU takes is the first of those that
\* could be delivered, however long before the acknowledgement it was latched.
THEOREM FirstTaken == Spec => HighestFirst
  <1>1. Init => HInv
    BY DEF Init, HInv
  <1>2. HInv => [GetInterrupt /\ FixedPriority /\ Genuine(master)
                    /\ NestedCandidate(master) # {}
                    => master.hp \in NestedCandidate(master)]_vars
    BY DEF HInv, First, Top, GetInterrupt
  <1>3. QED BY InitInv, NextInv, InitOrder, NextOrder, NextFirst, <1>1, <1>2, PTL
            DEF Spec, HighestFirst

-----------------------------------------------------------------------------
(* Nothing is stranded, under plain use.                                    *)

LEMMA TopOutranks ==
    ASSUME NEW c, Top(c)
    PROVE  Outranking(c) # {}
  BY CandidateOutranks DEF Top

LEMMA UpdateMasterPassed ==
    ASSUME intr \in BOOLEAN, NEW m \in Controller, Quiet(m),
           intr => Outranking(m) # {}, UpdateMaster(m)
    PROVE  Quiet(master') /\ Passed(master', intr') /\ master'.irr = m.irr
  <1>1. /\ master' = Latched(m) /\ (intr' <=> intr \/ Signals(m))
        /\ ~m.special
    BY DEF UpdateMaster, Quiet
  <1>2. /\ Quiet(master') /\ master'.irr = m.irr
        /\ Outranking(master') = Outranking(m)
        /\ NestedCandidate(m) # {} => Top(master')
    BY <1>1, LatchedTop
  <1>3. Signals(m) <=> Outranking(m) # {}
    BY <1>1, SignalsOutranking
  <1>4. intr' <=> Outranking(m) # {}
    BY <1>1, <1>3
  <1>5. intr' => Top(master')
    BY <1>2, <1>4, CandidateExists
  <1>6. QED BY <1>2, <1>4, <1>5 DEF Passed

LEMMA AssertedGrows ==
    ASSUME NEW c \in Controller, NEW i \in Lines, Quiet(c)
    PROVE  /\ Asserted(c, i) \in Controller /\ Quiet(Asserted(c, i))
           /\ Asserted(c, i).irr = c.irr \cup {i}
           /\ Outranking(c) \subseteq Outranking(Asserted(c, i))
  <1> DEFINE d == Asserted(c, i)
  <1>1. /\ d \in Controller
        /\ d.base = c.base /\ d.imr = c.imr /\ d.isr = c.isr /\ d.irr = c.irr \cup {i}
    BY DEF Asserted, Controller
  <1>2. Quiet(d)
    BY DEF Asserted, Controller, Quiet
  <1> HIDE DEF d
  <1>3. Outranking(c) \subseteq Outranking(d)
    BY <1>1, OutrankingGrows
  <1>4. QED BY <1>1, <1>2, <1>3 DEF d

LEMMA UpdateSlavePassed ==
    ASSUME intr \in BOOLEAN, NEW m \in Controller, NEW s \in Controller,
           Quiet(m), Quiet(s), UpdateSlave(s, m),
           intr => Outranking(Asserted(m, Cascade)) # {},
           Outranking(s) = {} => Passed(m, intr) /\ Cascade \notin m.irr
    PROVE  /\ Quiet(master') /\ Passed(master', intr')
           /\ Quiet(slave') /\ Passed(slave', Cascade \in master'.irr)
  <1>1. Signals(s) <=> Outranking(s) # {}
    BY SignalsOutranking DEF Quiet
  <1>2. CASE Signals(s)
    <2> DEFINE a == Asserted(m, Cascade)
    <2>1. UpdateMaster(a) /\ slave' = Latched(s)
      BY <1>2 DEF UpdateSlave
    <2>2. a \in Controller /\ Quiet(a) /\ Cascade \in a.irr
      BY AssertedGrows, PicAssumption
    <2> HIDE DEF a
    <2>3. intr => Outranking(a) # {}
      BY DEF a
    <2>4. Quiet(master') /\ Passed(master', intr') /\ Cascade \in master'.irr
      BY <2>1, <2>2, <2>3, UpdateMasterPassed
    <2>5. NestedCandidate(s) # {}
      BY <1>1, <1>2, CandidateExists
    <2>6. Quiet(slave') /\ Top(slave')
      BY <2>1, <2>5, LatchedTop DEF Quiet
    <2>7. QED BY <2>4, <2>6 DEF Passed
  <1>3. CASE ~Signals(s)
    <2>1. slave' = s /\ master' = m /\ intr' = intr
      BY <1>3 DEF UpdateSlave, Latched
    <2>2. Passed(m, intr) /\ Cascade \notin m.irr /\ Outranking(s) = {}
      BY <1>1, <1>3
    <2>3. QED BY <2>1, <2>2 DEF Passed
  <1>4. QED BY <1>2, <1>3

\* What each step below keeps.
KeepsPassed == AllPassed(master', slave', intr')

\* An update of either controller, after a change that lets no less outrank what
\* is in service.
LEMMA UpdatePassed ==
    ASSUME TypeOK, AllPassed(master, slave, intr), NEW chip \in Chips,
           NEW c \in Controller, Quiet(c), Outranking(ControllerOf(chip)) \subseteq Outranking(c),
           chip = "master" => (Cascade \in c.irr <=> Cascade \in master.irr),
           Update(chip, c)
    PROVE  KeepsPassed
  <1>1. master \in Controller /\ slave \in Controller /\ intr \in BOOLEAN /\ Cascade \in Lines
    BY PicAssumption DEF TypeOK
  <1>2. CASE chip = "master"
    <2>1. UpdateMaster(c) /\ slave' = slave /\ Outranking(master) \subseteq Outranking(c)
      BY <1>2 DEF Update, ControllerOf
    <2>2. intr => Outranking(c) # {}
      BY <2>1, TopOutranks DEF AllPassed, Passed
    <2>3. Quiet(master') /\ Passed(master', intr') /\ master'.irr = c.irr
      BY <1>1, <2>1, <2>2, UpdateMasterPassed
    <2>4. Passed(slave', Cascade \in master'.irr)
      BY <1>2, <2>1, <2>3 DEF AllPassed, Passed
    <2>5. QED BY <2>1, <2>3, <2>4 DEF AllPassed, KeepsPassed
  <1>3. CASE chip = "slave"
    <2>1. UpdateSlave(c, master) /\ Outranking(slave) \subseteq Outranking(c)
      BY <1>3 DEF Update, ControllerOf
    <2>2. intr => Outranking(Asserted(master, Cascade)) # {}
      <3>1. intr => Outranking(master) # {}
        BY TopOutranks DEF AllPassed, Passed
      <3>2. Outranking(master) \subseteq Outranking(Asserted(master, Cascade))
        BY <1>1, AssertedGrows DEF AllPassed
      <3>3. QED BY <3>1, <3>2
    <2>3. ASSUME Outranking(c) = {}  PROVE Passed(master, intr) /\ Cascade \notin master.irr
      <3>1. Outranking(slave) = {}
        BY <2>1, <2>3
      <3>2. QED BY <3>1, TopOutranks DEF AllPassed, Passed
    <2>4. Quiet(master)
      BY DEF AllPassed
    <2>5. /\ Quiet(master') /\ Passed(master', intr')
          /\ Quiet(slave') /\ Passed(slave', Cascade \in master'.irr)
      BY <1>1, <2>1, <2>2, <2>3, <2>4, UpdateSlavePassed
    <2>6. QED BY <2>5 DEF KeepsPassed, AllPassed
  <1>4. QED BY <1>2, <1>3 DEF Chips

\* A line that carries no request goes low: the search finds what it did.
LEMMA IdleLowered ==
    ASSUME NEW c \in Controller, NEW i \in Lines, i \notin c.irr, NEW on, Passed(c, on), Quiet(c)
    PROVE  LET d == Deasserted(c, i) IN
           /\ d \in Controller /\ d.irr = c.irr /\ Passed(d, on) /\ Quiet(d)
           /\ Outranking(d) = Outranking(c)
  <1> DEFINE d == Deasserted(c, i)
  <1>1. /\ d \in Controller
        /\ d.hp = c.hp /\ d.base = c.base /\ d.imr = c.imr /\ d.irr = c.irr /\ d.isr = c.isr
    BY DEF Deasserted, Controller
  <1>2. Quiet(d)
    BY DEF Deasserted, Controller, Quiet
  <1> HIDE DEF d
  <1>3. NestedCandidate(d) = NestedCandidate(c) /\ Outranking(d) = Outranking(c)
    BY <1>1, SameSearch
  <1>4. QED BY <1>1, <1>2, <1>3 DEF Passed, Top, d

LEMMA DevicePassed ==
    ASSUME TypeOK, PlainUse, AllPassed(master, slave, intr), NEW l \in DeviceLines,
           RaiseIrq(l[1], l[2]) \/ LowerIrq(l[1], l[2]) \/ PulseIrq(l[1], l[2])
    PROVE  KeepsPassed
  <1> DEFINE chip == l[1]
             i == l[2]
             o == ControllerOf(chip)
             low == Deasserted(slave, i)
             behind == MasterBehind(low)
             fell == Deasserted(master, Cascade)
  <1>1. /\ chip \in Chips /\ i \in Lines /\ Cascade \in Lines
        /\ chip = "master" => i # Cascade
    BY PicAssumption
  <1>2. /\ master \in Controller /\ slave \in Controller /\ intr \in BOOLEAN
        /\ Quiet(master) /\ Quiet(slave)
        /\ Passed(master, intr) /\ Passed(slave, Cascade \in master.irr)
    BY DEF TypeOK, AllPassed
  <1> HIDE DEF chip, i
  <1>3. o \in Controller /\ Quiet(o)
    BY <1>1, <1>2 DEF ControllerOf
  <1>4. Outranking(slave) = {} => Cascade \notin master.irr
    BY <1>2, TopOutranks DEF Passed
  <1>5. Cascade \notin master.irr =>
            fell \in Controller /\ fell.irr = master.irr /\ Passed(fell, intr) /\ Quiet(fell)
    BY <1>1, <1>2, IdleLowered
  <1>6. CASE RaiseIrq(chip, i)
    <2> DEFINE c == Asserted(o, i)
    <2>1. Update(chip, c)
      BY <1>6 DEF RaiseIrq
    <2>2. c \in Controller /\ Quiet(c) /\ c.irr = o.irr \cup {i} /\ Outranking(o) \subseteq Outranking(c)
      BY <1>1, <1>3, AssertedGrows
    <2>3. chip = "master" => (Cascade \in c.irr <=> Cascade \in master.irr)
      BY <1>1, <2>2 DEF ControllerOf
    <2> HIDE DEF c
    <2>4. QED BY <1>1, <2>1, <2>2, <2>3, UpdatePassed
  <1>7. CASE LowerIrq(chip, i)
    <2>1. i \notin o.irr /\ intr' = intr
      BY <1>7 DEF LowerIrq, PlainUse
    <2>2. CASE chip = "master"
      <3>1. master' = Deasserted(master, i) /\ slave' = slave /\ i \notin master.irr
        BY <1>7, <2>1, <2>2 DEF LowerIrq, ControllerOf
      <3>2. master'.irr = master.irr /\ Passed(master', intr) /\ Quiet(master')
        BY <1>1, <1>2, <3>1, IdleLowered
      <3>3. QED BY <1>2, <2>1, <3>1, <3>2 DEF AllPassed, KeepsPassed
    <2>3. CASE chip = "slave"
      <3>1. slave' = low /\ master' = behind /\ i \notin slave.irr
        BY <1>7, <2>1, <2>3 DEF LowerIrq, ControllerOf
      <3>2. /\ low.irr = slave.irr /\ Passed(low, Cascade \in master.irr) /\ Quiet(low)
        BY <1>1, <1>2, <3>1, IdleLowered
      <3>3. master' = master \/ (master' = fell /\ slave.irr = {})
        BY <3>1, <3>2 DEF MasterBehind
      <3>4. slave.irr = {} => Outranking(slave) = {}
        BY DEF Outranking, Unmasked
      <3> HIDE DEF low, behind, fell
      <3>5. master'.irr = master.irr /\ Passed(master', intr) /\ Quiet(master')
        BY <1>2, <1>4, <1>5, <3>3, <3>4
      <3>6. QED BY <2>1, <3>1, <3>2, <3>5 DEF AllPassed, KeepsPassed
    <2>4. QED BY <1>1, <2>2, <2>3 DEF Chips
  <1>8. CASE PulseIrq(chip, i)
    <2>1. CASE chip = "master"
      <3> DEFINE c == Asserted(master, i)
      <3>1. Update(chip, c)
        BY <1>8, <2>1 DEF PulseIrq, Update
      <3>2. /\ c \in Controller /\ Quiet(c) /\ c.irr = master.irr \cup {i}
            /\ Outranking(master) \subseteq Outranking(c)
        BY <1>1, <1>2, AssertedGrows
      <3> HIDE DEF c
      <3>3. Outranking(ControllerOf(chip)) \subseteq Outranking(c)
        BY <2>1, <3>2 DEF ControllerOf
      <3>4. QED BY <1>1, <2>1, <3>1, <3>2, <3>3, UpdatePassed
    <2>2. CASE chip = "slave"
      <3> DEFINE s == Asserted(slave, i)
                 a == Asserted(behind, Cascade)
      <3>1. UpdateSlave(s, behind)
        BY <1>8, <2>2 DEF PulseIrq
      <3>2. s \in Controller /\ Quiet(s) /\ Outranking(slave) \subseteq Outranking(s)
        BY <1>1, <1>2, AssertedGrows
      <3>3. behind = master \/ behind = fell
        BY DEF MasterBehind
      <3>4. /\ fell \in Controller /\ Quiet(fell)
            /\ fell.base = master.base /\ fell.imr = master.imr /\ fell.isr = master.isr
            /\ fell.irr = master.irr \ {Cascade}
        BY <1>2 DEF Deasserted, Controller, Quiet
      <3> HIDE DEF fell, behind, s
      <3>5. /\ behind \in Controller /\ Quiet(behind)
            /\ behind.base = master.base /\ behind.imr = master.imr /\ behind.isr = master.isr
            /\ master.irr \subseteq behind.irr \cup {Cascade}
        BY <1>2, <3>3, <3>4
      <3>6. Outranking(master) \subseteq Outranking(a)
        <4>1. a.base = master.base /\ a.imr = master.imr /\ a.isr = master.isr
              /\ a.irr = behind.irr \cup {Cascade}
          BY <3>5 DEF Asserted, Controller
        <4> HIDE DEF a
        <4>2. QED BY <3>5, <4>1, OutrankingGrows
      <3>7. intr => Outranking(a) # {}
        BY <1>2, <3>6, TopOutranks DEF Passed
      <3>8. ASSUME Outranking(s) = {}  PROVE Passed(behind, intr) /\ Cascade \notin behind.irr
        <4>1. Cascade \notin master.irr
          BY <1>4, <3>2, <3>8
        <4>2. QED BY <1>2, <1>5, <3>3, <4>1
      <3>9. /\ Quiet(master') /\ Passed(master', intr')
            /\ Quiet(slave') /\ Passed(slave', Cascade \in master'.irr)
        BY <1>2, <3>1, <3>2, <3>5, <3>7, <3>8, UpdateSlavePassed
      <3>10. QED BY <3>9 DEF KeepsPassed, AllPassed
    <2>3. QED BY <1>1, <2>1, <2>2 DEF Chips
  <1>9. QED BY <1>6, <1>7, <1>8 DEF chip, i

\* Once the first request is in service, none outranks it.
LEMMA TopAcknowledged ==
    ASSUME NEW c \in Controller, ~c.aeoi, Top(c)
    PROVE  LET d == Acknowledged(c) IN
           /\ d \in Controller /\ d.irr = c.irr \ {c.hp} /\ Outranking(d) = {}
           /\ ~c.special => ~d.special
           /\ Quiet(c) => Quiet(d)
  <1> DEFINE d == Acknowledged(c)
  <1>1. Genuine(c) /\ \A j \in Unmasked(c) : Rank(c, c.hp) <= Rank(c, j)
    BY DEF Top, NestedCandidate, Unmasked, Genuine
  <1>2. /\ d.base = c.base /\ d.imr = c.imr /\ d.irr = c.irr \ {c.hp}
        /\ d.isr = c.isr \cup {c.hp}
    BY <1>1 DEF Acknowledged, Controller
  <1>3. d \in Controller /\ (~c.special => ~d.special) /\ (Quiet(c) => Quiet(d))
    BY <1>1 DEF Acknowledged, Controller, Quiet
  <1> HIDE DEF d
  <1>4. ASSUME NEW i \in Outranking(d)  PROVE FALSE
    <2>1. i \in Unmasked(c) /\ Rank(c, i) < Rank(c, c.hp)
      BY <1>2, <1>4 DEF Outranking, Unmasked, Rank
    <2>2. Rank(c, c.hp) <= Rank(c, i)
      BY <1>1, <2>1
    <2>3. Rank(c, c.hp) \in Nat /\ Rank(c, i) \in Nat
      BY <2>1, RankNat DEF Unmasked, Controller
    <2>4. QED BY <2>1, <2>2, <2>3
  <1>5. QED BY <1>2, <1>3, <1>4 DEF d

LEMMA GetInterruptPassed ==
    ASSUME TypeOK, AllPassed(master, slave, intr), GetInterrupt
    PROVE  KeepsPassed
  <1>1. /\ master \in Controller /\ slave \in Controller
        /\ Quiet(master) /\ Top(master) /\ Genuine(master)
        /\ Quiet(slave) /\ Passed(slave, Cascade \in master.irr)
    BY DEF TypeOK, AllPassed, Passed, GetInterrupt, Top, NestedCandidate, Unmasked, Genuine
  <1>2. /\ intr' = FALSE /\ master' = Acknowledged(master)
        /\ slave' = IF master.hp = Cascade THEN Acknowledged(slave) ELSE slave
    BY <1>1 DEF GetInterrupt
  <1>3. Quiet(master') /\ Outranking(master') = {} /\ master'.irr = master.irr \ {master.hp}
    BY <1>1, <1>2, TopAcknowledged DEF Quiet
  <1>4. CASE master.hp = Cascade
    <2>1. Top(slave) /\ Cascade \notin master'.irr
      BY <1>1, <1>3, <1>4 DEF Genuine, Passed
    <2>2. Quiet(slave') /\ Outranking(slave') = {}
      BY <1>1, <1>2, <1>4, <2>1, TopAcknowledged DEF Quiet
    <2>3. QED BY <1>2, <1>3, <2>1, <2>2 DEF KeepsPassed, AllPassed, Passed
  <1>5. CASE master.hp # Cascade
    <2>1. Cascade \in master'.irr <=> Cascade \in master.irr
      BY <1>3, <1>5
    <2>2. slave' = slave
      BY <1>2, <1>5
    <2>3. Passed(slave', Cascade \in master'.irr)
      BY <1>1, <2>1, <2>2 DEF Passed
    <2>4. QED BY <1>1, <1>2, <1>3, <2>2, <2>3 DEF KeepsPassed, AllPassed, Passed
  <1>6. QED BY <1>4, <1>5

\* What plain use writes: an EOI that rotates nothing.
LEMMA GuestPassed ==
    ASSUME TypeOK, PlainUse, AllPassed(master, slave, intr), NEW chip \in Chips,
           \/ WriteIcw1(chip)
           \/ WriteIcw(chip)
           \/ \E mask \in Masks : WriteOcw1(chip, mask)
           \/ \E level \in Lines : WriteEoi(chip, level) \/ WriteSetPriority(chip, level)
           \/ WriteRotateInAutoEoi(chip)
           \/ WriteOcw3(chip)
    PROVE  KeepsPassed
  <1> DEFINE o == ControllerOf(chip)
  <1>1. o \in Controller /\ Quiet(o)
    BY ControllerOfType DEF ControllerOf, AllPassed
  <1>2. \A w \in AllCommands : w \in use.commands => w \in {"eoi", "specific"}
    BY DEF PlainUse
  <1>3. ~WriteIcw1(chip)
    <2>1. inits[chip] \in Nat /\ use.maxInits = 0
      BY DEF TypeOK, PlainUse
    <2>2. QED BY <2>1 DEF WriteIcw1
  <1>4. ~WriteIcw(chip)
    BY <1>1 DEF WriteIcw, Quiet
  <1>5. /\ \A mask : ~WriteOcw1(chip, mask)
        /\ \A level : ~WriteSetPriority(chip, level)
        /\ ~WriteRotateInAutoEoi(chip)
        /\ ~WriteOcw3(chip)
    BY <1>2 DEF WriteOcw1, WriteSetPriority, WriteRotateInAutoEoi, WriteOcw3, AllCommands
  <1>6. PICK level \in Lines : WriteEoi(chip, level)
    BY <1>3, <1>4, <1>5
  <1>7. PICK specific \in BOOLEAN, rotate \in BOOLEAN :
          /\ rotate => "rotate" \in use.commands
          /\ Update(chip, [o EXCEPT !.isr = @ \ (IF specific THEN {level} ELSE TopInService(o)),
                                    !.base = IF rotate THEN level ELSE @])
    BY <1>6 DEF WriteEoi
  <1> DEFINE ended == IF specific THEN {level} ELSE TopInService(o)
             c == [o EXCEPT !.isr = @ \ ended, !.base = IF rotate THEN level ELSE @]
  <1> HIDE DEF ended
  <1>8. ~rotate
    BY <1>2, <1>7 DEF AllCommands
  <1>9. /\ c \in Controller
        /\ c.base = o.base /\ c.imr = o.imr /\ c.irr = o.irr /\ c.isr \subseteq o.isr
    BY <1>1, <1>8 DEF Controller
  <1>10. Quiet(c)
    BY <1>1 DEF Controller, Quiet
  <1>11. Update(chip, c)
    BY <1>7 DEF ended
  <1>12. chip = "master" => o.irr = master.irr
    BY DEF ControllerOf
  <1> HIDE DEF o, c
  <1>13. Outranking(o) \subseteq Outranking(c)
    BY <1>9, OutrankingGrows
  <1>14. QED BY <1>9, <1>10, <1>11, <1>12, <1>13, UpdatePassed DEF o

LEMMA InitPassed == Init => LInv
  <1> SUFFICES ASSUME Init, PlainUse PROVE AllPassed(master, slave, intr)
    BY DEF LInv
  <1>1. ASSUME NEW mask
        PROVE  Quiet(BiosController(mask)) /\ BiosController(mask).irr = {}
    BY DEF BiosController, PowerOnController, Quiet
  <1>2. ~use.powerOn
    BY DEF PlainUse
  <1>3. \E m, s \in Masks : master = BiosController(m) /\ slave = BiosController(s)
    BY <1>2 DEF Init
  <1>4. Quiet(master) /\ Quiet(slave) /\ master.irr = {} /\ slave.irr = {} /\ intr = FALSE
    BY <1>1, <1>3 DEF Init
  <1>5. Outranking(master) = {} /\ Outranking(slave) = {}
    BY <1>4 DEF Outranking, Unmasked
  <1>6. QED BY <1>4, <1>5 DEF AllPassed, Passed

LEMMA NextPassed == IInv /\ LInv /\ [Next]_vars => LInv'
  <1> SUFFICES ASSUME IInv, LInv, [Next]_vars, PlainUse'  PROVE KeepsPassed
    BY DEF LInv, KeepsPassed
  <1>1. use' = use
    BY DEF Next, Device, RaiseIrq, LowerIrq, PulseIrq, CountRaise, GetInterrupt, Guest,
           WriteIcw1, WriteIcw, WriteOcw1, WriteEoi, WriteSetPriority,
           WriteRotateInAutoEoi, WriteOcw3, Reset, vars
  <1>2. PlainUse
    BY <1>1 DEF PlainUse
  <1>3. TypeOK /\ AllPassed(master, slave, intr)
    BY <1>2 DEF IInv, LInv
  <1>4. CASE Device
    BY <1>2, <1>3, <1>4, DevicePassed DEF Device
  <1>5. CASE GetInterrupt
    BY <1>3, <1>5, GetInterruptPassed
  <1>6. CASE Guest
    BY <1>2, <1>3, <1>6, GuestPassed DEF Guest
  <1>7. CASE Reset
    BY <1>2, <1>7 DEF Reset, PlainUse
  <1>8. CASE UNCHANGED vars
    BY <1>3, <1>8 DEF vars, KeepsPassed
  <1>9. QED BY <1>4, <1>5, <1>6, <1>7, <1>8 DEF Next

\* Under plain use, whatever the devices do, a request that outranks everything in
\* service has been passed on, and only such a request is.
THEOREM NothingStranded == Spec => []NoLostRequest
  <1>1. \A c : Top(c) => Genuine(c)
    BY DEF Top, NestedCandidate, Unmasked, Genuine
  <1>2. LInv => NoLostRequest
    BY <1>1 DEF LInv, AllPassed, Passed, NoLostRequest
  <1>3. QED BY InitInv, NextInv, InitPassed, NextPassed, <1>2, PTL DEF Spec

-----------------------------------------------------------------------------
(* The steps that strand a request of the master.                           *)

\* A controller signals when there is something to signal, in either mode.
LEMMA SignalsWhen ==
    ASSUME NEW c \in Controller
    PROVE  /\ c.special => (Signals(c) <=> Unmasked(c) \ c.isr # {})
           /\ ~c.special => (Signals(c) <=> Outranking(c) # {})
  <1>1. ASSUME c.special, Unmasked(c) \ c.isr # {}  PROVE Signals(c)
    <2>1. Unmasked(c) \ c.isr \in SUBSET Lines
      BY DEF Unmasked, Controller
    <2>2. PICK k \in Unmasked(c) \ c.isr :
            \A j \in Unmasked(c) \ c.isr : Rank(c, k) <= Rank(c, j)
      BY <1>1, <2>1, FirstExists
    <2>3. k \in SpecialCandidate(c)
      BY <2>2 DEF SpecialCandidate
    <2>4. QED BY <1>1, <2>3 DEF Signals, Candidate
  <1>2. c.special /\ Signals(c) => Unmasked(c) \ c.isr # {}
    BY DEF Signals, Candidate, SpecialCandidate
  <1>3. QED BY <1>1, <1>2, SignalsOutranking

\* A controller with fewer requests, the rest of what is searched being the same,
\* does not begin to signal.
LEMMA FewerSignal ==
    ASSUME NEW c \in Controller, NEW o \in Controller, c.special = o.special,
           c.base = o.base, c.imr = o.imr, c.isr = o.isr, c.irr \subseteq o.irr
    PROVE  Signals(c) => Signals(o)
  <1>1. CASE c.special
    <2>1. o.special /\ Unmasked(c) \ c.isr \subseteq Unmasked(o) \ o.isr
      BY <1>1 DEF Unmasked
    <2>2. QED BY <1>1, <2>1, SignalsWhen
  <1>2. CASE ~c.special
    <2>1. ~o.special /\ Outranking(c) \subseteq Outranking(o)
      BY <1>2, OutrankingGrows
    <2>2. QED BY <1>2, <2>1, SignalsWhen
  <1>3. QED BY <1>1, <1>2

LEMMA LoweredSignal ==
    ASSUME NEW c \in Controller, NEW i \in Lines, Signals(Deasserted(c, i))
    PROVE  Signals(c)
  <1> DEFINE d == Deasserted(c, i)
  <1>1. /\ d \in Controller /\ d.special = c.special
        /\ d.base = c.base /\ d.imr = c.imr /\ d.isr = c.isr /\ d.irr = c.irr \ {i}
    BY DEF Deasserted, Controller
  <1> HIDE DEF d
  <1>2. d.irr \subseteq c.irr
    BY <1>1
  <1>3. Signals(d) => Signals(c)
    BY <1>1, <1>2, FewerSignal
  <1>4. QED BY <1>3 DEF d

\* An update raises INTR for what the master has to signal.
LEMMA UpdateMasterSignals ==
    ASSUME NEW m, UpdateMaster(m), Stranded'
    PROVE  FALSE
  <1>1. ~Signals(m) /\ master' = m
    BY DEF UpdateMaster, Latched, Stranded
  <1>2. Signals(master')
    BY DEF Stranded
  <1>3. QED BY <1>1, <1>2

LEMMA UpdateSlaveSignals ==
    ASSUME NEW m, NEW s, UpdateSlave(s, m), Stranded'
    PROVE  Signals(m) /\ ~intr
  <1>1. CASE Signals(s)
    BY <1>1, UpdateMasterSignals DEF UpdateSlave
  <1>2. CASE ~Signals(s)
    <2>1. master' = m /\ intr' = intr
      BY <1>2 DEF UpdateSlave
    <2>2. Signals(master') /\ ~intr'
      BY DEF Stranded
    <2>3. QED BY <2>1, <2>2
  <1>3. QED BY <1>1, <1>2

LEMMA DeviceStrands ==
    ASSUME TypeOK, Stranded', NEW l \in DeviceLines,
           RaiseIrq(l[1], l[2]) \/ LowerIrq(l[1], l[2]) \/ PulseIrq(l[1], l[2])
    PROVE  Stranded
  <1> DEFINE chip == l[1]
             i == l[2]
             behind == MasterBehind(Deasserted(slave, i))
             low == Deasserted(master, IF chip = "master" THEN i ELSE Cascade)
  <1>1. /\ chip \in Chips /\ i \in Lines /\ Cascade \in Lines /\ master \in Controller
    BY PicAssumption DEF TypeOK
  <1> HIDE DEF chip, i
  <1>2. Signals(low) => Signals(master)
    BY <1>1, LoweredSignal
  <1>3. chip = "slave" => behind = master \/ behind = low
    BY DEF MasterBehind
  <1>4. Signals(master') /\ ~intr'
    BY DEF Stranded
  <1>5. CASE RaiseIrq(chip, i)
    <2>1. Update(chip, Asserted(ControllerOf(chip), i))
      BY <1>5 DEF RaiseIrq
    <2>2. QED BY <2>1, UpdateMasterSignals, UpdateSlaveSignals DEF Update, Stranded
  <1>6. CASE LowerIrq(chip, i)
    <2>1. /\ intr' = intr
          /\ \/ chip = "master" /\ master' = low
             \/ chip = "slave" /\ master' = behind
      BY <1>6 DEF LowerIrq
    <2> HIDE DEF low, behind
    <2>2. QED BY <1>2, <1>3, <1>4, <2>1 DEF Stranded
  <1>7. CASE PulseIrq(chip, i)
    <2>1. \/ chip = "master" /\ UpdateMaster(Asserted(master, i))
          \/ chip = "slave" /\ UpdateSlave(Asserted(slave, i), behind)
      BY <1>7 DEF PulseIrq
    <2> HIDE DEF low, behind
    <2>2. QED BY <1>2, <1>3, <2>1, UpdateMasterSignals, UpdateSlaveSignals DEF Stranded
  <1>8. QED BY <1>5, <1>6, <1>7 DEF chip, i

\* In nested mode without automatic EOI, what was signalled is taken and nothing
\* is left to signal.
LEMMA GetInterruptStrands ==
    ASSUME TypeOK, GetInterrupt, master.hp \in Candidate(master),
           ~master.aeoi, ~master.special
    PROVE  ~Stranded'
  <1> DEFINE d == Acknowledged(master)
  <1>1. master \in Controller /\ Top(master)
    BY DEF TypeOK, Candidate, Top
  <1>2. d \in Controller /\ ~d.special /\ Outranking(d) = {}
    BY <1>1, TopAcknowledged
  <1>3. master' = d
    BY DEF GetInterrupt
  <1> HIDE DEF d
  <1>4. ~Signals(d)
    BY <1>2, SignalsWhen
  <1>5. ~Signals(master')
    BY <1>3, <1>4
  <1>6. QED BY <1>5 DEF Stranded

\* Modes of the master that no search looks at.
LEMMA GuestStrands ==
    ASSUME TypeOK, Stranded', NEW chip \in Chips,
           \/ WriteIcw1(chip) /\ chip = "master"
           \/ WriteIcw(chip)
           \/ \E mask \in Masks : WriteOcw1(chip, mask)
           \/ \E level \in Lines : \/ WriteEoi(chip, level)
                                   \/ WriteSetPriority(chip, level) /\ chip = "slave"
           \/ WriteRotateInAutoEoi(chip)
           \/ WriteOcw3(chip) /\ chip = "slave"
    PROVE  Stranded
  <1> DEFINE o == ControllerOf(chip)
  <1>1. master \in Controller /\ Signals(master') /\ ~intr'
    BY DEF TypeOK, Stranded
  <1>2. ASSUME NEW c, Update(chip, c)  PROVE Stranded
    BY <1>2, UpdateMasterSignals, UpdateSlaveSignals DEF Update, Stranded
  <1>3. ASSUME chip = "slave", NEW c, Store(chip, c), UNCHANGED intr  PROVE Stranded
    BY <1>1, <1>3 DEF Store, Stranded
  <1>4. ASSUME chip = "master", NEW c \in Controller, Store(chip, c), UNCHANGED intr,
               c.special = master.special, c.base = master.base, c.imr = master.imr,
               c.irr = master.irr, c.isr = master.isr
        PROVE  Stranded
    <2>1. Signals(c) => Signals(master)
      BY <1>1, <1>4, FewerSignal
    <2>2. master' = c
      BY <1>4 DEF Store
    <2>3. QED BY <1>1, <1>4, <2>1, <2>2 DEF Stranded
  <1>5. CASE WriteIcw1(chip) /\ chip = "master"
    <2>1. PICK todo : master' = Initialized(master, todo)
      BY <1>5 DEF WriteIcw1, Store, ControllerOf
    <2>2. master'.irr = {}
      BY <1>1, <2>1 DEF Initialized, Controller
    <2>3. ~Signals(master')
      BY <2>2 DEF Signals, Candidate, SpecialCandidate, NestedCandidate, Unmasked
    <2>4. QED BY <1>1, <2>3
  <1>6. CASE WriteIcw(chip)
    <2>1. PICK word \in o.todo, aeoi \in BOOLEAN :
            /\ Store(chip, [o EXCEPT !.todo = @ \ {word},
                                     !.aeoi = IF word = 4 THEN aeoi ELSE @])
            /\ UNCHANGED <<intr, use, raises, inits>>
      BY <1>6 DEF WriteIcw
    <2>2. CASE chip = "slave"
      BY <1>3, <2>1, <2>2
    <2>3. CASE chip = "master"
      <3> DEFINE c == [o EXCEPT !.todo = @ \ {word}, !.aeoi = IF word = 4 THEN aeoi ELSE @]
      <3>1. o = master
        BY <2>3 DEF ControllerOf
      <3>2. c \in Controller
        BY <1>1, <3>1 DEF Controller
      <3>3. /\ c.special = master.special /\ c.base = master.base /\ c.imr = master.imr
            /\ c.irr = master.irr /\ c.isr = master.isr
        BY <1>1, <3>1 DEF Controller
      <3> HIDE DEF c, o
      <3>4. QED BY <1>4, <2>1, <2>3, <3>2, <3>3 DEF c
    <2>4. QED BY <2>2, <2>3 DEF Chips
  <1>7. CASE \E mask \in Masks : WriteOcw1(chip, mask)
    BY <1>2, <1>7 DEF WriteOcw1
  <1>8. ASSUME NEW level \in Lines, WriteEoi(chip, level)  PROVE Stranded
    BY <1>2, <1>8 DEF WriteEoi
  <1>9. ASSUME NEW level \in Lines, WriteSetPriority(chip, level), chip = "slave"  PROVE Stranded
    BY <1>3, <1>9 DEF WriteSetPriority
  <1>10. CASE WriteRotateInAutoEoi(chip)
    <2>1. PICK on \in BOOLEAN : Store(chip, [o EXCEPT !.raeoi = on]) /\ UNCHANGED intr
      BY <1>10 DEF WriteRotateInAutoEoi
    <2>2. CASE chip = "slave"
      BY <1>3, <2>1, <2>2
    <2>3. CASE chip = "master"
      <3> DEFINE c == [o EXCEPT !.raeoi = on]
      <3>1. o = master
        BY <2>3 DEF ControllerOf
      <3>2. c \in Controller
        BY <1>1, <3>1 DEF Controller
      <3>3. /\ c.special = master.special /\ c.base = master.base /\ c.imr = master.imr
            /\ c.irr = master.irr /\ c.isr = master.isr
        BY <1>1, <3>1 DEF Controller
      <3> HIDE DEF c, o
      <3>4. QED BY <1>4, <2>1, <2>3, <3>2, <3>3 DEF c
    <2>4. QED BY <2>2, <2>3 DEF Chips
  <1>11. CASE WriteOcw3(chip) /\ chip = "slave"
    BY <1>3, <1>11 DEF WriteOcw3
  <1>12. QED BY <1>5, <1>6, <1>7, <1>8, <1>9, <1>10, <1>11

LEMMA NextStrands ==
    ASSUME TypeOK, [Next]_vars, Stranded'
    PROVE  \/ Stranded
           \/ GetInterrupt /\
                 (master.hp \notin Candidate(master) \/ master.aeoi \/ master.special)
           \/ WriteIcw1("slave")
           \/ \E level \in Lines : WriteSetPriority("master", level)
           \/ WriteOcw3("master")
  <1>1. CASE Device
    BY <1>1, DeviceStrands DEF Device
  <1>2. CASE GetInterrupt
    BY <1>2, GetInterruptStrands
  <1>3. CASE Guest
    <2>1. PICK chip \in Chips :
            \/ WriteIcw1(chip)
            \/ WriteIcw(chip)
            \/ \E mask \in Masks : WriteOcw1(chip, mask)
            \/ \E level \in Lines : WriteEoi(chip, level) \/ WriteSetPriority(chip, level)
            \/ WriteRotateInAutoEoi(chip)
            \/ WriteOcw3(chip)
      BY <1>3 DEF Guest
    <2>2. CASE chip = "slave"
      BY <2>1, <2>2, GuestStrands
    <2>3. CASE chip = "master"
      BY <2>1, <2>3, GuestStrands
    <2>4. QED BY <2>2, <2>3 DEF Chips
  <1>4. CASE Reset
    <2>1. master'.irr = {}
      BY <1>4 DEF Reset, Cleared, TypeOK, Controller
    <2>2. ~Signals(master')
      BY <2>1 DEF Signals, Candidate, SpecialCandidate, NestedCandidate, Unmasked
    <2>3. QED BY <2>2 DEF Stranded
  <1>5. CASE UNCHANGED vars
    BY <1>5 DEF vars, Stranded
  <1>6. QED BY <1>1, <1>2, <1>3, <1>4, <1>5 DEF Next

\* Whatever devices and guest do, a request of the master is left without INTR
\* only by the steps StrandingSteps names.
THEOREM OnlyTheseStrand == Spec => StrandingSteps
  <1>1. IInv /\ [Next]_vars =>
          [Stranded' => \/ Stranded
                        \/ GetInterrupt /\
                              (master.hp \notin Candidate(master) \/ master.aeoi \/ master.special)
                        \/ WriteIcw1("slave")
                        \/ \E level \in Lines : WriteSetPriority("master", level)
                        \/ WriteOcw3("master")]_vars
    BY NextStrands DEF IInv
  <1>2. QED BY InitInv, NextInv, <1>1, PTL DEF Spec, StrandingSteps

=============================================================================
