----------------------------- MODULE ApicProofs -----------------------------
(* Theorems about Apic, for any lines, vectors, priorities and uses.          *)
EXTENDS Apic, WellFoundedInduction, TLAPS

Outranks(a) == \E v \in a.irr : \A w \in a.isr : w < v

\* The two invariants but for aborted, of a local APIC and a state of the line.
Sound(a, line) ==
    /\ Without({"registers"}) /\ Deliverable(a) => a.line
    /\ Without({"icw1"}) /\ a.line => line
    /\ Without({"registers"}) /\ a.line => Outranks(a)

IInv == TypeOK /\ NoLostInterrupt /\ TakenOutranks

-----------------------------------------------------------------------------
(* Vectors.                                                                 *)

LEMMA VectorRange == Vectors \cup {0} \subseteq 0 .. 255
  BY ApicAssumption

\* highest_set_bit() of a register that is not empty is its greatest vector.
LEMMA HighestExists ==
    ASSUME NEW S \in SUBSET (0 .. 255), S # {}
    PROVE  Highest(S) \in S /\ \A w \in S : w <= Highest(S)
  <1> DEFINE T == {255 - v : v \in S}
             R == OpToRel(<, Nat)
  <1>1. T \subseteq Nat /\ T # {}
    <2>1. \A v \in S : 255 - v \in Nat
      OBVIOUS
    <2>2. T \subseteq Nat
      BY <2>1
    <2>3. PICK v \in S : TRUE
      OBVIOUS
    <2>4. 255 - v \in T
      OBVIOUS
    <2>5. QED BY <2>2, <2>4
  <1>2. \E x \in T : \A y \in T : ~(<<y, x>> \in R)
    <2>1. IsWellFoundedOn(R, Nat)
      BY NatLessThanWellFounded
    <2> HIDE DEF T, R
    <2>2. QED BY <1>1, <2>1, WFMin
  <1>3. PICK x \in T : \A y \in T : ~(<<y, x>> \in R)
    BY <1>2
  <1>4. PICK v \in S : x = 255 - v
    OBVIOUS
  <1>5. \A w \in S : w <= v
    <2> TAKE w \in S
    <2>1. 255 - w \in T
      OBVIOUS
    <2>2. ~(255 - w < 255 - v)
      BY <1>1, <1>3, <1>4, <2>1 DEF OpToRel
    <2>3. QED BY <2>2
  <1>6. QED BY <1>4, <1>5 DEF Highest

\* Putting the highest request in service leaves nothing deliverable.
LEMMA InServiceQuiet ==
    ASSUME NEW a \in LocalApic, a.irr # {}
    PROVE  /\ InService(a) \in LocalApic
           /\ ~InService(a).line
           /\ ~Deliverable(InService(a))
  <1> DEFINE h == Highest(a.irr)
  <1>1. a.irr \in SUBSET (0 .. 255)
    BY VectorRange DEF LocalApic
  <1>2. h \in a.irr /\ \A w \in a.irr : w <= h
    BY <1>1, HighestExists
  <1>3. h \in 0 .. 255 /\ h \in Vectors \cup {0}
    BY <1>1, <1>2 DEF LocalApic
  <1> DEFINE b == InService(a)
  <1>4. b = [a EXCEPT !.irr = @ \ {h}, !.isr = @ \cup {h}, !.line = FALSE]
    BY DEF InService
  <1> HIDE DEF h, b
  <1>5. b \in LocalApic /\ b.irr = a.irr \ {h} /\ b.isr = a.isr \cup {h} /\ b.line = FALSE
    BY <1>3, <1>4 DEF LocalApic
  <1>6. ~Deliverable(b)
    <2> SUFFICES ASSUME NEW v \in b.irr, \A w \in b.isr : w < v PROVE FALSE
      BY DEF Deliverable
    <2>1. h < v /\ v <= h
      BY <1>2, <1>5
    <2>2. v \in 0 .. 255
      BY <1>1, <1>5
    <2>3. QED BY <1>3, <2>1, <2>2
  <1>7. QED BY <1>5, <1>6 DEF b

-----------------------------------------------------------------------------
(* Handlers that end by looking for the next interrupt.                     *)

LEMMA SendSound ==
    ASSUME intr \in BOOLEAN, NEW a \in LocalApic,
           Without({"registers"}) /\ a.line => Outranks(a),
           Without({"icw1"}) /\ a.line => intr,
           Send(a), UNCHANGED use
    PROVE  apic' \in LocalApic /\ intr' \in BOOLEAN /\ Sound(apic, intr)'
  <1>1. /\ apic' = [a EXCEPT !.line = a.line \/ Deliverable(a)]
        /\ intr' = (intr \/ (~a.line /\ Deliverable(a)))
    BY DEF Send
  <1>2. a.line \in BOOLEAN /\ Deliverable(a) \in BOOLEAN
    BY DEF LocalApic, Deliverable
  <1>3. /\ apic' \in LocalApic
        /\ apic'.irr = a.irr /\ apic'.isr = a.isr /\ apic'.tpr = a.tpr
        /\ apic'.line = (a.line \/ Deliverable(a))
    BY <1>1, <1>2 DEF LocalApic
  <1>4. Deliverable(apic') <=> Deliverable(a)
    BY <1>3 DEF Deliverable
  <1>5. Deliverable(a) => Outranks(a)
    BY DEF Deliverable, Outranks
  <1>6. Outranks(apic') <=> Outranks(a)
    BY <1>3 DEF Outranks
  <1>7. \A S : (Without(S))' <=> Without(S)
    BY DEF Without
  <1>8. intr' \in BOOLEAN
    BY <1>1, <1>2
  <1>9. /\ Without({"registers"}) /\ Deliverable(apic') => apic'.line
        /\ Without({"icw1"}) /\ apic'.line => intr'
        /\ Without({"registers"}) /\ apic'.line => Outranks(apic')
    BY <1>1, <1>2, <1>3, <1>4, <1>5, <1>6
  <1>10. QED BY <1>3, <1>7, <1>8, <1>9 DEF Sound, Deliverable, Outranks, Without

LEMMA ReceivedKeeps ==
    ASSUME NEW a \in LocalApic, NEW vs \in SUBSET (Vectors \cup {0}),
           NEW levels \in SUBSET (Vectors \cup {0})
    PROVE  /\ Received(a, vs, levels) \in LocalApic
           /\ Received(a, vs, levels).line = a.line
           /\ Outranks(a) => Outranks(Received(a, vs, levels))
  <1>1. /\ Received(a, vs, levels) \in LocalApic
        /\ Received(a, vs, levels).line = a.line
        /\ Received(a, vs, levels).irr = a.irr \cup vs
        /\ Received(a, vs, levels).isr = a.isr
    BY DEF Received, LocalApic
  <1>2. QED BY <1>1 DEF Outranks

\* A message that is dropped changes nothing; any other ends with the search.
LEMMA ReceiveSound ==
    ASSUME TypeOK, Sound(apic, intr), NEW vs \in SUBSET (Vectors \cup {0}),
           NEW levels \in SUBSET (Vectors \cup {0}), Receive(vs, levels), UNCHANGED use
    PROVE  apic' \in LocalApic /\ intr' \in BOOLEAN /\ Sound(apic, intr)'
  <1>1. CASE UNCHANGED <<apic, intr>>
    BY <1>1 DEF TypeOK, Sound, Without, Deliverable, Outranks
  <1>2. CASE Send(Received(apic, vs, levels))
    <2>1. /\ Received(apic, vs, levels) \in LocalApic
          /\ Received(apic, vs, levels).line = apic.line
          /\ Outranks(apic) => Outranks(Received(apic, vs, levels))
      BY ReceivedKeeps DEF TypeOK
    <2>2. /\ Without({"registers"}) /\ apic.line => Outranks(apic)
          /\ Without({"icw1"}) /\ apic.line => intr
          /\ intr \in BOOLEAN
      BY DEF Sound, TypeOK
    <2>3. QED BY <1>2, <2>1, <2>2, SendSound
  <1>3. QED BY <1>1, <1>2 DEF Receive

LEMMA IoUpdateSound ==
    ASSUME TypeOK, Sound(apic, intr), NEW io \in IoApic, IoUpdate(io), UNCHANGED use
    PROVE  /\ ioapic' \in IoApic /\ apic' \in LocalApic /\ intr' \in BOOLEAN
           /\ Sound(apic, intr)'
  <1> DEFINE sent == Sendable(io)
             levels == {p \in sent : io.redtbl[p].level}
             first(p) == \A q \in sent : io.redtbl[q].vector = io.redtbl[p].vector => p <= q
             vs == {io.redtbl[p].vector : p \in sent}
             ls == {io.redtbl[p].vector : p \in {q \in levels : first(q)}}
  <1>1. /\ ioapic' = [io EXCEPT !.irr = @ \ (sent \ levels)]
        /\ Receive(vs, ls)
    BY DEF IoUpdate
  <1>2. sent \subseteq Pins
    BY DEF Sendable, IoApic
  <1>3. \A p \in Pins : io.redtbl[p].vector \in Vectors \cup {0}
    BY DEF IoApic, Entry
  <1>4. vs \in SUBSET (Vectors \cup {0}) /\ ls \in SUBSET (Vectors \cup {0})
    BY <1>2, <1>3
  <1>5. ioapic' \in IoApic
    BY <1>1 DEF IoApic
  <1> HIDE DEF vs, ls
  <1>6. QED BY <1>1, <1>4, <1>5, ReceiveSound

-----------------------------------------------------------------------------
(* The initial states and the steps.                                        *)

LEMMA InitInv == Init => IInv
  <1> SUFFICES ASSUME Init PROVE IInv
    OBVIOUS
  <1>1. ResetEntry \in Entry
    BY DEF ResetEntry, Entry
  <1>2. TypeOK
    <2>1. ioapic \in IoApic
      BY <1>1 DEF Init, IoApic
    <2>2. apic \in LocalApic
      BY DEF Init, LocalApic
    <2>3. QED BY <2>1, <2>2 DEF Init, TypeOK
  <1>3. apic.irr = {} /\ apic.line = FALSE /\ aborted = FALSE
    BY DEF Init
  <1>4. ~Deliverable(apic)
    BY <1>3 DEF Deliverable
  <1>5. QED BY <1>2, <1>3, <1>4 DEF IInv, NoLostInterrupt, TakenOutranks

LEMMA InvSound == IInv => Sound(apic, intr)
  BY DEF IInv, NoLostInterrupt, TakenOutranks, Sound, Outranks

LEMMA Assemble ==
    ASSUME IInv, ioapic' \in IoApic, apic' \in LocalApic, pic' \in BOOLEAN, intr' \in BOOLEAN,
           Sound(apic, intr)', aborted' \in BOOLEAN,
           Without({"registers"}) /\ Without({"ppr"}) /\ ~aborted => ~aborted',
           use' = use, raises' \in Nat
    PROVE  IInv'
  <1>1. \A S : (Without(S))' <=> Without(S)
    BY DEF Without
  <1>2. TypeOK'
    BY DEF IInv, TypeOK
  <1>3. Without({"registers"}) /\ Without({"ppr"}) => ~aborted'
    BY DEF IInv, TakenOutranks
  <1>4. QED BY <1>1, <1>2, <1>3 DEF IInv, NoLostInterrupt, TakenOutranks, Sound, Outranks, Without

LEMMA CountKept ==
    ASSUME TypeOK, CountRaise \/ UNCHANGED <<use, raises>>
    PROVE  use' = use /\ raises' \in Nat
  BY DEF TypeOK, CountRaise

LEMMA PinsInRange == \A line \in Lines : PinOf(line) \in Pins
  BY DEF Pins

\* A handler that ends with ioapic_update(), whatever it made of the I/O APIC.
LEMMA UpdatingInv ==
    ASSUME IInv, NEW io \in IoApic, IoUpdate(io), CountRaise \/ UNCHANGED <<use, raises>>,
           UNCHANGED <<pic, aborted>>
    PROVE  IInv'
  <1>1. TypeOK /\ Sound(apic, intr) /\ pic' \in BOOLEAN /\ aborted' \in BOOLEAN
    BY InvSound DEF IInv, TypeOK
  <1>2. use' = use /\ raises' \in Nat
    BY <1>1, CountKept
  <1>3. QED BY <1>1, <1>2, IoUpdateSound, Assemble

\* A step that leaves the local APIC and the line alone.
LEMMA QuietInv ==
    ASSUME IInv, ioapic' \in IoApic, UNCHANGED <<apic, intr, aborted>>, pic' \in BOOLEAN,
           CountRaise \/ UNCHANGED <<use, raises>>
    PROVE  IInv'
  <1>1. TypeOK /\ Sound(apic, intr)
    BY InvSound DEF IInv
  <1>2. use' = use /\ raises' \in Nat
    BY <1>1, CountKept
  <1>3. Sound(apic, intr)'
    BY <1>1, <1>2 DEF Sound, Without, Deliverable, Outranks
  <1>4. apic' \in LocalApic /\ intr' \in BOOLEAN /\ aborted' \in BOOLEAN
    BY <1>1 DEF TypeOK
  <1>5. QED BY <1>2, <1>3, <1>4, Assemble

LEMMA RaiseInv ==
    ASSUME IInv, NEW line \in Lines, RaiseIrq(line)
    PROVE  IInv'
  <1> DEFINE p == PinOf(line)
             io == Asserted(ioapic, p)
             io2 == [io EXCEPT !.redtbl[p].rirr = TRUE]
  <1>1. ioapic \in IoApic /\ p \in Pins
    BY PinsInRange DEF IInv, TypeOK
  <1>2. CountRaise /\ UNCHANGED <<pic, aborted>> /\ pic \in BOOLEAN
    BY DEF RaiseIrq, IInv, TypeOK
  <1>3. io \in IoApic
    BY <1>1 DEF Asserted, IoApic
  <1>4. io2 \in IoApic
    <2> HIDE DEF io, p
    <2>1. [io.redtbl[p] EXCEPT !.rirr = TRUE] \in Entry
      <3> DEFINE e == io.redtbl[p]
      <3>1. e \in Entry
        BY <1>1, <1>3 DEF IoApic
      <3> HIDE DEF e
      <3>2. [e EXCEPT !.rirr = TRUE] \in Entry
        BY <3>1 DEF Entry
      <3>3. QED BY <3>2 DEF e
    <2>2. io2 = [io EXCEPT !.redtbl = [@ EXCEPT ![p] = [io.redtbl[p] EXCEPT !.rirr = TRUE]]]
      BY <1>1, <1>3 DEF IoApic
    <2>3. QED BY <1>1, <1>3, <2>1, <2>2 DEF IoApic
  <1>5. UNCHANGED <<ioapic, apic, intr>> \/ IoUpdate(io2) \/ IoUpdate(io)
    BY DEF RaiseIrq
  <1> HIDE DEF io, io2
  <1>6. CASE UNCHANGED <<ioapic, apic, intr>>
    BY <1>1, <1>2, <1>6, QuietInv
  <1>7. CASE IoUpdate(io2)
    BY <1>2, <1>4, <1>7, UpdatingInv
  <1>8. CASE IoUpdate(io)
    BY <1>2, <1>3, <1>8, UpdatingInv
  <1>9. QED BY <1>5, <1>6, <1>7, <1>8

LEMMA LowerInv ==
    ASSUME IInv, NEW line \in Lines, LowerIrq(line)
    PROVE  IInv'
  <1>1. ioapic' \in IoApic
    BY DEF LowerIrq, IInv, TypeOK, IoApic
  <1>2. UNCHANGED <<apic, pic, intr, aborted, use, raises>> /\ pic \in BOOLEAN
    BY DEF LowerIrq, IInv, TypeOK
  <1>3. QED BY <1>1, <1>2, QuietInv

LEMMA RedirectionInv ==
    ASSUME IInv, NEW p \in Pins, NEW v \in Vectors, NEW masked \in BOOLEAN,
           WriteRedirection(p, v, masked)
    PROVE  IInv'
  <1> DEFINE old == ioapic.redtbl[p]
             new == [vector |-> v, level |-> p \in use.levels, masked |-> masked,
                     rirr |-> old.rirr]
             cleared == [new EXCEPT !.rirr = FALSE]
  <1>1. ioapic \in IoApic /\ old.rirr \in BOOLEAN
    BY DEF IInv, TypeOK, IoApic, Entry
  <1>2. new \in Entry /\ cleared \in Entry
    <2> DEFINE lev == p \in use.levels
    <2>1. lev \in BOOLEAN
      OBVIOUS
    <2>2. new = [vector |-> v, level |-> lev, masked |-> masked, rirr |-> old.rirr]
      OBVIOUS
    <2> HIDE DEF lev, old
    <2>3. [vector |-> v, level |-> lev, masked |-> masked, rirr |-> old.rirr] \in Entry
      BY <1>1, <2>1 DEF Entry
    <2>4. new \in Entry
      BY <2>2, <2>3
    <2> HIDE DEF new
    <2>5. QED BY <2>4 DEF Entry
  <1> HIDE DEF new, cleared
  <1>3. [ioapic EXCEPT !.redtbl[p] = new] \in IoApic /\ [ioapic EXCEPT !.redtbl[p] = cleared] \in IoApic
    BY <1>1, <1>2 DEF IoApic
  <1>4. /\ \/ IoUpdate([ioapic EXCEPT !.redtbl[p] = new])
           \/ IoUpdate([ioapic EXCEPT !.redtbl[p] = cleared])
        /\ UNCHANGED <<pic, aborted, use, raises>>
    BY DEF WriteRedirection, new, cleared
  <1>5. QED BY <1>3, <1>4, UpdatingInv

\* A handler of the local APIC that ends by looking for the next interrupt.
LEMMA SendingInv ==
    ASSUME IInv, NEW a \in LocalApic, a.line = apic.line, Outranks(apic) => Outranks(a),
           Send(a), ioapic' \in IoApic, UNCHANGED <<pic, aborted>>,
           CountRaise \/ UNCHANGED <<use, raises>>
    PROVE  IInv'
  <1>1. TypeOK /\ Sound(apic, intr)
    BY InvSound DEF IInv
  <1>2. use' = use /\ raises' \in Nat /\ pic' \in BOOLEAN /\ aborted' \in BOOLEAN
    BY <1>1, CountKept DEF TypeOK
  <1>3. /\ Without({"registers"}) /\ a.line => Outranks(a)
        /\ Without({"icw1"}) /\ a.line => intr
        /\ intr \in BOOLEAN
    BY <1>1 DEF Sound, TypeOK
  <1>4. apic' \in LocalApic /\ intr' \in BOOLEAN /\ Sound(apic, intr)'
    BY <1>2, <1>3, SendSound
  <1>5. QED BY <1>2, <1>4, Assemble

LEMMA MessageInv ==
    ASSUME IInv, NEW v \in Vectors, NEW level \in BOOLEAN, LocalMessage(v, level)
    PROVE  IInv'
  <1>1. TypeOK /\ Sound(apic, intr)
    BY InvSound DEF IInv
  <1>2. /\ Receive({v}, IF level THEN {v} ELSE {})
        /\ CountRaise /\ UNCHANGED <<ioapic, pic, aborted>>
    BY DEF LocalMessage
  <1>3. use' = use /\ raises' \in Nat
    BY <1>1, <1>2, CountKept
  <1>4. apic' \in LocalApic /\ intr' \in BOOLEAN /\ Sound(apic, intr)'
    BY <1>1, <1>2, <1>3, ReceiveSound
  <1>5. QED BY <1>1, <1>2, <1>3, <1>4, Assemble DEF TypeOK

LEMMA PriorityInv ==
    ASSUME IInv, NEW t \in Priorities, WriteTaskPriority(t)
    PROVE  IInv'
  <1> DEFINE a == [apic EXCEPT !.tpr = t % 256]
  <1>1. apic \in LocalApic /\ ioapic \in IoApic
    BY DEF IInv, TypeOK
  <1>2. t % 256 \in 0 .. 255
    BY ApicAssumption
  <1>3. a \in LocalApic /\ a.line = apic.line /\ a.irr = apic.irr /\ a.isr = apic.isr
    BY <1>1, <1>2 DEF LocalApic
  <1>4. Send(a) /\ UNCHANGED <<ioapic, pic, aborted, use, raises>>
    BY DEF WriteTaskPriority
  <1> HIDE DEF a
  <1>5. Outranks(apic) => Outranks(a)
    BY <1>3 DEF Outranks
  <1>6. QED BY <1>1, <1>3, <1>4, <1>5, SendingInv

LEMMA EoiInv ==
    ASSUME IInv, WriteEoi
    PROVE  IInv'
  <1> DEFINE v == Highest(apic.isr)
             a == [apic EXCEPT !.isr = @ \ {v}]
  <1>1. apic \in LocalApic /\ ioapic \in IoApic
    BY DEF IInv, TypeOK
  <1>2. a \in LocalApic /\ a.line = apic.line /\ a.irr = apic.irr /\ a.isr \subseteq apic.isr
    BY <1>1 DEF LocalApic
  <1>3. /\ Send(a) /\ UNCHANGED <<pic, aborted, use, raises>>
        /\ ioapic' = RemoteEoi(ioapic, v) \/ ioapic' = ioapic
    BY DEF WriteEoi
  <1> HIDE DEF v
  <1> HIDE DEF a
  <1>4. RemoteEoi(ioapic, v) \in IoApic
    <2> DEFINE new(p) == IF ioapic.redtbl[p].vector = v
                           THEN [ioapic.redtbl[p] EXCEPT !.rirr = FALSE] ELSE ioapic.redtbl[p]
    <2>1. ASSUME NEW p \in Pins  PROVE  new(p) \in Entry
      <3>1. ioapic.redtbl[p] \in Entry
        BY <1>1 DEF IoApic
      <3> QED BY <3>1 DEF Entry
    <2>2. RemoteEoi(ioapic, v) = [ioapic EXCEPT !.redtbl = [p \in Pins |-> new(p)]]
      BY DEF RemoteEoi
    <2> HIDE DEF new
    <2>3. QED BY <1>1, <2>1, <2>2 DEF IoApic
  <1>5. Outranks(apic) => Outranks(a)
    BY <1>2 DEF Outranks
  <1>6. QED BY <1>1, <1>2, <1>3, <1>4, <1>5, SendingInv

\* apic_get_interrupt() with a request: the INTR line and the APIC's signal go low together.
LEMMA TakeInv ==
    ASSUME IInv, apic.irr # {}, apic' = InService(apic), intr' = FALSE,
           UNCHANGED <<ioapic, pic, aborted, use, raises>>
    PROVE  IInv'
  <1>1. TypeOK
    BY DEF IInv
  <1>2. apic' \in LocalApic /\ ~apic'.line /\ ~Deliverable(apic')
    BY <1>1, InServiceQuiet DEF TypeOK
  <1>3. Sound(apic, intr)'
    BY <1>2 DEF Sound, Deliverable, Outranks, Without
  <1>4. ioapic' \in IoApic /\ pic' \in BOOLEAN /\ aborted' \in BOOLEAN /\ raises' \in Nat
    BY <1>1 DEF TypeOK
  <1>5. QED BY <1>2, <1>3, <1>4, Assemble

LEMMA ReadPriorityInv ==
    ASSUME IInv, ReadProcessorPriority
    PROVE  IInv'
  <1>1. CASE apic.irr = {}
    <2>1. /\ aborted' = TRUE /\ UNCHANGED <<apic, intr, ioapic, pic, use, raises>>
          /\ ~Without({"ppr"})
      BY <1>1 DEF ReadProcessorPriority, Without
    <2>2. TypeOK /\ Sound(apic, intr)
      BY InvSound DEF IInv
    <2>3. Sound(apic, intr)'
      BY <2>1, <2>2 DEF Sound, Deliverable, Outranks, Without
    <2>4. /\ ioapic' \in IoApic /\ apic' \in LocalApic /\ pic' \in BOOLEAN /\ intr' \in BOOLEAN
          /\ raises' \in Nat
      BY <2>1, <2>2 DEF TypeOK
    <2>5. QED BY <2>1, <2>3, <2>4, Assemble
  <1>2. CASE apic.irr # {}
    BY <1>2, TakeInv DEF ReadProcessorPriority
  <1>3. QED BY <1>1, <1>2

LEMMA WriteRegistersInv ==
    ASSUME IInv, NEW vs \in SUBSET Vectors, WriteRegisters(vs)
    PROVE  IInv'
  <1>1. TypeOK /\ Sound(apic, intr)
    BY InvSound DEF IInv
  <1>2. /\ UNCHANGED <<ioapic, pic, intr, aborted, use, raises>>
        /\ ~Without({"registers"})
    BY DEF WriteRegisters, Without
  <1>3. apic' \in LocalApic /\ apic'.line = apic.line
    BY <1>1 DEF WriteRegisters, TypeOK, LocalApic
  <1>4. Sound(apic, intr)'
    BY <1>1, <1>2, <1>3 DEF Sound, Without
  <1>5. QED BY <1>1, <1>2, <1>3, <1>4, Assemble DEF TypeOK

LEMMA ResetInv ==
    ASSUME IInv, Reset
    PROVE  IInv'
  <1>1. ResetEntry \in Entry
    BY DEF ResetEntry, Entry
  <1>2. ioapic' \in IoApic
    BY <1>1 DEF Reset, IInv, TypeOK, IoApic
  <1>3. UNCHANGED <<apic, pic, intr, aborted, use, raises>> /\ pic \in BOOLEAN
    BY DEF Reset, IInv, TypeOK
  <1>4. QED BY <1>2, <1>3, QuietInv

LEMMA PicInv ==
    ASSUME IInv, PicSignals \/ PicIcw1
    PROVE  IInv'
  <1>1. TypeOK /\ Sound(apic, intr)
    BY InvSound DEF IInv
  <1>2. /\ UNCHANGED <<ioapic, apic, aborted>> /\ pic' \in BOOLEAN
        /\ intr' = TRUE \/ (intr' = FALSE /\ ~Without({"icw1"}))
        /\ CountRaise \/ UNCHANGED <<use, raises>>
    BY DEF PicSignals, PicIcw1, Without
  <1>3. use' = use /\ raises' \in Nat
    BY <1>1, <1>2, CountKept
  <1>4. Sound(apic, intr)'
    BY <1>1, <1>2, <1>3 DEF Sound, Deliverable, Outranks, Without
  <1>5. QED BY <1>1, <1>2, <1>3, <1>4, Assemble DEF TypeOK

LEMMA GetInterruptInv ==
    ASSUME IInv, GetInterrupt
    PROVE  IInv'
  <1>1. TypeOK /\ Sound(apic, intr)
    BY InvSound DEF IInv
  <1>2. CASE apic.line /\ apic.irr = {}
    <2>1. aborted' = TRUE /\ UNCHANGED <<apic, intr, pic, ioapic, use, raises>>
      BY <1>2 DEF GetInterrupt
    <2>2. ~Without({"registers"})
      BY <1>1, <1>2 DEF Sound, Outranks
    <2>3. Sound(apic, intr)'
      BY <1>1, <2>1 DEF Sound, Deliverable, Outranks, Without
    <2>4. QED BY <1>1, <2>1, <2>2, <2>3, Assemble DEF TypeOK
  <1>3. CASE apic.line /\ apic.irr # {}
    BY <1>3, TakeInv DEF GetInterrupt
  <1>4. CASE ~apic.line
    <2>1. pic' = FALSE /\ intr' = FALSE /\ UNCHANGED <<apic, aborted, ioapic, use, raises>>
      BY <1>4 DEF GetInterrupt
    <2>2. Sound(apic, intr)'
      BY <1>1, <1>4, <2>1 DEF Sound, Deliverable, Outranks, Without
    <2>3. QED BY <1>1, <2>1, <2>2, Assemble DEF TypeOK
  <1>5. QED BY <1>2, <1>3, <1>4

LEMMA NextInv == IInv /\ [Next]_vars => IInv'
  <1> SUFFICES ASSUME IInv, [Next]_vars PROVE IInv'
    OBVIOUS
  <1>1. CASE UNCHANGED vars
    <2>1. UNCHANGED <<ioapic, apic, pic, intr, aborted, use, raises>>
      BY <1>1 DEF vars
    <2>2. QED BY <2>1, QuietInv DEF IInv, TypeOK
  <1>2. CASE Next
    BY <1>2, RaiseInv, LowerInv, RedirectionInv, MessageInv, PriorityInv, EoiInv,
       ReadPriorityInv, WriteRegistersInv, ResetInv, PicInv, GetInterruptInv DEF Next
  <1>3. QED BY <1>1, <1>2

-----------------------------------------------------------------------------
\* The registers of both APICs stay within their types.
THEOREM TypeCorrect == Spec => []TypeOK
  <1>1. IInv => TypeOK
    BY DEF IInv
  <1>2. QED BY InitInv, NextInv, <1>1, PTL DEF Spec

\* No request the local APIC may deliver goes without a signal on the CPU's line.
THEOREM NothingLost == Spec => []NoLostInterrupt
  <1>1. IInv => NoLostInterrupt
    BY DEF IInv
  <1>2. QED BY InitInv, NextInv, <1>1, PTL DEF Spec

\* A signalled interrupt outranks everything in service when it is taken.
THEOREM TakenInOrder == Spec => []TakenOutranks
  <1>1. IInv => TakenOutranks
    BY DEF IInv
  <1>2. QED BY InitInv, NextInv, <1>1, PTL DEF Spec

-----------------------------------------------------------------------------
(* The remote IRR bit.  The guest keeps a vector to one trigger mode, programs a pin   *)
(* once and does not mask it.                                               *)

Plain == Without({"mask", "redirect", "registers", "share"})

\* An entry without vector is as it was reset; the others have a vector of
\* their mode.
EntryFits(e) ==
    /\ e.vector = 0 => e.masked /\ ~e.rirr /\ ~e.level
    /\ e.rirr => e.level
    /\ e.vector # 0 => e.vector \in Vectors /\ (e.level <=> e.vector \in LevelVectors)

EntriesFit(io) == \A p \in Pins : EntryFits(io.redtbl[p])

\* The trigger mode register is right for what is requested or in service, so
\* that its end reaches the I/O APIC.
ModesFit(a) ==
    \A v \in a.irr \cup a.isr : v \in Vectors /\ (v \in a.tmr <=> v \in LevelVectors)

\* LevelInFlight, for any pin.
InFlight(io, a) ==
    \A p \in Pins : io.redtbl[p].rirr /\ ~io.redtbl[p].masked
                        => io.redtbl[p].vector \in a.irr \cup a.isr

LevelInv == Plain => EntriesFit(ioapic) /\ ModesFit(apic) /\ InFlight(ioapic, apic)

\* The lowest of some pins.
LEMMA LowestExists ==
    ASSUME NEW S \in SUBSET Pins, S # {}
    PROVE  \E p \in S : \A q \in S : p <= q
  <1> DEFINE R == OpToRel(<, Nat)
  <1>1. S \subseteq Nat
    BY ApicAssumption DEF Pins, PinOf
  <1>2. \E p \in S : \A q \in S : ~(<<q, p>> \in R)
    <2>1. IsWellFoundedOn(R, Nat)
      BY NatLessThanWellFounded
    <2> HIDE DEF R
    <2>2. QED BY <1>1, <2>1, WFMin
  <1>3. PICK p \in S : \A q \in S : ~(<<q, p>> \in R)
    BY <1>2
  <1>4. \A q \in S : p <= q
    <2> TAKE q \in S
    <2>1. ~(q < p)
      BY <1>1, <1>3 DEF OpToRel
    <2>2. QED BY <1>1, <2>1
  <1>5. QED BY <1>4

\* Messages that say their mode truly.
LEMMA ReceiveFits ==
    ASSUME apic \in LocalApic, ModesFit(apic), NEW vs \in SUBSET Vectors,
           Receive(vs, vs \cap LevelVectors)
    PROVE  /\ ModesFit(apic') /\ vs \subseteq apic'.irr
           /\ apic.irr \subseteq apic'.irr /\ apic'.isr = apic.isr
  <1>1. CASE vs \subseteq apic.irr
    BY <1>1 DEF Receive
  <1>2. CASE ~(vs \subseteq apic.irr)
    <2> DEFINE r == Received(apic, vs, vs \cap LevelVectors)
    <2>1. /\ r.irr = apic.irr \cup vs /\ r.isr = apic.isr
          /\ r.tmr = (apic.tmr \ (vs \ apic.irr)) \cup ((vs \cap LevelVectors) \ apic.irr)
      BY DEF Received, LocalApic
    <2>2. r \in LocalApic
      BY ApicAssumption, ReceivedKeeps
    <2>3. Send(r)
      BY <1>2 DEF Receive
    <2> HIDE DEF r
    <2>4. apic'.irr = r.irr /\ apic'.isr = r.isr /\ apic'.tmr = r.tmr
      BY <2>2, <2>3 DEF Send, LocalApic
    <2>5. ModesFit(apic')
      BY <2>1, <2>4 DEF ModesFit
    <2>6. QED BY <2>1, <2>4, <2>5
  <1>3. QED BY <1>1, <1>2

\* ioapic_update() with entries that fit.
LEMMA IoUpdateFits ==
    ASSUME apic \in LocalApic, ModesFit(apic), NEW io \in IoApic, EntriesFit(io), IoUpdate(io)
    PROVE  /\ EntriesFit(ioapic') /\ ModesFit(apic')
           /\ ioapic'.redtbl = io.redtbl
           /\ \A p \in Sendable(io) : io.redtbl[p].vector \in apic'.irr
           /\ apic.irr \cup apic.isr \subseteq apic'.irr \cup apic'.isr
  <1> DEFINE sent == Sendable(io)
             levels == {p \in sent : io.redtbl[p].level}
             first(p) == \A q \in sent : io.redtbl[q].vector = io.redtbl[p].vector => p <= q
             vs == {io.redtbl[p].vector : p \in sent}
             ls == {io.redtbl[p].vector : p \in {q \in levels : first(q)}}
  <1>1. /\ ioapic' = [io EXCEPT !.irr = @ \ (sent \ levels)]
        /\ Receive(vs, ls)
    BY DEF IoUpdate
  <1>2. sent \subseteq Pins /\ \A p \in sent : ~io.redtbl[p].masked
    BY DEF Sendable, IoApic
  <1>3. ioapic'.redtbl = io.redtbl
    BY <1>1 DEF IoApic
  <1>4. \A p \in sent : /\ io.redtbl[p].vector \in Vectors
                        /\ io.redtbl[p].level <=> io.redtbl[p].vector \in LevelVectors
    BY <1>2 DEF EntriesFit, EntryFits
  <1>5. \A v \in vs : \E p \in sent : io.redtbl[p].vector = v /\ first(p)
    <2> SUFFICES ASSUME NEW v \in vs
                 PROVE  \E p \in sent : io.redtbl[p].vector = v /\ first(p)
      OBVIOUS
    <2> DEFINE S == {p \in sent : io.redtbl[p].vector = v}
    <2>1. S \subseteq Pins /\ S # {}
      BY <1>2
    <2>2. PICK p \in S : \A q \in S : p <= q
      BY <2>1, LowestExists
    <2>3. QED BY <2>2
  <1>6. ls = vs \cap LevelVectors
    BY <1>4, <1>5
  <1>7. vs \subseteq Vectors
    BY <1>4
  <1>8. \A p \in sent : io.redtbl[p].vector \in vs
    OBVIOUS
  <1> HIDE DEF vs, ls, sent
  <1>9. ModesFit(apic') /\ vs \subseteq apic'.irr /\ apic.irr \subseteq apic'.irr /\ apic'.isr = apic.isr
    BY <1>1, <1>6, <1>7, ReceiveFits
  <1>10. EntriesFit(ioapic')
    BY <1>3 DEF EntriesFit
  <1>11. QED BY <1>3, <1>8, <1>9, <1>10 DEF sent

\* The same for the pins: those whose bit is new are sent.
LEMMA UpdatingLevels ==
    ASSUME TypeOK, Plain, LevelInv, NEW io \in IoApic, EntriesFit(io), IoUpdate(io), use' = use,
           \A p \in Pins : io.redtbl[p].rirr /\ ~io.redtbl[p].masked =>
                \/ p \in Sendable(io)
                \/ /\ ioapic.redtbl[p].rirr /\ ~ioapic.redtbl[p].masked
                   /\ io.redtbl[p].vector = ioapic.redtbl[p].vector
    PROVE  LevelInv'
  <1>1. apic \in LocalApic /\ ModesFit(apic) /\ InFlight(ioapic, apic)
    BY DEF TypeOK, LevelInv
  <1>2. /\ EntriesFit(ioapic') /\ ModesFit(apic')
        /\ ioapic'.redtbl = io.redtbl
        /\ \A p \in Sendable(io) : io.redtbl[p].vector \in apic'.irr
        /\ apic.irr \cup apic.isr \subseteq apic'.irr \cup apic'.isr
    BY <1>1, IoUpdateFits
  <1>3. InFlight(ioapic', apic')
    BY <1>1, <1>2 DEF InFlight
  <1>4. QED BY <1>2, <1>3 DEF LevelInv, EntriesFit, EntryFits, ModesFit, InFlight

LEMMA RaiseLevels ==
    ASSUME TypeOK, Plain, LevelInv, NEW line \in Lines, RaiseIrq(line)
    PROVE  LevelInv'
  <1> DEFINE p == PinOf(line)
             io == Asserted(ioapic, p)
             io2 == [io EXCEPT !.redtbl[p].rirr = TRUE]
  <1>1. ioapic \in IoApic /\ p \in Pins /\ EntriesFit(ioapic) /\ use' = use
    BY PinsInRange DEF TypeOK, LevelInv, RaiseIrq, CountRaise
  <1>2. io \in IoApic /\ io.redtbl = ioapic.redtbl /\ io.irr = ioapic.irr \cup {p}
    BY <1>1 DEF Asserted, IoApic
  <1>3. \/ UNCHANGED <<ioapic, apic>>
        \/ ioapic.redtbl[p].level /\ IoUpdate(io2)
        \/ IoUpdate(io)
    BY DEF RaiseIrq
  <1> HIDE DEF io, p
  <1>4. CASE UNCHANGED <<ioapic, apic>>
    BY <1>1, <1>4 DEF LevelInv, Plain, Without, EntriesFit, EntryFits, ModesFit, InFlight
  <1>5. CASE IoUpdate(io)
    <2>1. EntriesFit(io)
      BY <1>1, <1>2 DEF EntriesFit
    <2>2. QED BY <1>1, <1>2, <1>5, <2>1, UpdatingLevels
  <1>6. CASE ioapic.redtbl[p].level /\ IoUpdate(io2)
    <2> DEFINE e == ioapic.redtbl[p]
               f == [e EXCEPT !.rirr = TRUE]
    <2>1. e \in Entry /\ EntryFits(e) /\ e.level
      BY <1>1, <1>6 DEF IoApic, EntriesFit
    <2>2. io2 = [io EXCEPT !.redtbl = [@ EXCEPT ![p] = f]]
      BY <1>1, <1>2 DEF IoApic
    <2> HIDE DEF e
    <2>3. f \in Entry /\ f.rirr /\ f.level = e.level /\ f.vector = e.vector /\ f.masked = e.masked
      BY <2>1 DEF Entry
    <2>4. f.vector # 0
      BY <2>1, <2>3 DEF EntryFits, Entry
    <2> HIDE DEF f, io2
    <2>5. io2 \in IoApic
      BY <1>1, <1>2, <2>2, <2>3 DEF IoApic
    <2>6. /\ io2.redtbl[p] = f /\ io2.irr = io.irr
          /\ \A q \in Pins \ {p} : io2.redtbl[q] = ioapic.redtbl[q]
      BY <1>1, <1>2, <2>2 DEF IoApic
    <2>7. EntryFits(f)
      BY <2>1, <2>3, <2>4 DEF EntryFits
    <2>8. EntriesFit(io2)
      BY <1>1, <2>6, <2>7 DEF EntriesFit
    <2>9. ~f.masked => p \in Sendable(io2)
      BY <1>2, <2>6 DEF Sendable
    <2>10. QED BY <1>1, <1>6, <2>5, <2>6, <2>8, <2>9, UpdatingLevels
  <1>7. QED BY <1>3, <1>4, <1>5, <1>6
LEMMA LowerLevels ==
    ASSUME TypeOK, Plain, LevelInv, NEW line \in Lines, LowerIrq(line)
    PROVE  LevelInv'
  <1>1. ioapic'.redtbl = ioapic.redtbl /\ UNCHANGED <<apic, use>>
    BY DEF LowerIrq, TypeOK, IoApic
  <1>2. QED BY <1>1 DEF LevelInv, Plain, Without, EntriesFit, EntryFits, ModesFit, InFlight

\* Plain use writes an entry only as it was reset.
LEMMA RedirectionLevels ==
    ASSUME TypeOK, Plain, LevelInv, NEW p \in Pins, NEW v \in Vectors, NEW masked \in BOOLEAN,
           WriteRedirection(p, v, masked)
    PROVE  LevelInv'
  <1> DEFINE old == ioapic.redtbl[p]
             lev == p \in use.levels
             new == [vector |-> v, level |-> lev, masked |-> masked, rirr |-> old.rirr]
             cleared == [new EXCEPT !.rirr = FALSE]
             io == [ioapic EXCEPT !.redtbl[p] = new]
  <1>1. ioapic \in IoApic /\ old \in Entry /\ EntryFits(old) /\ EntriesFit(ioapic) /\ v # 0
    BY ApicAssumption DEF TypeOK, LevelInv, IoApic, EntriesFit
  <1>2. use' = use /\ old.vector = 0 /\ (v \in LevelVectors <=> lev)
    BY DEF WriteRedirection, ModeFits, Plain, Without
  <1>3. ~old.rirr /\ old.rirr \in BOOLEAN /\ lev \in BOOLEAN
    BY <1>1, <1>2 DEF EntryFits, Entry
  <1>4. IoUpdate(io) \/ IoUpdate([ioapic EXCEPT !.redtbl[p] = cleared])
    BY DEF WriteRedirection
  <1> HIDE DEF old, lev
  <1>5. new \in Entry /\ new.vector = v /\ new.level = lev /\ ~new.rirr
    BY <1>3 DEF Entry
  <1> HIDE DEF new
  <1>6. cleared = new
    BY <1>5 DEF Entry
  <1>7. /\ io \in IoApic /\ io.redtbl[p] = new
        /\ \A q \in Pins \ {p} : io.redtbl[q] = ioapic.redtbl[q]
    BY <1>1, <1>5 DEF IoApic
  <1>8. EntryFits(new)
    BY <1>1, <1>2, <1>5 DEF EntryFits
  <1> HIDE DEF io
  <1>9. EntriesFit(io)
    BY <1>1, <1>7, <1>8 DEF EntriesFit
  <1>10. IoUpdate(io)
    BY <1>4, <1>6 DEF io
  <1>11. QED BY <1>2, <1>5, <1>7, <1>9, <1>10, UpdatingLevels

LEMMA MessageLevels ==
    ASSUME TypeOK, Plain, LevelInv, NEW v \in Vectors, NEW level \in BOOLEAN,
           LocalMessage(v, level)
    PROVE  LevelInv'
  <1>1. /\ Receive({v}, IF level THEN {v} ELSE {}) /\ UNCHANGED <<ioapic, use>>
        /\ v \in LevelVectors <=> level
    BY DEF LocalMessage, CountRaise, ModeFits, Plain, Without
  <1>2. Receive({v}, {v} \cap LevelVectors)
    <2>1. (IF level THEN {v} ELSE {}) = {v} \cap LevelVectors
      BY <1>1
    <2>2. QED BY <1>1, <2>1
  <1>3. apic \in LocalApic /\ ModesFit(apic) /\ EntriesFit(ioapic) /\ InFlight(ioapic, apic)
    BY DEF TypeOK, LevelInv
  <1>4. ModesFit(apic') /\ apic.irr \subseteq apic'.irr /\ apic'.isr = apic.isr
    BY <1>2, <1>3, ReceiveFits
  <1>5. QED BY <1>1, <1>3, <1>4 DEF LevelInv, EntriesFit, EntryFits, ModesFit, InFlight

\* The end of a level-triggered interrupt clears the bits its vector set.
LEMMA EoiLevels ==
    ASSUME TypeOK, Plain, LevelInv, WriteEoi
    PROVE  LevelInv'
  <1> DEFINE v == Highest(apic.isr)
             a == [apic EXCEPT !.isr = @ \ {v}]
  <1>1. /\ apic \in LocalApic /\ ioapic \in IoApic /\ apic.isr # {}
        /\ EntriesFit(ioapic) /\ ModesFit(apic) /\ InFlight(ioapic, apic)
    BY DEF TypeOK, LevelInv, WriteEoi
  <1>2. v \in apic.isr
    <2>1. apic.isr \in SUBSET (0 .. 255)
      BY <1>1, VectorRange DEF LocalApic
    <2>2. QED BY <1>1, <2>1, HighestExists
  <1>3. a \in LocalApic /\ a.irr = apic.irr /\ a.isr = apic.isr \ {v} /\ a.tmr = apic.tmr
    BY <1>1 DEF LocalApic
  <1>4. /\ Send(a) /\ use' = use
        /\ ioapic' = IF v \in apic.tmr THEN RemoteEoi(ioapic, v) ELSE ioapic
    BY DEF WriteEoi
  <1> HIDE DEF v, a
  <1>5. apic'.irr = apic.irr /\ apic'.isr = apic.isr \ {v} /\ apic'.tmr = apic.tmr
    BY <1>3, <1>4 DEF Send, LocalApic
  <1>6. ModesFit(apic')
    BY <1>1, <1>5 DEF ModesFit
  <1>7. CASE v \notin apic.tmr
    <2>1. ioapic' = ioapic /\ v \notin LevelVectors
      BY <1>1, <1>2, <1>4, <1>7 DEF ModesFit
    <2>2. \A p \in Pins : ioapic.redtbl[p].rirr => ioapic.redtbl[p].vector # v
      BY <1>1, <2>1 DEF EntriesFit, EntryFits
    <2>3. InFlight(ioapic', apic')
      BY <1>1, <1>5, <2>1, <2>2 DEF InFlight
    <2>4. QED BY <1>1, <1>4, <1>6, <2>1, <2>3 DEF LevelInv, EntriesFit, EntryFits, ModesFit, InFlight
  <1>8. CASE v \in apic.tmr
    <2>1. \A p \in Pins :
             LET e == ioapic.redtbl[p]
                 f == ioapic'.redtbl[p]
             IN /\ f.vector = e.vector /\ f.level = e.level /\ f.masked = e.masked
                /\ f.rirr => e.rirr /\ e.vector # v
      <3> SUFFICES ASSUME NEW p \in Pins
                   PROVE  LET e == ioapic.redtbl[p]
                              f == ioapic'.redtbl[p]
                          IN /\ f.vector = e.vector /\ f.level = e.level /\ f.masked = e.masked
                             /\ f.rirr => e.rirr /\ e.vector # v
        OBVIOUS
      <3> DEFINE e == ioapic.redtbl[p]
      <3>1. e \in Entry
        BY <1>1 DEF IoApic
      <3>2. ioapic'.redtbl[p] = IF e.vector = v THEN [e EXCEPT !.rirr = FALSE] ELSE e
        BY <1>1, <1>4, <1>8 DEF RemoteEoi, IoApic
      <3> HIDE DEF e
      <3>3. QED BY <3>1, <3>2 DEF Entry, e
    <2>2. EntriesFit(ioapic')
      BY <1>1, <2>1 DEF EntriesFit, EntryFits
    <2>3. InFlight(ioapic', apic')
      BY <1>1, <1>5, <2>1 DEF InFlight
    <2>4. QED BY <1>6, <2>2, <2>3 DEF LevelInv, EntriesFit, EntryFits, ModesFit, InFlight
  <1>9. QED BY <1>7, <1>8

\* An interrupt in service was requested.
LEMMA TakeLevels ==
    ASSUME TypeOK, Plain, LevelInv, apic.irr # {}, apic' = InService(apic),
           UNCHANGED <<ioapic, use>>
    PROVE  LevelInv'
  <1> DEFINE h == Highest(apic.irr)
  <1>1. /\ apic \in LocalApic /\ EntriesFit(ioapic) /\ ModesFit(apic) /\ InFlight(ioapic, apic)
    BY DEF TypeOK, LevelInv
  <1>2. h \in apic.irr
    <2>1. apic.irr \in SUBSET (0 .. 255)
      BY <1>1, VectorRange DEF LocalApic
    <2>2. QED BY <2>1, HighestExists
  <1>3. /\ apic'.irr = apic.irr \ {h} /\ apic'.isr = apic.isr \cup {h}
        /\ apic'.tmr = apic.tmr
    BY <1>1 DEF InService, LocalApic
  <1> HIDE DEF h
  <1>4. apic'.irr \cup apic'.isr = apic.irr \cup apic.isr
    BY <1>2, <1>3
  <1>5. ModesFit(apic') /\ InFlight(ioapic, apic')
    BY <1>1, <1>3, <1>4 DEF ModesFit, InFlight
  <1>6. QED BY <1>1, <1>5 DEF LevelInv, EntriesFit, EntryFits, ModesFit, InFlight

LEMMA NextLevels == TypeOK /\ LevelInv /\ [Next]_vars => LevelInv'
  <1> SUFFICES ASSUME TypeOK, LevelInv, [Next]_vars PROVE LevelInv'
    OBVIOUS
  <1>1. use' = use
    BY DEF Next, vars, RaiseIrq, LowerIrq, WriteRedirection, LocalMessage, WriteTaskPriority,
       WriteEoi, ReadProcessorPriority, WriteRegisters, Reset, PicSignals, PicIcw1,
       GetInterrupt, CountRaise
  <1>2. CASE ~Plain
    BY <1>1, <1>2 DEF LevelInv, Plain, Without
  <1>3. ASSUME Plain, ioapic'.redtbl = ioapic.redtbl, apic'.irr = apic.irr,
               apic'.isr = apic.isr, apic'.tmr = apic.tmr
        PROVE  LevelInv'
    BY <1>3 DEF LevelInv, EntriesFit, EntryFits, ModesFit, InFlight
  <1>4. CASE Plain /\ Next
    <2>1. CASE \E t \in Priorities : WriteTaskPriority(t)
      <3>1. PICK t \in Priorities : WriteTaskPriority(t)
        BY <2>1
      <3>2. apic'.irr = apic.irr /\ apic'.isr = apic.isr /\ apic'.tmr = apic.tmr
        BY <3>1 DEF WriteTaskPriority, Send, TypeOK, LocalApic
      <3>3. QED BY <1>3, <1>4, <3>1, <3>2 DEF WriteTaskPriority
    <2>2. CASE Reset
      <3>1. \A p \in Pins : ioapic'.redtbl[p] = ResetEntry /\ apic' = apic
        BY <2>2 DEF Reset, TypeOK, IoApic
      <3>2. EntryFits(ResetEntry) /\ ~ResetEntry.rirr
        BY DEF EntryFits, ResetEntry
      <3>3. EntriesFit(ioapic') /\ InFlight(ioapic', apic') /\ ModesFit(apic')
        BY <1>4, <2>2, <3>1, <3>2 DEF EntriesFit, InFlight, LevelInv, Reset
      <3>4. QED BY <3>3 DEF LevelInv, EntriesFit, EntryFits, ModesFit, InFlight
    <2>3. CASE PicSignals \/ PicIcw1
      BY <1>3, <1>4, <2>3 DEF PicSignals, PicIcw1
    <2>4. CASE ReadProcessorPriority \/ GetInterrupt
      <3>1. \/ apic.irr # {} /\ apic' = InService(apic) /\ UNCHANGED <<ioapic, use>>
            \/ UNCHANGED <<ioapic, apic>>
        BY <1>1, <2>4 DEF ReadProcessorPriority, GetInterrupt
      <3>2. QED BY <1>3, <1>4, <3>1, TakeLevels
    <2>5. CASE \E vs \in SUBSET Vectors : WriteRegisters(vs)
      BY <1>4, <2>5 DEF WriteRegisters, Plain, Without
    <2>6. QED BY <1>4, <2>1, <2>2, <2>3, <2>4, <2>5, RaiseLevels, LowerLevels,
                 RedirectionLevels, MessageLevels, EoiLevels DEF Next
  <1>5. CASE Plain /\ UNCHANGED vars
    BY <1>3, <1>5 DEF vars
  <1>6. QED BY <1>2, <1>4, <1>5

LEMMA InitLevels == Init => LevelInv
  <1> SUFFICES ASSUME Init PROVE LevelInv
    OBVIOUS
  <1>1. \A p \in Pins : ioapic.redtbl[p] = ResetEntry
    BY DEF Init
  <1>2. EntryFits(ResetEntry) /\ ~ResetEntry.rirr
    BY DEF EntryFits, ResetEntry
  <1>3. apic.irr = {} /\ apic.isr = {}
    BY DEF Init
  <1>4. QED BY <1>1, <1>2, <1>3 DEF LevelInv, EntriesFit, InFlight, ModesFit

\* A level-triggered pin discards interrupts only while one of its own is on its
\* way or in service.
THEOREM LevelAnswered == Spec => []LevelInFlight
  <1>1. LevelInv => LevelInFlight
    BY DEF LevelInv, LevelInFlight, Plain, InFlight
  <1>2. IInv => TypeOK
    BY DEF IInv
  <1>3. QED BY InitInv, NextInv, InitLevels, NextLevels, <1>1, <1>2, PTL DEF Spec
=============================================================================
