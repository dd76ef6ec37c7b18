---------------------------- MODULE PartsProofs ----------------------------
(***************************************************************************)
(* Of the parts MCParts runs, but the floppy controller, which has a       *)
(* module of its own.  The bytes of the keyboard controller are read in    *)
(* order, with a status and an interrupt of their own, for queues of any   *)
(* size and any use.  The decoder reads no byte beyond its page, and none  *)
(* without need, for any prefixes, operands, distances to the end of the   *)
(* page and lengths of a trace.                                            *)
(***************************************************************************)
EXTENDS MCParts, FdcProofs, TLAPS

(***************************************************************************)
(* The keyboard controller.                                                *)
(***************************************************************************)

\* The number of the byte of d that left its queue last, or was lost last.
Gone(k, d) == k.sent[d] - Len(k.queue[d])

\* The number of the byte of d the guest has, or finds in the buffer.
Delivered(k, had, d) == IF k.unread /\ k.data.dev = d THEN k.data.n ELSE had[d]

\* What kbd.command may be.
Waiting == {"none", "ram", "gate", "outKbd", "outAux", "mouse", "leds"}

KbdRecord ==
  [queue : [Devs -> Seq(Nat)], data : [dev : Devs, n : Nat], unread : BOOLEAN,
   full : BOOLEAN, shown : Devs, enabled : SUBSET Devs,
   current : Devs \cup {"none", "timer"}, command : Waiting, mouse : {"none", "rate"},
   scanning : BOOLEAN, stream : BOOLEAN, irr : SUBSET Devs, sent : [Devs -> Nat],
   lost : [Devs -> SUBSET Nat], late : BOOLEAN]

\* A queue is short, and holds the numbers that were sent last.
Queued(k) ==
  \A d \in Devs :
    /\ Len(k.queue[d]) < QueueSize
    /\ Gone(k, d) \in Nat
    /\ \A i \in 1 .. Len(k.queue[d]) : k.queue[d][i] = Gone(k, d) + i

\* Between what was delivered and what is queued there is nothing, or what was
\* lost.
Followed(k, had) ==
  \A d \in Devs : /\ Delivered(k, had, d) \leq Gone(k, d)
                  /\ Gone(k, d) \in {Delivered(k, had, d)} \cup k.lost[d]

Ordered(k, had) ==
  k.unread => /\ k.data.n > had[k.data.dev]
              /\ k.data.n - 1 \in {had[k.data.dev]} \cup k.lost[k.data.dev]

\* The numbers alone.
Numbers(k, had) == Queued(k) /\ Followed(k, had) /\ Ordered(k, had)

\* Whose byte the status says it is.
Owned(k) ==
  k.unread /\ k.shown # k.data.dev =>
    k.queue[Other(k.data.dev)] # <<>> \/ k.lost[Other(k.data.dev)] # {}

\* Queues wait only while a byte does, and the status says that one does.
Waits(k) == k.full = k.unread /\ (HasItems(k) # {} => k.unread)

\* An interrupt is there for the byte that waits.
Raised(k) == k.unread /\ k.enabled = Devs /\ ~k.late => k.irr # {}
-----------------------------------------------------------------------------
\* kbd_raise_irq() says whose byte it is, and requests what is enabled.
LEMMA RaiseIs ==
  ASSUME NEW k \in KbdRecord, NEW d \in Devs, NEW r, r = RaiseKbdIrq(k, d)
  PROVE  /\ r \in KbdRecord /\ r.full /\ r.shown = d
         /\ r.queue = k.queue /\ r.data = k.data /\ r.unread = k.unread
         /\ r.sent = k.sent /\ r.lost = k.lost
         /\ r.enabled = k.enabled /\ r.late = k.late
         /\ d \in r.enabled => d \in r.irr
BY DEF RaiseKbdIrq, KbdRecord, Devs

\* Numbers are those of five fields.
LEMMA SameNumbers ==
  ASSUME NEW k, NEW r, NEW had, Numbers(k, had),
         r.queue = k.queue, r.data = k.data, r.unread = k.unread,
         r.sent = k.sent, r.lost = k.lost
  PROVE  Numbers(r, had)
BY DEF Numbers, Queued, Followed, Ordered, Gone, Delivered

\* The queue that is next has something.
LEMMA FirstHasItems ==
  ASSUME NEW k \in KbdRecord, HasItems(k) # {}
  PROVE  FirstQueue(k) \in Devs /\ k.queue[FirstQueue(k)] # <<>>
BY DEF FirstQueue, HasItems, Devs

\* What commands keep, and what refilling and adding keep.
Keeps(k, r, had) ==
  /\ r \in KbdRecord /\ Numbers(r, had) /\ Waits(r)
  /\ Owned(k) => Owned(r)
  /\ Raised(k) => Raised(r)

Grows(k, r, had) == Keeps(k, r, had) /\ (k.unread => r.unread)

\* kbd_refill_output() with nothing waiting moves the first byte of a queue.
LEMMA MovedNumbers ==
  ASSUME QueueSize \in Nat \ {0, 1}, NEW k \in KbdRecord, NEW had \in [Devs -> Nat],
         Numbers(k, had), ~k.unread, NEW d \in Devs, k.queue[d] # <<>>, NEW m,
         m = [k EXCEPT !.unread = TRUE, !.late = FALSE,
                       !.data = [dev |-> d, n |-> Head(k.queue[d])],
                       !.queue[d] = Tail(@)]
  PROVE  m \in KbdRecord /\ Numbers(m, had)
<1> DEFINE q == k.queue[d]
<1>1. q \in Seq(Nat) /\ q # <<>> /\ Len(q) \in Nat /\ Len(q) > 0
  <2>1. k.queue[d] \in Seq(Nat)
    BY DEF KbdRecord
  <2>2. \A s \in Seq(Nat) : s # <<>> => Len(s) \in Nat /\ Len(s) > 0
    OBVIOUS
  <2> QED
    BY <2>1, <2>2
<1>2. Head(q) \in Nat /\ Tail(q) \in Seq(Nat) /\ Len(Tail(q)) = Len(q) - 1
  BY <1>1
<1>3. Head(q) = Gone(k, d) + 1
  <2>1. Head(q) = q[1] /\ 1 \in 1 .. Len(q)
    BY <1>1
  <2> QED
    BY <2>1 DEF Numbers, Queued
<1>4. m \in KbdRecord
  BY <1>1, <1>2 DEF KbdRecord
<1>5. /\ m.unread /\ m.data.dev = d /\ m.data.n = Head(q)
      /\ m.sent = k.sent /\ m.lost = k.lost
      /\ m.queue[d] = Tail(q)
      /\ \A e \in Devs \ {d} : m.queue[e] = k.queue[e]
  BY DEF KbdRecord
<1>6. /\ Gone(m, d) = Gone(k, d) + 1
      /\ \A e \in Devs \ {d} : Gone(m, e) = Gone(k, e)
      /\ \A e \in Devs : Gone(k, e) \in Nat
  <2>1. k.sent[d] \in Nat
    BY DEF KbdRecord
  <2>2. Gone(m, d) = k.sent[d] - (Len(q) - 1) /\ Gone(k, d) = k.sent[d] - Len(q)
    BY <1>2, <1>5 DEF Gone
  <2>3. \A e \in Devs \ {d} : Gone(m, e) = Gone(k, e)
    BY <1>5 DEF Gone
  <2>4. \A e \in Devs : Gone(k, e) \in Nat
    BY DEF Numbers, Queued
  <2> QED
    BY <1>1, <2>1, <2>2, <2>3, <2>4
<1>7. Queued(m)
  <2> SUFFICES ASSUME NEW e \in Devs
               PROVE  /\ Len(m.queue[e]) < QueueSize
                      /\ Gone(m, e) \in Nat
                      /\ \A i \in 1 .. Len(m.queue[e]) : m.queue[e][i] = Gone(m, e) + i
    BY DEF Queued
  <2>1. CASE e # d
    <3>1. m.queue[e] = k.queue[e] /\ Gone(m, e) = Gone(k, e)
      BY <2>1, <1>5, <1>6
    <3>2. /\ Len(k.queue[e]) < QueueSize /\ Gone(k, e) \in Nat
          /\ \A i \in 1 .. Len(k.queue[e]) : k.queue[e][i] = Gone(k, e) + i
      BY DEF Numbers, Queued
    <3> QED
      BY <3>1, <3>2, Zenon
  <2>2. CASE e = d
    <3>1. Len(q) < QueueSize /\ \A i \in 1 .. Len(q) : q[i] = Gone(k, d) + i
      BY DEF Numbers, Queued
    <3>2. ASSUME NEW i \in 1 .. Len(Tail(q))  PROVE  Tail(q)[i] = Gone(m, d) + i
      <4>1. i + 1 \in 1 .. Len(q) /\ Tail(q)[i] = q[i + 1]
        BY <1>1, <1>2
      <4>2. q[i + 1] = Gone(k, d) + (i + 1)
        BY <4>1, <3>1
      <4>3. Gone(m, d) = Gone(k, d) + 1 /\ Gone(k, d) \in Nat
        BY <1>6
      <4> HIDE DEF q
      <4> QED
        BY <4>1, <4>2, <4>3
    <3>3. Len(Tail(q)) < QueueSize /\ Gone(m, d) \in Nat
      BY <1>1, <1>2, <1>6, <3>1
    <3>4. m.queue[e] = Tail(q)
      BY <2>2, <1>5
    <3> HIDE DEF q
    <3> QED
      BY <2>2, <3>2, <3>3, <3>4, Zenon
  <2> QED
    BY <2>1, <2>2
<1>8. had[d] \leq Gone(k, d) /\ Gone(k, d) \in {had[d]} \cup k.lost[d] /\ had[d] \in Nat
  BY DEF Numbers, Followed, Delivered
<1>9. Followed(m, had)
  BY <1>3, <1>5, <1>6 DEF Numbers, Followed, Delivered
<1>10. Ordered(m, had)
  BY <1>3, <1>5, <1>6, <1>8 DEF Ordered
<1> QED
  BY <1>4, <1>7, <1>9, <1>10 DEF Numbers

\* kbd_refill_output().
LEMMA RefillKeeps ==
  ASSUME QueueSize \in Nat \ {0, 1}, NEW k \in KbdRecord, NEW had \in [Devs -> Nat],
         Numbers(k, had), k.full = k.unread
  PROVE  Grows(k, Refill(k), had) /\ (HasItems(k) # {} => Raised(Refill(k)))
<1> DEFINE d == FirstQueue(k)
           m == [k EXCEPT !.unread = TRUE, !.late = FALSE,
                          !.data = [dev |-> d, n |-> Head(k.queue[d])],
                          !.queue[d] = Tail(@)]
<1>1. CASE HasItems(k) = {}
  BY <1>1 DEF Refill, Grows, Keeps, Waits
<1>2. CASE HasItems(k) # {} /\ k.unread
  <2> DEFINE r == RaiseKbdIrq(k, d)
  <2>1. Refill(k) = r /\ d \in Devs /\ k.queue[d] # <<>>
    BY <1>2, FirstHasItems DEF Refill
  <2> HIDE DEF d
  <2>2. /\ r \in KbdRecord /\ r.full /\ r.shown = d
        /\ r.queue = k.queue /\ r.data = k.data /\ r.unread = k.unread
        /\ r.sent = k.sent /\ r.lost = k.lost
        /\ r.enabled = k.enabled /\ r.late = k.late
        /\ d \in r.enabled => d \in r.irr
    BY <2>1, RaiseIs
  <2> HIDE DEF r
  <2>3. Numbers(r, had)
    BY <2>2, SameNumbers
  <2>4. Owned(r)
    BY <2>1, <2>2 DEF Owned, Other, Devs, KbdRecord
  <2>5. Waits(r) /\ Raised(r)
    BY <2>1, <2>2, <1>2 DEF Waits, Raised
  <2> QED
    BY <2>1, <2>2, <2>3, <2>4, <2>5, <1>2 DEF Grows, Keeps
<1>3. CASE HasItems(k) # {} /\ ~k.unread
  <2> DEFINE r == RaiseKbdIrq(m, d)
  <2>1. Refill(k) = r /\ d \in Devs /\ k.queue[d] # <<>>
    BY <1>3, FirstHasItems DEF Refill
  <2> HIDE DEF d
  <2>2. m \in KbdRecord /\ Numbers(m, had)
    BY <2>1, <1>3, MovedNumbers
  <2>3. m.unread /\ ~m.late /\ m.data.dev = d
    BY DEF KbdRecord
  <2> HIDE DEF m
  <2>4. /\ r \in KbdRecord /\ r.full /\ r.shown = d
        /\ r.queue = m.queue /\ r.data = m.data /\ r.unread = m.unread
        /\ r.sent = m.sent /\ r.lost = m.lost
        /\ r.enabled = m.enabled /\ r.late = m.late
        /\ d \in r.enabled => d \in r.irr
    BY <2>1, <2>2, RaiseIs
  <2> HIDE DEF r
  <2>5. Numbers(r, had)
    BY <2>2, <2>4, SameNumbers
  <2>6. Owned(r) /\ Waits(r) /\ Raised(r)
    BY <2>1, <2>3, <2>4 DEF Owned, Waits, Raised
  <2> QED
    BY <2>1, <2>3, <2>4, <2>5, <2>6, <1>3 DEF Grows, Keeps
<1> QED
  BY <1>1, <1>2, <1>3

\* A byte is the last of its queue, or is lost with it.
LEMMA AddByteKeeps ==
  ASSUME QueueSize \in Nat \ {0, 1}, NEW k \in KbdRecord, NEW had \in [Devs -> Nat],
         Numbers(k, had), Waits(k), NEW d \in Devs
  PROVE  Grows(k, AddByte(k, d), had)
<1> DEFINE n == k.sent[d] + 1
           wraps == Len(k.queue[d]) = QueueSize - 1
           q == IF wraps THEN <<>> ELSE Append(k.queue[d], n)
           m == QueueAdd(k, d)
<1>1. AddByte(k, d) = Refill(m)
  BY DEF AddByte
<1>2. /\ k.sent[d] \in Nat /\ n \in Nat /\ k.queue[d] \in Seq(Nat)
      /\ Len(k.queue[d]) \in Nat /\ Len(k.queue[d]) < QueueSize
  <2> HIDE DEF q, wraps, m
  <2>1. k.sent[d] \in Nat /\ k.queue[d] \in Seq(Nat)
    BY DEF KbdRecord
  <2>2. Len(k.queue[d]) < QueueSize
    BY DEF Numbers, Queued
  <2> QED
    BY <2>1, <2>2
<1>3. q \in Seq(Nat) /\ Len(q) = IF wraps THEN 0 ELSE Len(k.queue[d]) + 1
  BY <1>2
<1>4. m \in KbdRecord
  BY <1>2, <1>3 DEF KbdRecord, QueueAdd
<1>5. /\ m.unread = k.unread /\ m.full = k.full /\ m.data = k.data
      /\ m.shown = k.shown /\ m.enabled = k.enabled /\ m.late = k.late /\ m.irr = k.irr
      /\ m.sent[d] = n /\ m.queue[d] = q
      /\ m.lost[d] = IF wraps THEN k.lost[d] \cup {n} ELSE k.lost[d]
      /\ \A e \in Devs \ {d} : /\ m.queue[e] = k.queue[e] /\ m.lost[e] = k.lost[e]
                               /\ m.sent[e] = k.sent[e]
  BY DEF KbdRecord, QueueAdd
<1>6. /\ Gone(m, d) = IF wraps THEN n ELSE Gone(k, d)
      /\ \A e \in Devs \ {d} : Gone(m, e) = Gone(k, e)
      /\ Gone(k, d) \in Nat /\ Gone(k, d) \leq k.sent[d]
  <2>1. Gone(m, d) = n - Len(q) /\ Gone(k, d) = k.sent[d] - Len(k.queue[d])
    BY <1>5 DEF Gone
  <2>2. \A e \in Devs \ {d} : Gone(m, e) = Gone(k, e)
    BY <1>5 DEF Gone
  <2>3. Gone(k, d) \in Nat
    BY DEF Numbers, Queued
  <2>4. Gone(k, d) \leq k.sent[d]
    BY <1>2, <2>1, <2>3
  <2>5. CASE wraps
    BY <2>5, <1>2, <1>3, <2>1, <2>2, <2>3, <2>4
  <2>6. CASE ~wraps
    <3>1. Len(q) = Len(k.queue[d]) + 1
      BY <2>6, <1>3
    <3> HIDE DEF m, q, wraps
    <3>2. \A a \in Nat, b \in Nat : (a + 1) - (b + 1) = a - b
      OBVIOUS
    <3>3. (k.sent[d] + 1) - (Len(k.queue[d]) + 1) = k.sent[d] - Len(k.queue[d])
      BY <3>2, <1>2
    <3>4. Gone(m, d) = Gone(k, d)
      BY <3>1, <3>3, <2>1
    <3> QED
      BY <2>6, <3>4, <2>2, <2>3, <2>4
  <2> QED
    BY <2>5, <2>6
<1> HIDE DEF m
<1>7. Queued(m)
  <2> SUFFICES ASSUME NEW e \in Devs
               PROVE  /\ Len(m.queue[e]) < QueueSize
                      /\ Gone(m, e) \in Nat
                      /\ \A i \in 1 .. Len(m.queue[e]) : m.queue[e][i] = Gone(m, e) + i
    BY DEF Queued
  <2>1. CASE e # d
    <3>1. m.queue[e] = k.queue[e] /\ Gone(m, e) = Gone(k, e)
      BY <2>1, <1>5, <1>6
    <3>2. /\ Len(k.queue[e]) < QueueSize /\ Gone(k, e) \in Nat
          /\ \A i \in 1 .. Len(k.queue[e]) : k.queue[e][i] = Gone(k, e) + i
      BY DEF Numbers, Queued
    <3> QED
      BY <3>1, <3>2, Zenon
  <2>2. CASE e = d /\ wraps
    <3>1. Len(q) = 0 /\ m.queue[d] = q /\ Gone(m, d) = n
      BY <2>2, <1>3, <1>5, <1>6
    <3> HIDE DEF q, wraps
    <3> QED
      BY <2>2, <3>1, <1>2
  <2>3. CASE e = d /\ ~wraps
    <3>1. /\ \A i \in 1 .. Len(k.queue[d]) : k.queue[d][i] = Gone(k, d) + i
          /\ Gone(k, d) = k.sent[d] - Len(k.queue[d])
      BY DEF Numbers, Queued, Gone
    <3>2. ASSUME NEW i \in 1 .. Len(q)  PROVE  q[i] = Gone(k, d) + i
      <4>1. CASE i \in 1 .. Len(k.queue[d])
        BY <4>1, <2>3, <1>2, <3>1
      <4>2. CASE i = Len(k.queue[d]) + 1
        <5>1. q[Len(k.queue[d]) + 1] = n
          BY <2>3, <1>2
        <5>2. Gone(k, d) + (Len(k.queue[d]) + 1) = n
          BY <3>1, <1>2
        <5> HIDE DEF q, wraps, n
        <5> QED
          BY <4>2, <5>1, <5>2
      <4>3. Len(q) = Len(k.queue[d]) + 1
        BY <1>3, <2>3
      <4> HIDE DEF q, wraps
      <4> QED
        BY <4>1, <4>2, <4>3, <1>2
    <3>3. Len(q) < QueueSize /\ Gone(m, d) \in Nat /\ Gone(m, d) = Gone(k, d)
      BY <2>3, <1>2, <1>3, <1>6
    <3> QED
      BY <2>3, <1>5, <3>2, <3>3
  <2> QED
    BY <2>1, <2>2, <2>3
<1>8. \A e \in Devs : Delivered(m, had, e) = Delivered(k, had, e) /\ Delivered(k, had, e) \in Nat
  BY <1>5 DEF Delivered, KbdRecord
<1>9. Followed(m, had)
  <2> SUFFICES ASSUME NEW e \in Devs
               PROVE  /\ Delivered(m, had, e) \leq Gone(m, e)
                      /\ Gone(m, e) \in {Delivered(m, had, e)} \cup m.lost[e]
    BY DEF Followed
  <2>1. /\ Delivered(k, had, e) \leq Gone(k, e)
        /\ Gone(k, e) \in {Delivered(k, had, e)} \cup k.lost[e]
    BY DEF Numbers, Followed
  <2>2. CASE e # d
    BY <2>1, <2>2, <1>5, <1>6, <1>8
  <2>3. CASE e = d
    BY <2>1, <2>3, <1>2, <1>5, <1>6, <1>8
  <2> QED
    BY <2>2, <2>3
<1>10. Ordered(m, had)
  <2>1. k.data.dev \in Devs /\ k.lost[k.data.dev] \subseteq m.lost[k.data.dev]
    BY <1>5 DEF KbdRecord
  <2>2. Ordered(k, had)
    BY DEF Numbers
  <2> QED
    BY <1>5, <2>1, <2>2 DEF Ordered
<1>11. Owned(k) => Owned(m)
  <2>1. m.queue[d] # <<>> \/ m.lost[d] # {}
    <3>1. CASE wraps
      BY <3>1, <1>5
    <3>2. CASE ~wraps
      <4>1. Len(q) # 0
        BY <3>2, <1>2, <1>3
      <4> QED
        BY <4>1, <1>5
    <3> QED
      BY <3>1, <3>2
  <2>2. \A e \in Devs \ {d} : m.queue[e] = k.queue[e] /\ m.lost[e] = k.lost[e]
    BY <1>5
  <2>3. Other(k.data.dev) \in Devs
    BY DEF Other, Devs
  <2> DEFINE o == Other(k.data.dev)
  <2>4. (k.queue[o] # <<>> \/ k.lost[o] # {}) => (m.queue[o] # <<>> \/ m.lost[o] # {})
    <3> HIDE DEF o
    <3>1. CASE o = d
      BY <3>1, <2>1
    <3>2. CASE o # d
      BY <3>2, <2>2, <2>3 DEF o
    <3> QED
      BY <3>1, <3>2
  <2>5. Other(m.data.dev) = o
    BY <1>5
  <2> HIDE DEF o
  <2> QED
    BY <1>5, <2>4, <2>5 DEF Owned, o
<1>12. Raised(k) => Raised(m)
  BY <1>5 DEF Raised
<1>13. Numbers(m, had) /\ m.full = m.unread
  BY <1>5, <1>7, <1>9, <1>10 DEF Numbers, Waits
<1>14. Grows(m, Refill(m), had)
  BY <1>4, <1>13, RefillKeeps
<1> QED
  BY <1>1, <1>5, <1>11, <1>12, <1>14 DEF Grows, Keeps
\* A packet or a longer answer.
LEMMA AddBytesKeeps ==
  ASSUME QueueSize \in Nat \ {0, 1}, NEW k \in KbdRecord, NEW had \in [Devs -> Nat],
         Numbers(k, had), Waits(k), NEW d \in Devs, NEW many \in 1 .. 4
  PROVE  Grows(k, AddBytes(k, d, many), had)
<1> DEFINE one   == AddByte(k, d)
           two   == AddByte(one, d)
           three == AddByte(two, d)
           four  == AddByte(three, d)
<1>1. /\ many = 1 => AddBytes(k, d, many) = one
      /\ many = 2 => AddBytes(k, d, many) = two
      /\ many = 3 => AddBytes(k, d, many) = three
      /\ many = 4 => AddBytes(k, d, many) = four
  BY DEF AddBytes
<1>2. Grows(k, one, had)
  BY AddByteKeeps
<1> HIDE DEF one
<1>3. one \in KbdRecord /\ Numbers(one, had) /\ Waits(one)
  BY <1>2 DEF Grows, Keeps
<1>4. Grows(one, two, had)
  BY <1>3, AddByteKeeps
<1> HIDE DEF two
<1>5. two \in KbdRecord /\ Numbers(two, had) /\ Waits(two)
  BY <1>4 DEF Grows, Keeps
<1>6. Grows(two, three, had)
  BY <1>5, AddByteKeeps
<1> HIDE DEF three
<1>7. three \in KbdRecord /\ Numbers(three, had) /\ Waits(three)
  BY <1>6 DEF Grows, Keeps
<1>8. Grows(three, four, had)
  BY <1>7, AddByteKeeps
<1> HIDE DEF four
<1>9. many = 1 \/ many = 2 \/ many = 3 \/ many = 4
  OBVIOUS
<1>10. Grows(k, two, had)
  BY <1>2, <1>4 DEF Grows, Keeps
<1>11. Grows(k, three, had)
  BY <1>6, <1>10 DEF Grows, Keeps
<1>12. Grows(k, four, had)
  BY <1>8, <1>11 DEF Grows, Keeps
<1> QED
  BY <1>1, <1>2, <1>9, <1>10, <1>11, <1>12

\* Fields that no property is about.
LEMMA SameBytesKeep ==
  ASSUME NEW k \in KbdRecord, NEW had, NEW r \in KbdRecord,
         Numbers(k, had), Waits(k),
         r.queue = k.queue, r.data = k.data, r.unread = k.unread, r.full = k.full,
         r.shown = k.shown, r.sent = k.sent, r.lost = k.lost, r.late = k.late, r.irr = k.irr,
         r.enabled = k.enabled \/ r.enabled # Devs
  PROVE  Grows(k, r, had)
<1>1. Numbers(r, had)
  BY SameNumbers
<1> QED
  BY <1>1 DEF Grows, Keeps, Waits, HasItems, Owned, Raised

\* kbd_reset_port().
LEMMA ResetPortKeeps ==
  ASSUME NEW k \in KbdRecord, NEW had, Numbers(k, had), Waits(k), NEW d \in Devs
  PROVE  Grows(k, ResetPort(k, d), had)
<1> DEFINE r == ResetPort(k, d)
<1>1. /\ r \in KbdRecord
      /\ r.queue = k.queue /\ r.data = k.data /\ r.unread = k.unread /\ r.full = k.full
      /\ r.shown = k.shown /\ r.sent = k.sent /\ r.lost = k.lost /\ r.late = k.late
      /\ r.irr = k.irr /\ (r.enabled = k.enabled \/ r.enabled = {"kbd"})
  BY DEF ResetPort, KbdRecord, Devs
<1>2. {"kbd"} # Devs
  BY DEF Devs
<1> HIDE DEF r
<1>3. Grows(k, r, had)
  BY <1>1, <1>2, SameBytesKeep
<1> QED
  BY <1>3 DEF r

\* kbd_reset(): what was queued is lost.
LEMMA ResetKbdKeeps ==
  ASSUME QueueSize \in Nat \ {0, 1}, NEW k \in KbdRecord, NEW had \in [Devs -> Nat],
         Numbers(k, had), Waits(k)
  PROVE  Keeps(k, ResetKbd(k), had)
<1> DEFINE m == [k EXCEPT !.queue = [d \in Devs |-> <<>>],
                          !.lost = [d \in Devs |-> @[d] \cup {k.sent[d]}],
                          !.unread = FALSE, !.full = FALSE, !.shown = "kbd",
                          !.late = FALSE]
           p == ResetPort(m, "kbd")
<1>1. ResetKbd(k) = ResetPort(p, "aux")
  BY DEF ResetKbd
<1>2. \A d \in Devs : k.sent[d] \in Nat /\ k.lost[d] \subseteq Nat /\ Len(k.queue[d]) \in Nat
  BY DEF KbdRecord
<1>3. /\ m.queue = [d \in Devs |-> <<>>] /\ ~m.unread /\ ~m.full
      /\ \A d \in Devs : m.lost[d] = k.lost[d] \cup {k.sent[d]}
      /\ m.sent = k.sent
  BY DEF KbdRecord
<1>4. m \in KbdRecord
  <2>1. [d \in Devs |-> k.lost[d] \cup {k.sent[d]}] \in [Devs -> SUBSET Nat]
    BY <1>2
  <2>2. [d \in Devs |-> <<>>] \in [Devs -> Seq(Nat)]
    OBVIOUS
  <2> QED
    BY <2>1, <2>2 DEF KbdRecord, Devs
<1> HIDE DEF m
<1>5. \A d \in Devs : m.queue[d] = <<>> /\ Gone(m, d) = k.sent[d]
  BY <1>2, <1>3 DEF Gone
<1>6. Queued(m)
  BY <1>2, <1>5 DEF Queued
<1>7. \A d \in Devs : Delivered(m, had, d) = had[d]
  BY <1>3 DEF Delivered
<1>8. \A d \in Devs : had[d] \leq k.sent[d]
  <2> SUFFICES ASSUME NEW d \in Devs  PROVE  had[d] \leq k.sent[d]
    OBVIOUS
  <2>1. Gone(k, d) \leq k.sent[d] /\ Gone(k, d) \in Nat
    BY <1>2 DEF Gone, Numbers, Queued
  <2>2. Delivered(k, had, d) \leq Gone(k, d)
    BY DEF Numbers, Followed
  <2>3. had[d] \in Nat /\ k.data.n \in Nat
    BY DEF KbdRecord
  <2>4. had[d] \leq Delivered(k, had, d) /\ Delivered(k, had, d) \in Nat
    BY <2>3 DEF Delivered, Numbers, Ordered
  <2> QED
    BY <1>2, <2>1, <2>2, <2>3, <2>4
<1>9. Numbers(m, had)
  BY <1>3, <1>5, <1>6, <1>7, <1>8 DEF Numbers, Followed, Ordered
<1>10. Waits(m) /\ Owned(m) /\ Raised(m)
  BY <1>3, <1>4, <1>5 DEF Waits, HasItems, Owned, Raised, KbdRecord
<1>11. Grows(m, p, had)
  BY <1>4, <1>9, <1>10, ResetPortKeeps DEF Devs
<1> HIDE DEF p
<1>12. p \in KbdRecord /\ Numbers(p, had) /\ Waits(p)
  BY <1>11 DEF Grows, Keeps
<1>13. Grows(p, ResetPort(p, "aux"), had)
  BY <1>12, ResetPortKeeps DEF Devs
<1> QED
  BY <1>1, <1>10, <1>11, <1>13 DEF Grows, Keeps
-----------------------------------------------------------------------------
\* A guest that enables a port while a byte waits gets that port's status.
Untidy == "enable" \in kuse.commands /\ ~kuse.tidy

IInv ==
  /\ kuse \in KbdUses /\ kbd \in KbdRecord /\ taken \in [Devs -> Nat]
  /\ cpu \in {"run", "handler"} /\ seen \in Devs \cup {"none"}
  /\ Numbers(kbd, taken) /\ Waits(kbd)
  /\ Owned(kbd) \/ Untidy
  /\ cpu = "run" => Raised(kbd)
  /\ seen # "none" => kbd.unread

LEMMA InitHolds == KbdInit => IInv
<1> SUFFICES ASSUME KbdInit  PROVE IInv
  OBVIOUS
<1>1. kbd \in KbdRecord
  BY DEF KbdInit, PowerOn, KbdRecord, Devs, Waiting
<1>2. /\ ~kbd.unread /\ ~kbd.full
      /\ \A d \in Devs : kbd.queue[d] = <<>> /\ kbd.sent[d] = 0 /\ taken[d] = 0
  BY DEF KbdInit, PowerOn
<1>3. \A d \in Devs : Gone(kbd, d) = 0 /\ Delivered(kbd, taken, d) = 0
  BY <1>2 DEF Gone, Delivered
<1>4. Numbers(kbd, taken)
  <2>1. Queued(kbd)
    BY <1>2, <1>3, KbdAssumption DEF Queued
  <2> QED
    BY <1>2, <1>3, <2>1 DEF Numbers, Followed, Ordered
<1>5. Waits(kbd) /\ Owned(kbd) /\ Raised(kbd)
  BY <1>1, <1>2 DEF Waits, HasItems, Owned, Raised, KbdRecord
<1> QED
  BY <1>1, <1>4, <1>5 DEF IInv, KbdInit, Devs

\* Key, Move, Click and commands leave the guest's reading alone.
LEMMA GrowsInv ==
  ASSUME IInv, UNCHANGED <<kuse, cpu, seen, taken>>, Grows(kbd, kbd', taken)
  PROVE  IInv'
BY DEF IInv, Grows, Keeps, Untidy

LEMMA KeepsInv ==
  ASSUME IInv, UNCHANGED <<kuse, cpu, seen, taken>>, seen = "none", Keeps(kbd, kbd', taken)
  PROVE  IInv'
BY DEF IInv, Keeps, Untidy

LEMMA GrowsItself ==
  ASSUME IInv
  PROVE  Grows(kbd, kbd, taken)
BY DEF IInv, Grows, Keeps

\* One byte or more, whatever they say.
LEMMA AnyBytes ==
  ASSUME IInv, NEW d \in Devs
  PROVE  /\ Grows(kbd, AddByte(kbd, d), taken)
         /\ \A many \in 1 .. 4 : Grows(kbd, AddBytes(kbd, d, many), taken)
BY AddByteKeeps, AddBytesKeeps, KbdAssumption DEF IInv

LEMMA HostInv ==
  ASSUME IInv, Key \/ Move \/ Click
  PROVE  IInv'
<1>1. "kbd" \in Devs /\ "aux" \in Devs /\ 3 \in 1 .. 4
  BY DEF Devs
<1>2. UNCHANGED <<kuse, cpu, seen, taken>>
  BY DEF Key, Move, Click, HostEvent
<1>3. Grows(kbd, kbd', taken)
  BY <1>1, AnyBytes, GrowsItself DEF Key, Move, Click
<1> QED
  BY <1>2, <1>3, GrowsInv

LEMMA QueryInv ==
  ASSUME IInv, ControllerQuery
  PROVE  IInv'
BY AnyBytes, GrowsInv DEF ControllerQuery, Writes, Devs

LEMMA EnableInv ==
  ASSUME IInv, NEW d \in Devs, EnablePort(d)
  PROVE  IInv'
<1> DEFINE k == Refill(kbd)
           r == RaiseKbdIrq(k, d)
<1>1. Grows(kbd, k, taken)
  BY RefillKeeps, KbdAssumption DEF IInv, Waits
<1>2. kbd' = IF k.unread THEN r ELSE k
  BY DEF EnablePort
<1>3. UNCHANGED <<kuse, cpu, seen, taken>>
  BY DEF EnablePort, Writes
<1>4. CASE kuse.tidy
  <2>1. ~kbd.unread /\ HasItems(kbd) = {}
    BY <1>4 DEF EnablePort, Writes, IInv, Waits
  <2>2. k = kbd
    BY <2>1 DEF Refill
  <2> QED
    BY <1>2, <1>3, <2>1, <2>2, GrowsItself, GrowsInv
<1>5. CASE ~kuse.tidy
  <2>1. Untidy /\ Untidy'
    BY <1>3, <1>5 DEF EnablePort, Writes, Untidy
  <2>2. k \in KbdRecord /\ Numbers(k, taken) /\ Waits(k)
    BY <1>1 DEF Grows, Keeps
  <2>3. (kbd.unread => k.unread) /\ (Raised(kbd) => Raised(k))
    BY <1>1 DEF Grows, Keeps
  <2> HIDE DEF k
  <2>4. /\ r \in KbdRecord /\ r.full /\ r.shown = d
        /\ r.queue = k.queue /\ r.data = k.data /\ r.unread = k.unread
        /\ r.sent = k.sent /\ r.lost = k.lost
        /\ r.enabled = k.enabled /\ r.late = k.late
        /\ d \in r.enabled => d \in r.irr
    BY <2>2, RaiseIs
  <2> HIDE DEF r
  <2>5. k.unread => Numbers(r, taken) /\ Waits(r) /\ Raised(r)
    BY <2>2, <2>4, SameNumbers DEF Waits, HasItems, Raised
  <2>6. /\ kbd' \in KbdRecord /\ Numbers(kbd', taken) /\ Waits(kbd')
        /\ kbd.unread => (kbd').unread
        /\ Raised(kbd) => Raised(kbd')
    BY <1>2, <2>2, <2>3, <2>4, <2>5
  <2> QED
    BY <1>3, <2>1, <2>6 DEF IInv
<1> QED
  BY <1>4, <1>5

LEMMA TwoByteInv ==
  ASSUME IInv, NEW c \in {"ram", "gate", "outKbd", "outAux", "mouse"}, TwoByteCommand(c)
  PROVE  IInv'
<1>1. Grows(kbd, [kbd EXCEPT !.command = c], taken)
  BY SameBytesKeep DEF IInv, KbdRecord, Waiting
<1> QED
  BY <1>1, GrowsInv DEF TwoByteCommand, Writes
\* The state while the bytes of an answer are added.
Sound(k) == k \in KbdRecord /\ Numbers(k, taken) /\ Waits(k)

LEMMA AnswersKeep ==
  ASSUME IInv, NEW k, Sound(k), NEW d \in Devs
  PROVE  /\ Keeps(k, AddByte(k, d), taken)
         /\ \A many \in 1 .. 4 : Keeps(k, AddBytes(k, d, many), taken)
BY AddByteKeeps, AddBytesKeeps, KbdAssumption DEF IInv, Sound, Grows

\* The controller's own fields.
LEMMA OwnFields ==
  ASSUME IInv, NEW k, Sound(k), NEW c \in Waiting, NEW m \in {"none", "rate"},
         NEW s \in BOOLEAN, NEW t \in BOOLEAN, NEW r,
         \/ r = [k EXCEPT !.command = c]
         \/ r = [k EXCEPT !.command = c, !.mouse = m]
         \/ r = [k EXCEPT !.mouse = m]
         \/ r = [k EXCEPT !.scanning = s]
         \/ r = [k EXCEPT !.stream = t]
  PROVE  Sound(r) /\ Keeps(k, r, taken)
<1> DEFINE Same == /\ r.queue = k.queue /\ r.data = k.data /\ r.unread = k.unread
                   /\ r.full = k.full /\ r.shown = k.shown /\ r.sent = k.sent
                   /\ r.lost = k.lost /\ r.late = k.late
                   /\ r.irr = k.irr /\ r.enabled = k.enabled
<1>1. k \in KbdRecord
  BY DEF Sound
<1>2. CASE r = [k EXCEPT !.command = c]
  <2> r \in KbdRecord /\ Same
    BY <1>1, <1>2 DEF KbdRecord
  <2> QED
    BY SameBytesKeep DEF Sound, Grows, Keeps
<1>3. CASE r = [k EXCEPT !.command = c, !.mouse = m] \/ r = [k EXCEPT !.mouse = m]
  <2> r \in KbdRecord /\ Same
    <3>1. CASE r = [k EXCEPT !.command = c, !.mouse = m]
      BY <1>1, <3>1 DEF KbdRecord
    <3>2. CASE r = [k EXCEPT !.mouse = m]
      BY <1>1, <3>2 DEF KbdRecord
    <3> QED
      BY <1>3, <3>1, <3>2
  <2> QED
    BY SameBytesKeep DEF Sound, Grows, Keeps
<1>4. CASE r = [k EXCEPT !.scanning = s] \/ r = [k EXCEPT !.stream = t]
  <2> r \in KbdRecord /\ Same
    <3>1. CASE r = [k EXCEPT !.scanning = s]
      BY <1>1, <3>1 DEF KbdRecord
    <3>2. CASE r = [k EXCEPT !.stream = t]
      BY <1>1, <3>2 DEF KbdRecord
    <3> QED
      BY <1>4, <3>1, <3>2
  <2> QED
    BY SameBytesKeep DEF Sound, Grows, Keeps
<1> QED
  BY <1>2, <1>3, <1>4

LEMMA KeepsTwice ==
  ASSUME NEW k, NEW m, NEW r, Keeps(k, m, taken), Keeps(m, r, taken)
  PROVE  Keeps(k, r, taken)
BY DEF Keeps

\* The command byte may enable interrupts: what is queued raises one.
LEMMA RamKeeps ==
  ASSUME IInv, NEW bits \in SUBSET Devs, WriteRam(bits)
  PROVE  Keeps(kbd, kbd', taken)
<1> DEFINE m == [kbd EXCEPT !.command = "none", !.enabled = bits,
                            !.late = kbd.unread /\ HasItems(kbd) = {}]
<1>1. m \in KbdRecord
  BY DEF IInv, KbdRecord, Waiting
<1>2. /\ m.queue = kbd.queue /\ m.data = kbd.data /\ m.unread = kbd.unread
      /\ m.full = kbd.full /\ m.shown = kbd.shown /\ m.sent = kbd.sent /\ m.lost = kbd.lost
      /\ m.late = (kbd.unread /\ HasItems(kbd) = {})
  BY DEF IInv, KbdRecord
<1>3. kbd' = Refill(m)
  BY DEF WriteRam
<1> HIDE DEF m
<1>4. Numbers(m, taken) /\ m.full = m.unread /\ HasItems(m) = HasItems(kbd)
  BY <1>2, SameNumbers DEF IInv, Waits, HasItems
<1>5. Grows(m, Refill(m), taken) /\ (HasItems(m) # {} => Raised(Refill(m)))
  BY <1>1, <1>4, RefillKeeps, KbdAssumption DEF IInv
<1>6. HasItems(m) = {} => Raised(m)
  BY <1>2, <1>4 DEF Raised
<1>7. Owned(kbd) => Owned(m)
  BY <1>2 DEF Owned
<1> QED
  BY <1>3, <1>5, <1>6, <1>7 DEF Grows, Keeps

LEMMA KeyboardCommandKeeps ==
  ASSUME IInv, NEW c \in KeyboardCommands, KeyboardCommand(c)
  PROVE  Keeps(kbd, kbd', taken)
<1> "kbd" \in Devs /\ "aux" \in Devs /\ 2 \in 1 .. 4 /\ 3 \in 1 .. 4 /\ "leds" \in Waiting
  BY DEF Devs, Waiting
<1>1. Sound(kbd) /\ Grows(kbd, kbd, taken)
  BY GrowsItself DEF IInv, Sound
<1>2. CASE c \in {"echo", "identify", "resend"}
  BY <1>1, <1>2, AnswersKeep DEF KeyboardCommand
<1>3. CASE c = "leds"
  <2> DEFINE m == AddByte(kbd, "kbd")
  <2>1. Keeps(kbd, m, taken) /\ kbd' = [m EXCEPT !.command = "leds"]
    BY <1>1, <1>3, AnswersKeep DEF KeyboardCommand
  <2> HIDE DEF m
  <2>2. Keeps(m, kbd', taken)
    BY <2>1, OwnFields DEF Keeps, Sound
  <2> QED
    BY <2>1, <2>2, KeepsTwice
<1>4. CASE c \in {"scan", "stop"}
  <2> DEFINE m == [kbd EXCEPT !.scanning = (c = "scan")]
  <2>1. kbd' = AddByte(m, "kbd")
    BY <1>4 DEF KeyboardCommand
  <2>2. Sound(m) /\ Keeps(kbd, m, taken)
    BY <1>1, OwnFields
  <2> HIDE DEF m
  <2> QED
    BY <2>1, <2>2, AnswersKeep, KeepsTwice
<1>5. CASE c = "defaults"
  <2> DEFINE m == ResetKbd(kbd)
  <2>1. kbd' = AddByte(m, "kbd")
    BY <1>5 DEF KeyboardCommand
  <2>2. Keeps(kbd, m, taken)
    BY ResetKbdKeeps, KbdAssumption DEF IInv
  <2> HIDE DEF m
  <2> QED
    BY <2>1, <2>2, AnswersKeep, KeepsTwice DEF Sound, Keeps
<1>6. CASE c = "resetKbd"
  <2> DEFINE m == ResetPort(kbd, "kbd")
  <2>1. kbd' = AddBytes(m, "kbd", 2)
    BY <1>6 DEF KeyboardCommand
  <2>2. Keeps(kbd, m, taken)
    BY ResetPortKeeps DEF IInv, Grows
  <2> HIDE DEF m
  <2>3. Sound(m)
    BY <2>2 DEF Sound, Keeps
  <2> QED
    BY <2>1, <2>2, <2>3, AnswersKeep, KeepsTwice
<1> QED
  BY <1>2, <1>3, <1>4, <1>5, <1>6 DEF KeyboardCommands

LEMMA MouseCommandKeeps ==
  ASSUME IInv, NEW c \in MouseCommands, MouseCommand(c)
  PROVE  Keeps(kbd, kbd', taken)
<1> "aux" \in Devs /\ 2 \in 1 .. 4 /\ 3 \in 1 .. 4 /\ 4 \in 1 .. 4 /\ "none" \in Waiting
  BY DEF Devs, Waiting
<1> DEFINE k == [kbd EXCEPT !.command = "none"]
           rate == [k EXCEPT !.mouse = "rate"]
           report == [k EXCEPT !.stream = TRUE]
           quiet == [k EXCEPT !.stream = FALSE]
           port == ResetPort(k, "aux")
<1>1. Sound(kbd)
  BY DEF IInv, Sound
<1>2. Sound(k) /\ Keeps(kbd, k, taken)
  BY <1>1, OwnFields
<1>3. /\ c \in {"scale"} => kbd' = AddByte(k, "aux")
      /\ c = "rate" => kbd' = AddByte(rate, "aux")
      /\ c = "status" => kbd' = AddBytes(k, "aux", 4)
      /\ c = "id" => kbd' = AddBytes(k, "aux", 2)
      /\ c = "report" => kbd' = AddByte(report, "aux")
      /\ c = "quiet" => kbd' = AddByte(quiet, "aux")
      /\ c = "defaultsAux" => kbd' = AddByte(port, "aux")
      /\ c = "resetAux" => kbd' = AddBytes(port, "aux", 3)
      /\ c = "ignored" => kbd' = k
  BY DEF MouseCommand
<1> HIDE DEF k
<1>4. Sound(rate) /\ Keeps(k, rate, taken)
  BY <1>2, OwnFields
<1>5. Sound(report) /\ Keeps(k, report, taken)
  BY <1>2, OwnFields
<1>6. Sound(quiet) /\ Keeps(k, quiet, taken)
  BY <1>2, OwnFields
<1>7. Sound(port) /\ Keeps(k, port, taken)
  <2>1. Grows(k, port, taken)
    BY <1>2, ResetPortKeeps DEF Sound
  <2> QED
    BY <2>1 DEF Grows, Keeps, Sound
<1> HIDE DEF rate, report, quiet, port
<1>8. CASE c \in {"scale", "status", "id", "ignored"}
  BY <1>2, <1>3, <1>8, AnswersKeep, KeepsTwice
<1>9. CASE c \in {"rate", "report", "quiet"}
  <2>1. PICK m \in {rate, report, quiet} : kbd' = AddByte(m, "aux")
    BY <1>3, <1>9
  <2>2. Sound(m) /\ Keeps(kbd, m, taken)
    BY <1>2, <1>4, <1>5, <1>6, KeepsTwice
  <2> QED
    BY <2>1, <2>2, AnswersKeep, KeepsTwice
<1>10. CASE c \in {"defaultsAux", "resetAux"}
  <2>1. Keeps(kbd, port, taken)
    BY <1>2, <1>7, KeepsTwice
  <2> QED
    BY <1>3, <1>7, <1>10, <2>1, AnswersKeep, KeepsTwice
<1> QED
  BY <1>8, <1>9, <1>10 DEF MouseCommands

LEMMA DataInv ==
  ASSUME IInv, WriteData
  PROVE  IInv'
<1> "kbd" \in Devs /\ "aux" \in Devs /\ "none" \in Waiting /\ 1 \in 1 .. 4 /\ 2 \in 1 .. 4
  BY DEF Devs, Waiting
<1> DEFINE k == [kbd EXCEPT !.command = "none"]
           m == [kbd EXCEPT !.command = "none", !.mouse = "none"]
<1>1. Sound(kbd)
  BY DEF IInv, Sound
<1>2. Sound(k) /\ Keeps(kbd, k, taken)
  BY <1>1, OwnFields
<1>3. Sound(m) /\ Keeps(kbd, m, taken)
  BY <1>1, OwnFields
<1>4. /\ \A d \in Devs : WriteOutput(d) => kbd' = AddByte(k, d)
      /\ KeyboardParameter => \E many \in {1, 2} : kbd' = AddBytes(k, "kbd", many)
      /\ WriteGate => kbd' = k
      /\ MouseParameter => kbd' = AddByte(m, "aux")
  BY DEF WriteOutput, KeyboardParameter, WriteGate, MouseParameter
<1> HIDE DEF k, m
<1>5. ASSUME \/ \E d \in Devs : WriteOutput(d)
             \/ KeyboardParameter \/ WriteGate \/ MouseParameter
      PROVE  Keeps(kbd, kbd', taken)
  BY <1>2, <1>3, <1>4, <1>5, AnswersKeep, KeepsTwice
<1>6. Keeps(kbd, kbd', taken)
  BY <1>5, RamKeeps, KeyboardCommandKeeps, MouseCommandKeeps DEF WriteData
<1> QED
  BY <1>6, KeepsInv DEF WriteData, Writes
\* The interrupt is taken: the handler reads the byte.
LEMMA TakeInv ==
  ASSUME IInv, NEW d \in Devs, TakeKbdInterrupt(d)
  PROVE  IInv'
<1>1. /\ kbd' = [kbd EXCEPT !.irr = @ \ {d}] /\ cpu' = "handler"
      /\ UNCHANGED <<kuse, seen, taken>>
  BY DEF TakeKbdInterrupt
<1>2. kbd' \in KbdRecord
  BY <1>1 DEF IInv, KbdRecord
<1>3. /\ (kbd').queue = kbd.queue /\ (kbd').data = kbd.data /\ (kbd').unread = kbd.unread
      /\ (kbd').full = kbd.full /\ (kbd').shown = kbd.shown /\ (kbd').sent = kbd.sent
      /\ (kbd').lost = kbd.lost
  BY <1>1 DEF IInv, KbdRecord
<1>4. Numbers(kbd', taken)
  BY <1>3, SameNumbers DEF IInv
<1>5. Waits(kbd') /\ (Owned(kbd) => Owned(kbd'))
  BY <1>3 DEF IInv, Waits, HasItems, Owned
<1> QED
  BY <1>1, <1>2, <1>3, <1>4, <1>5 DEF IInv, Untidy

LEMMA StatusInv ==
  ASSUME IInv, ReadStatus
  PROVE  IInv'
<1>1. kbd.full = kbd.unread /\ kbd.shown \in Devs /\ kbd.unread \in BOOLEAN
  BY DEF IInv, Waits, KbdRecord
<1>2. CASE kbd.full
  BY <1>1, <1>2 DEF ReadStatus, IInv, Untidy
<1>3. CASE ~kbd.full
  <2>1. Raised(kbd)
    BY <1>1, <1>3 DEF Raised
  <2> QED
    BY <1>3, <2>1 DEF ReadStatus, IInv, Untidy
<1> QED
  BY <1>2, <1>3

\* What was in the buffer is what the guest has now.
LEMMA ReadNumbers ==
  ASSUME IInv, kbd.unread, NEW k, k.queue = kbd.queue, k.sent = kbd.sent, k.lost = kbd.lost,
         ~k.unread, NEW had, had = [taken EXCEPT ![kbd.data.dev] = kbd.data.n]
  PROVE  Numbers(k, had) /\ had \in [Devs -> Nat]
<1>1. kbd.data.dev \in Devs /\ kbd.data.n \in Nat /\ taken \in [Devs -> Nat]
  BY DEF IInv, KbdRecord
<1>2. \A d \in Devs : Gone(k, d) = Gone(kbd, d)
  BY DEF Gone
<1>3. \A d \in Devs : Delivered(k, had, d) = Delivered(kbd, taken, d)
  BY <1>1 DEF Delivered
<1>4. Queued(k)
  BY <1>2 DEF IInv, Numbers, Queued
<1>5. Followed(k, had)
  BY <1>2, <1>3 DEF IInv, Numbers, Followed
<1> QED
  BY <1>1, <1>4, <1>5 DEF Numbers, Ordered

LEMMA ReadInv ==
  ASSUME IInv, ReadData
  PROVE  IInv'
<1> DEFINE k == [kbd EXCEPT !.full = FALSE, !.shown = "kbd", !.unread = FALSE, !.late = FALSE,
                            !.irr = @ \ {kbd.current}, !.current = "none"]
<1>1. /\ kbd' = Refill(k) /\ taken' = [taken EXCEPT ![kbd.data.dev] = kbd.data.n]
      /\ cpu' = "run" /\ seen' = "none" /\ kuse' = kuse /\ kbd.unread
  BY DEF ReadData, IInv
<1>2. /\ k \in KbdRecord
      /\ k.queue = kbd.queue /\ k.sent = kbd.sent /\ k.lost = kbd.lost
      /\ ~k.unread /\ ~k.full
  BY DEF IInv, KbdRecord, Devs
<1> HIDE DEF k
<1>3. Numbers(k, taken') /\ taken' \in [Devs -> Nat]
  BY <1>1, <1>2, ReadNumbers
<1>4. Owned(k) /\ Raised(k)
  BY <1>2 DEF Owned, Raised
<1>5. k.full = k.unread
  BY <1>2 DEF KbdRecord
<1>6. Grows(k, Refill(k), taken')
  BY <1>2, <1>3, <1>5, RefillKeeps, KbdAssumption
<1> QED
  BY <1>1, <1>3, <1>4, <1>6 DEF IInv, Grows, Keeps

LEMMA NextHolds == IInv /\ [KbdNext]_kbdVars => IInv'
<1> SUFFICES ASSUME IInv, [KbdNext]_kbdVars  PROVE IInv'
  OBVIOUS
<1>1. CASE Key \/ Move \/ Click
  BY <1>1, HostInv
<1>2. CASE ControllerQuery
  BY <1>2, QueryInv
<1>3. CASE \E d \in Devs : EnablePort(d)
  BY <1>3, EnableInv
<1>4. CASE \E c \in {"ram", "gate", "outKbd", "outAux", "mouse"} : TwoByteCommand(c)
  BY <1>4, TwoByteInv
<1>5. CASE WriteData
  BY <1>5, DataInv
<1>6. CASE \E d \in Devs : TakeKbdInterrupt(d)
  BY <1>6, TakeInv
<1>7. CASE ReadStatus
  BY <1>7, StatusInv
<1>8. CASE ReadData
  BY <1>8, ReadInv
<1>9. CASE UNCHANGED kbdVars
  BY <1>9 DEF kbdVars, IInv, Untidy
<1> QED
  BY <1>1, <1>2, <1>3, <1>4, <1>5, <1>6, <1>7, <1>8, <1>9 DEF KbdNext

LEMMA Invariance == KbdSpec => []IInv
BY InitHolds, NextHolds, PTL DEF KbdSpec

-----------------------------------------------------------------------------
\* The queues stay within their size, and the status bit says whether a byte
\* waits.
THEOREM KbdTypeCorrect == KbdSpec => []KbdTypeOK
<1>1. IInv => KbdTypeOK
  BY DEF IInv, KbdTypeOK, KbdRecord, Numbers, Queued, Waits
<1> QED
  BY <1>1, Invariance, PTL

\* The guest reads the bytes of each device in the order they were sent, but for
\* those a full or cleared queue lost.
THEOREM ReadInOrder == KbdSpec => []BytesInOrder
<1>1. IInv => BytesInOrder
  <2> SUFFICES ASSUME IInv, kbd.unread  PROVE BytesInOrder
    BY DEF BytesInOrder
  <2> DEFINE d == kbd.data.dev
  <2>1. kbd.data.n \in Nat /\ d \in Devs /\ taken[d] \in Nat /\ kbd.lost[d] \subseteq Nat
    BY DEF IInv, KbdRecord
  <2>2. kbd.data.n > taken[d] /\ kbd.data.n - 1 \in {taken[d]} \cup kbd.lost[d]
    BY DEF IInv, Numbers, Ordered
  <2>3. kbd.data.n = (kbd.data.n - 1) + 1
    BY <2>1
  <2> QED
    BY <2>2, <2>3 DEF BytesInOrder
<1> QED
  BY <1>1, Invariance, PTL

\* The status is that of the byte, unless the other queue has something to say.
THEOREM StatusShowsOwner == KbdSpec => []OwnerShown
<1>1. IInv => OwnerShown
  BY DEF IInv, Owned, Untidy, OwnerShown
<1> QED
  BY <1>1, Invariance, PTL

\* With both interrupts enabled, a byte that waits has one to come.
THEOREM InterruptToCome == KbdSpec => []NotStranded
<1>1. IInv => NotStranded
  BY DEF IInv, Raised, NotStranded
<1> QED
  BY <1>1, Invariance, PTL

(***************************************************************************)
(* The decoder.  The rows of the tables: all but those of OddFamilies say  *)
(* what the decode function reads.  A table's rows are looked at one by    *)
(* one, and nothing but this is used of them.                              *)
(***************************************************************************)

Imms == {{}, {"b"}, {"w"}, {"v"}, {"v", "w"}, {"v", "b"}}

\* A row that says what the decode function reads.
Plain(r) ==
  /\ r.operand \in {"one", "modrm", "moffs"} /\ r.imm \in Imms
  /\ r.operand = "modrm" => r.imm \in {{}, {"b"}, {"v"}}
  /\ r.readOperand = r.operand /\ r.readImm = r.imm /\ r.minor = 0 /\ r.map \in {1, 2}
  /\ DOMAIN r = {"operand", "imm", "readOperand", "readImm", "minor", "map", "lock", "ends"}

\* A row that is decoded as another one would be.
Differs(r, operand, imm, readOperand, readImm, minor) ==
  /\ r.operand = operand /\ r.imm = imm /\ r.readOperand = readOperand /\ r.readImm = readImm
  /\ r.minor = minor /\ r.map \in {1, 2}
  /\ DOMAIN r = {"operand", "imm", "readOperand", "readImm", "minor", "map", "lock", "ends"}

\* The undefined opcodes that a ModR/M byte for a register shows.
ByRegister == {"bound_ud", "lea_ud", "les_ud", "lss_ud", "cmpxchg8b_ud"}
OddFamilies ==
  ByRegister \cup {"mov_C6_ud", "mov_C7_ud", "enter", "retf_iw", "mov_cr", "mov_dr", "sse_38",
                   "emms", "group_8_ud", "sse_C2", "prefetch", "invalid_19"}

RowFits(n, r) ==
  /\ n \notin OddFamilies => Plain(r)
  /\ n \in ByRegister => Differs(r, "modrm", {}, "byte", {}, 0)
  /\ n = "mov_C6_ud" => Differs(r, "modrm", {"b"}, "byte", {}, 0)
  /\ n = "mov_C7_ud" => Differs(r, "modrm", {"v"}, "byte", {}, 0)
  /\ n = "enter" => Differs(r, "one", {"v", "b"}, "one", {"w", "b"}, 0)
  /\ n = "retf_iw" => Differs(r, "one", {"v"}, "one", {"w"}, 0)
  /\ n = "mov_cr" => Differs(r, "modrm", {}, "byte", {}, 0)
  /\ n = "mov_dr" => Differs(r, "one", {"b"}, "byte", {}, 0)
  /\ n = "sse_38" => Differs(r, "one", {}, "modrm", {}, 1)
  /\ n = "emms" => Differs(r, "modrm", {}, "one", {}, 0)
  /\ n = "group_8_ud" => Differs(r, "modrm", {"b"}, "modrm", {}, 0)
  /\ n = "sse_C2" => Differs(r, "modrm", {}, "modrm", {"b"}, 0)
  /\ n = "prefetch" => Differs(r, "one", {}, "modrm", {}, 0)
  /\ n = "invalid_19" => Differs(r, "modrm", {}, "one", {}, 0)

TableFits(t) == \A n \in DOMAIN t : RowFits(n, t[n])

LEMMA PlainRows ==
  /\ Plain(One) /\ Plain(ModRM) /\ Plain(Moffs)
  /\ \A imm \in Imms : Plain(Imm(imm))
  /\ \A imm \in {{}, {"b"}, {"v"}} : Plain(ModRMImm(imm))
BY DEF Plain, One, ModRM, Moffs, Imm, ModRMImm, Family, Imms

LEMMA PlainStays ==
  ASSUME NEW r, Plain(r)
  PROVE  Plain(Ends(r)) /\ Plain(Locks(r))
BY DEF Plain, Ends, Locks, Imms

LEMMA OddRows ==
  /\ Differs(Undefined(ModRM), "modrm", {}, "byte", {}, 0)
  /\ Differs(Locks(Undefined(ModRM)), "modrm", {}, "byte", {}, 0)
  /\ Differs(Undefined(ModRMImm({"b"})), "modrm", {"b"}, "byte", {}, 0)
  /\ Differs(Undefined(ModRMImm({"v"})), "modrm", {"v"}, "byte", {}, 0)
  /\ Differs(Reads(Imm({"v", "b"}), "one", {"w", "b"}), "one", {"v", "b"}, "one", {"w", "b"}, 0)
  /\ Differs(Ends(Reads(Imm({"v"}), "one", {"w"})), "one", {"v"}, "one", {"w"}, 0)
  /\ Differs(Ends(Reads(ModRM, "byte", {})), "modrm", {}, "byte", {}, 0)
  /\ Differs(Reads(Imm({"b"}), "byte", {}), "one", {"b"}, "byte", {}, 0)
  /\ Differs([Reads(One, "modrm", {}) EXCEPT !.minor = 1], "one", {}, "modrm", {}, 1)
  /\ Differs(Reads(ModRM, "one", {}), "modrm", {}, "one", {}, 0)
  /\ Differs(Locks(Ends(Reads(ModRMImm({"b"}), "modrm", {}))), "modrm", {"b"}, "modrm", {}, 0)
  /\ Differs(Reads(ModRM, "modrm", {"b"}), "modrm", {}, "modrm", {"b"}, 0)
  /\ Differs(Reads(One, "modrm", {}), "one", {}, "modrm", {}, 0)
  /\ Differs(Ends(Reads(ModRM, "one", {})), "modrm", {}, "one", {}, 0)
BY DEF Differs, Undefined, Ends, Locks, Reads, One, ModRM, Imm, ModRMImm, Family

LEMMA JccToDecFits == TableFits(JccToDec)
BY PlainRows, PlainStays, OddRows
  DEF JccToDec, TableFits, RowFits, OddFamilies, ByRegister, Imms

LEMMA FpuToAasFits == TableFits(FpuToAas)
BY PlainRows, PlainStays, OddRows
  DEF FpuToAas, TableFits, RowFits, OddFamilies, ByRegister, Imms

LEMMA CmpToArplFits == TableFits(CmpToArpl)
BY PlainRows, PlainStays, OddRows
  DEF CmpToArpl, TableFits, RowFits, OddFamilies, ByRegister, Imms

LEMMA PushToTestFits == TableFits(PushToTest)
BY PlainRows, PlainStays, OddRows
  DEF PushToTest, TableFits, RowFits, OddFamilies, ByRegister, Imms

LEMMA XchgToFwaitFits == TableFits(XchgToFwait)
BY PlainRows, PlainStays, OddRows
  DEF XchgToFwait, TableFits, RowFits, OddFamilies, ByRegister, Imms

LEMMA PushfToTestImmFits == TableFits(PushfToTestImm)
BY PlainRows, PlainStays, OddRows
  DEF PushfToTestImm, TableFits, RowFits, OddFamilies, ByRegister, Imms

LEMMA StosToRetFits == TableFits(StosToRet)
BY PlainRows, PlainStays, OddRows
  DEF StosToRet, TableFits, RowFits, OddFamilies, ByRegister, Imms

LEMMA LesToIretFits == TableFits(LesToIret)
BY PlainRows, PlainStays, OddRows
  DEF LesToIret, TableFits, RowFits, OddFamilies, ByRegister, Imms

LEMMA ShiftToCallFits == TableFits(ShiftToCall)
BY PlainRows, PlainStays, OddRows
  DEF ShiftToCall, TableFits, RowFits, OddFamilies, ByRegister, Imms

LEMMA JmpToGroup3Fits == TableFits(JmpToGroup3)
BY PlainRows, PlainStays, OddRows
  DEF JmpToGroup3, TableFits, RowFits, OddFamilies, ByRegister, Imms

LEMMA FlagsToGroup5Fits == TableFits(FlagsToGroup5)
BY PlainRows, PlainStays, OddRows
  DEF FlagsToGroup5, TableFits, RowFits, OddFamilies, ByRegister, Imms

LEMMA SystemGroupsFits == TableFits(SystemGroups)
BY PlainRows, PlainStays, OddRows
  DEF SystemGroups, TableFits, RowFits, OddFamilies, ByRegister, Imms

LEMMA MovesToDebugFits == TableFits(MovesToDebug)
BY PlainRows, PlainStays, OddRows
  DEF MovesToDebug, TableFits, RowFits, OddFamilies, ByRegister, Imms

LEMMA Sse28ToSse50Fits == TableFits(Sse28ToSse50)
BY PlainRows, PlainStays, OddRows
  DEF Sse28ToSse50, TableFits, RowFits, OddFamilies, ByRegister, Imms

LEMMA Sse58ToSse68Fits == TableFits(Sse58ToSse68)
BY PlainRows, PlainStays, OddRows
  DEF Sse58ToSse68, TableFits, RowFits, OddFamilies, ByRegister, Imms

LEMMA Sse70ToSse7EFits == TableFits(Sse70ToSse7E)
BY PlainRows, PlainStays, OddRows
  DEF Sse70ToSse7E, TableFits, RowFits, OddFamilies, ByRegister, Imms

LEMMA JccToShrdFits == TableFits(JccToShrd)
BY PlainRows, PlainStays, OddRows
  DEF JccToShrd, TableFits, RowFits, OddFamilies, ByRegister, Imms

LEMMA FxsaveToLgsFits == TableFits(FxsaveToLgs)
BY PlainRows, PlainStays, OddRows
  DEF FxsaveToLgs, TableFits, RowFits, OddFamilies, ByRegister, Imms

LEMMA MovxToXaddFits == TableFits(MovxToXadd)
BY PlainRows, PlainStays, OddRows
  DEF MovxToXadd, TableFits, RowFits, OddFamilies, ByRegister, Imms

LEMMA Cmpxchg8ToSseD8Fits == TableFits(Cmpxchg8ToSseD8)
BY PlainRows, PlainStays, OddRows
  DEF Cmpxchg8ToSseD8, TableFits, RowFits, OddFamilies, ByRegister, Imms

LEMMA SseE0ToSseF8Fits == TableFits(SseE0ToSseF8)
BY PlainRows, PlainStays, OddRows
  DEF SseE0ToSseF8, TableFits, RowFits, OddFamilies, ByRegister, Imms

LEMMA MapStays ==
  ASSUME NEW n, NEW r, RowFits(n, r)
  PROVE  RowFits(n, [r EXCEPT !.map = 2])
<1>1. Plain(r) => Plain([r EXCEPT !.map = 2])
  BY DEF Plain, Imms
<1>2. ASSUME NEW operand, NEW imm, NEW readOperand, NEW readImm, NEW minor,
             Differs(r, operand, imm, readOperand, readImm, minor)
      PROVE  Differs([r EXCEPT !.map = 2], operand, imm, readOperand, readImm, minor)
  BY <1>2 DEF Differs
<1> QED BY <1>1, <1>2 DEF RowFits

LEMMA RowOf ==
  ASSUME NEW tables, \A t \in tables : TableFits(t), NEW n \in Names(tables)
  PROVE  RowFits(n, Row(tables, n))
<1> DEFINE t == CHOOSE u \in tables : n \in DOMAIN u
<1>1. t \in tables /\ n \in DOMAIN t
  BY DEF Names
<1> HIDE DEF t
<1>2. RowFits(n, t[n])
  BY <1>1 DEF TableFits
<1> QED BY <1>2 DEF Row, t

LEMMA FamiliesFit == \A n \in DOMAIN Families : RowFits(n, Families[n])
<1>1. \A t \in OneByte : TableFits(t)
  BY JccToDecFits, FpuToAasFits, CmpToArplFits, PushToTestFits, XchgToFwaitFits,
     PushfToTestImmFits, StosToRetFits, LesToIretFits, ShiftToCallFits, JmpToGroup3Fits,
     FlagsToGroup5Fits, Zenon DEF OneByte
<1>2. \A t \in TwoByte : TableFits(t)
  BY SystemGroupsFits, MovesToDebugFits, Sse28ToSse50Fits, Sse58ToSse68Fits, Sse70ToSse7EFits,
     JccToShrdFits, FxsaveToLgsFits, MovxToXaddFits, Cmpxchg8ToSseD8Fits, SseE0ToSseF8Fits, Zenon
     DEF TwoByte
<1> SUFFICES ASSUME NEW n \in DOMAIN Families PROVE RowFits(n, Families[n])
  OBVIOUS
<1>3. n \in Names(OneByte) \cup Names(TwoByte)
  BY DEF Families, Names
<1>4. Families[n] = IF n \in Names(OneByte) THEN Row(OneByte, n)
                    ELSE [Row(TwoByte, n) EXCEPT !.map = 2]
  BY DEF Families
<1>5. CASE n \in Names(OneByte)
  BY <1>1, <1>4, <1>5, RowOf
<1>6. CASE n \notin Names(OneByte)
  BY <1>2, <1>3, <1>4, <1>6, RowOf, MapStays
<1> QED BY <1>5, <1>6

(***************************************************************************)
(* Lengths: what a row takes for operand and immediates, and what the      *)
(* decode function reads.                                                  *)
(***************************************************************************)

OperandBytes == [mod : 0 .. 3, rm : 0 .. 7, base5 : BOOLEAN]

LEMMA OperandLengths ==
  ASSUME NEW o \in OperandBytes, NEW a \in BOOLEAN
  PROVE  /\ ParseModrm(o, a) = ScanOperand(o, a) /\ ScanOperand(o, a) \in 0 .. 5
         /\ o.mod = 3 => ScanOperand(o, a) = 0
<1>1. o.mod \in 0 .. 3 /\ o.base5 \in BOOLEAN
  BY DEF OperandBytes
<1>2. CASE o.mod = 0
  <2>1. CASE a
    BY <1>2, <2>1 DEF ParseModrm, ScanOperand, MoffsLength
  <2>2. CASE ~a /\ o.rm = 4
    <3>1. CASE o.base5
      BY <1>2, <2>2, <3>1 DEF ParseModrm, ScanOperand, MoffsLength
    <3>2. CASE ~o.base5
      BY <1>2, <2>2, <3>2 DEF ParseModrm, ScanOperand, MoffsLength
    <3> QED BY <3>1, <3>2
  <2>3. CASE ~a /\ o.rm # 4
    BY <1>2, <2>3 DEF ParseModrm, ScanOperand, MoffsLength
  <2> QED BY <2>1, <2>2, <2>3
<1>3. CASE o.mod = 1
  <2>1. CASE a
    BY <1>3, <2>1 DEF ParseModrm, ScanOperand, MoffsLength
  <2>2. CASE ~a /\ o.rm = 4
    BY <1>3, <2>2 DEF ParseModrm, ScanOperand, MoffsLength
  <2>3. CASE ~a /\ o.rm # 4
    BY <1>3, <2>3 DEF ParseModrm, ScanOperand, MoffsLength
  <2> QED BY <2>1, <2>2, <2>3
<1>4. CASE o.mod = 2
  <2>1. CASE a
    BY <1>4, <2>1 DEF ParseModrm, ScanOperand, MoffsLength
  <2>2. CASE ~a /\ o.rm = 4
    BY <1>4, <2>2 DEF ParseModrm, ScanOperand, MoffsLength
  <2>3. CASE ~a /\ o.rm # 4
    BY <1>4, <2>3 DEF ParseModrm, ScanOperand, MoffsLength
  <2> QED BY <2>1, <2>2, <2>3
<1>5. CASE o.mod = 3
  BY <1>5 DEF ParseModrm, ScanOperand, MoffsLength
<1> QED BY <1>1, <1>2, <1>3, <1>4, <1>5

Wide(c) == IF c THEN 2 ELSE 4

LEMMA ImmLengths ==
  ASSUME NEW c \in BOOLEAN
  PROVE  /\ Wide(c) \in {2, 4}
         /\ ImmLength({}, c) = 0 /\ ImmLength({"b"}, c) = 1 /\ ImmLength({"w"}, c) = 2
         /\ ImmLength({"v"}, c) = Wide(c) /\ ImmLength({"v", "w"}, c) = Wide(c) + 2
         /\ ImmLength({"v", "b"}, c) = Wide(c) + 1 /\ ImmLength({"w", "b"}, c) = 3
<1>1. ~("b" = "w") /\ ~("b" = "v") /\ ~("v" = "w")
  OBVIOUS
<1> QED BY <1>1 DEF ImmLength, Wide

\* What a row, and its decode function, take for operand and immediates.
ScanSize(r, o, a) ==
  CASE r.operand = "modrm" -> 1 + ScanOperand(o, a)
    [] r.operand = "moffs" -> MoffsLength(a)
    [] OTHER -> 0
ReadSize(r, o, a) ==
  CASE r.readOperand = "modrm" -> 1 + ParseModrm(o, a)
    [] r.readOperand = "moffs" -> MoffsLength(a)
    [] r.readOperand = "byte" -> 1
    [] OTHER -> 0
ScanPart(r, o, c, a) == ImmLength(r.imm, c) + ScanSize(r, o, a)
ReadPart(r, o, c, a) == (r.minor + ImmLength(r.readImm, c)) + ReadSize(r, o, a)

\* Operand and immediates are together not longer than these.
LEMMA PlainSizes ==
  ASSUME NEW r, Plain(r), NEW o \in OperandBytes, NEW c \in BOOLEAN, NEW a \in BOOLEAN
  PROVE  /\ ReadPart(r, o, c, a) = ScanPart(r, o, c, a)
         /\ ImmLength(r.imm, c) \in 0 .. 6 /\ ScanSize(r, o, a) \in 0 .. 6
         /\ r.operand = "modrm" => ImmLength(r.imm, c) \in 0 .. 4
         /\ r.operand # "modrm" => ScanSize(r, o, a) \in 0 .. 4
<1>1. ScanSize(r, o, a) = ReadSize(r, o, a) /\ ScanSize(r, o, a) \in 0 .. 6
  <2>1. CASE r.operand = "modrm"
    BY <2>1, OperandLengths DEF Plain, ScanSize, ReadSize
  <2>2. CASE r.operand = "moffs"
    BY <2>2 DEF Plain, ScanSize, ReadSize, MoffsLength
  <2>3. CASE r.operand = "one"
    BY <2>3 DEF Plain, ScanSize, ReadSize
  <2> QED BY <2>1, <2>2, <2>3 DEF Plain
<1>2. r.operand # "modrm" => ScanSize(r, o, a) \in 0 .. 4
  BY DEF Plain, ScanSize, MoffsLength
<1>3. ImmLength(r.imm, c) \in 0 .. 6
  BY ImmLengths DEF Plain, Imms
<1>4. r.operand = "modrm" => ImmLength(r.imm, c) \in 0 .. 4
  BY ImmLengths DEF Plain
<1>5. r.minor = 0 /\ r.readImm = r.imm
  BY DEF Plain
<1> QED BY <1>1, <1>2, <1>3, <1>4, <1>5 DEF ScanPart, ReadPart

\* The sizes one of the two size prefixes selects are not much apart.
LEMMA PlainApart ==
  ASSUME NEW r, Plain(r), NEW o \in OperandBytes, NEW c \in BOOLEAN, NEW a \in BOOLEAN,
         NEW b \in BOOLEAN
  PROVE  /\ ImmLength(r.imm, c) <= ImmLength(r.imm, b) + 2
         /\ ScanSize(r, o, a) <= ScanSize(r, o, b) + 5
<1>1. ImmLength(r.imm, c) <= ImmLength(r.imm, b) + 2
  BY ImmLengths DEF Plain, Imms
<1>2. ScanSize(r, o, a) <= ScanSize(r, o, b) + 5
  <2>1. CASE r.operand = "modrm"
    BY <2>1, OperandLengths DEF ScanSize
  <2>2. CASE r.operand # "modrm"
    BY <2>2, PlainSizes
  <2> QED BY <2>1, <2>2
<1> QED BY <1>1, <1>2

\* What the lengths of a row keep to: the sizes that c and a select are 5 bytes
\* apart at most, and only the families in Short and Long are read otherwise
\* than they are scanned.
Sizes(n, r, o, c, a) ==
  /\ ScanPart(r, o, c, a) \in 0 .. 12 /\ ReadPart(r, o, c, a) \in 0 .. 12
  /\ n \notin Short => ReadPart(r, o, c, a) <= ScanPart(r, o, c, a)
  /\ n \notin Long => ReadPart(r, o, c, a) >= ScanPart(r, o, c, a)
  /\ \A b \in BOOLEAN : /\ ScanPart(r, o, c, a) <= ScanPart(r, o, b, a) + 5
                       /\ ScanPart(r, o, c, a) <= ScanPart(r, o, c, b) + 5

LEMMA SizesOfPlain ==
  ASSUME NEW n, NEW r, Plain(r), NEW o \in OperandBytes, NEW c \in BOOLEAN, NEW a \in BOOLEAN
  PROVE  Sizes(n, r, o, c, a)
<1>1. /\ ReadPart(r, o, c, a) = ScanPart(r, o, c, a)
      /\ ImmLength(r.imm, c) \in 0 .. 6 /\ ScanSize(r, o, a) \in 0 .. 6
  BY PlainSizes
<1>2. ASSUME NEW b \in BOOLEAN
      PROVE  /\ ScanPart(r, o, c, a) <= ScanPart(r, o, b, a) + 5
             /\ ScanPart(r, o, c, a) <= ScanPart(r, o, c, b) + 5
  <2>1. ImmLength(r.imm, b) \in 0 .. 6 /\ ScanSize(r, o, b) \in 0 .. 6
    BY PlainSizes
  <2>2. /\ ImmLength(r.imm, c) <= ImmLength(r.imm, b) + 2
        /\ ScanSize(r, o, a) <= ScanSize(r, o, b) + 5
    BY PlainApart
  <2> QED BY <1>1, <2>1, <2>2 DEF ScanPart
<1>3. ScanPart(r, o, c, a) \in 0 .. 12
  BY <1>1 DEF ScanPart
<1> QED BY <1>1, <1>2, <1>3 DEF Sizes

LEMMA OddParts ==
  ASSUME NEW operand \in {"one", "modrm"}, NEW readOperand \in {"one", "modrm", "byte"},
         NEW imm, NEW readImm, NEW minor,
         NEW r, Differs(r, operand, imm, readOperand, readImm, minor),
         NEW o \in OperandBytes, NEW c \in BOOLEAN, NEW a \in BOOLEAN
  PROVE  /\ ScanPart(r, o, c, a)
              = ImmLength(imm, c) + (IF operand = "modrm" THEN 1 + ScanOperand(o, a) ELSE 0)
         /\ ReadPart(r, o, c, a)
              = (minor + ImmLength(readImm, c))
                + (IF readOperand = "modrm" THEN 1 + ScanOperand(o, a)
                   ELSE IF readOperand = "byte" THEN 1 ELSE 0)
<1>1. ScanSize(r, o, a) = IF operand = "modrm" THEN 1 + ScanOperand(o, a) ELSE 0
  BY DEF Differs, ScanSize
<1>2. ReadSize(r, o, a) = IF readOperand = "modrm" THEN 1 + ScanOperand(o, a)
                          ELSE IF readOperand = "byte" THEN 1 ELSE 0
  BY OperandLengths DEF Differs, ReadSize
<1> QED BY <1>1, <1>2 DEF Differs, ScanPart, ReadPart

LEMMA SizesOf ==
  ASSUME NEW n, NEW r, RowFits(n, r), NEW o \in OperandBytes, n \in ByRegister => o.mod = 3,
         NEW c \in BOOLEAN, NEW a \in BOOLEAN
  PROVE  Sizes(n, r, o, c, a)
<1>1. \A x \in BOOLEAN : /\ ScanOperand(o, x) \in 0 .. 5
                         /\ n \in ByRegister => ScanOperand(o, x) = 0
  BY OperandLengths
<1>2. CASE n \notin OddFamilies
  BY <1>2, SizesOfPlain DEF RowFits
<1>3. CASE n \in ByRegister
  <2>1. Differs(r, "modrm", {}, "byte", {}, 0)
    BY <1>3 DEF RowFits
  <2>2. \A x, y \in BOOLEAN : ScanPart(r, o, x, y) = 1 /\ ReadPart(r, o, x, y) = 1
    BY <1>1, <1>3, <2>1, OddParts, ImmLengths
  <2> QED BY <2>2 DEF Sizes
<1>4. CASE n = "mov_C6_ud"
  <2>1. Differs(r, "modrm", {"b"}, "byte", {}, 0)
    BY <1>4 DEF RowFits
  <2>2. \A x, y \in BOOLEAN : /\ ScanPart(r, o, x, y) = 2 + ScanOperand(o, y)
                               /\ ReadPart(r, o, x, y) = 1
    BY <1>1, <2>1, OddParts, ImmLengths
  <2> QED BY <1>1, <1>4, <2>2, ImmLengths DEF Sizes, Short, Long
<1>5. CASE n = "mov_C7_ud"
  <2>1. Differs(r, "modrm", {"v"}, "byte", {}, 0)
    BY <1>5 DEF RowFits
  <2>2. \A x, y \in BOOLEAN : /\ ScanPart(r, o, x, y) = Wide(x) + (1 + ScanOperand(o, y))
                               /\ ReadPart(r, o, x, y) = 1
    BY <1>1, <2>1, OddParts, ImmLengths
  <2> QED BY <1>1, <1>5, <2>2, ImmLengths DEF Sizes, Short, Long
<1>6. CASE n = "enter"
  <2>1. Differs(r, "one", {"v", "b"}, "one", {"w", "b"}, 0)
    BY <1>6 DEF RowFits
  <2>2. \A x, y \in BOOLEAN : /\ ScanPart(r, o, x, y) = Wide(x) + 1
                               /\ ReadPart(r, o, x, y) = 3
    BY <1>1, <2>1, OddParts, ImmLengths
  <2> QED BY <1>1, <1>6, <2>2, ImmLengths DEF Sizes, Short, Long
<1>7. CASE n = "retf_iw"
  <2>1. Differs(r, "one", {"v"}, "one", {"w"}, 0)
    BY <1>7 DEF RowFits
  <2>2. \A x, y \in BOOLEAN : /\ ScanPart(r, o, x, y) = Wide(x)
                               /\ ReadPart(r, o, x, y) = 2
    BY <1>1, <2>1, OddParts, ImmLengths
  <2> QED BY <1>1, <1>7, <2>2, ImmLengths DEF Sizes, Short, Long
<1>8. CASE n = "mov_cr"
  <2>1. Differs(r, "modrm", {}, "byte", {}, 0)
    BY <1>8 DEF RowFits
  <2>2. \A x, y \in BOOLEAN : /\ ScanPart(r, o, x, y) = 1 + ScanOperand(o, y)
                               /\ ReadPart(r, o, x, y) = 1
    BY <1>1, <2>1, OddParts, ImmLengths
  <2> QED BY <1>1, <1>8, <2>2, ImmLengths DEF Sizes, Short, Long
<1>9. CASE n = "mov_dr"
  <2>1. Differs(r, "one", {"b"}, "byte", {}, 0)
    BY <1>9 DEF RowFits
  <2>2. \A x, y \in BOOLEAN : /\ ScanPart(r, o, x, y) = 1
                               /\ ReadPart(r, o, x, y) = 1
    BY <1>1, <2>1, OddParts, ImmLengths
  <2> QED BY <1>1, <1>9, <2>2, ImmLengths DEF Sizes, Short, Long
<1>10. CASE n = "sse_38"
  <2>1. Differs(r, "one", {}, "modrm", {}, 1)
    BY <1>10 DEF RowFits
  <2>2. \A x, y \in BOOLEAN : /\ ScanPart(r, o, x, y) = 0
                               /\ ReadPart(r, o, x, y) = 2 + ScanOperand(o, y)
    BY <1>1, <2>1, OddParts, ImmLengths
  <2> QED BY <1>1, <1>10, <2>2, ImmLengths DEF Sizes, Short, Long
<1>11. CASE n = "emms"
  <2>1. Differs(r, "modrm", {}, "one", {}, 0)
    BY <1>11 DEF RowFits
  <2>2. \A x, y \in BOOLEAN : /\ ScanPart(r, o, x, y) = 1 + ScanOperand(o, y)
                               /\ ReadPart(r, o, x, y) = 0
    BY <1>1, <2>1, OddParts, ImmLengths
  <2> QED BY <1>1, <1>11, <2>2, ImmLengths DEF Sizes, Short, Long
<1>12. CASE n = "group_8_ud"
  <2>1. Differs(r, "modrm", {"b"}, "modrm", {}, 0)
    BY <1>12 DEF RowFits
  <2>2. \A x, y \in BOOLEAN : /\ ScanPart(r, o, x, y) = 2 + ScanOperand(o, y)
                               /\ ReadPart(r, o, x, y) = 1 + ScanOperand(o, y)
    BY <1>1, <2>1, OddParts, ImmLengths
  <2> QED BY <1>1, <1>12, <2>2, ImmLengths DEF Sizes, Short, Long
<1>13. CASE n = "sse_C2"
  <2>1. Differs(r, "modrm", {}, "modrm", {"b"}, 0)
    BY <1>13 DEF RowFits
  <2>2. \A x, y \in BOOLEAN : /\ ScanPart(r, o, x, y) = 1 + ScanOperand(o, y)
                               /\ ReadPart(r, o, x, y) = 2 + ScanOperand(o, y)
    BY <1>1, <2>1, OddParts, ImmLengths
  <2> QED BY <1>1, <1>13, <2>2, ImmLengths DEF Sizes, Short, Long
<1>14. CASE n = "prefetch"
  <2>1. Differs(r, "one", {}, "modrm", {}, 0)
    BY <1>14 DEF RowFits
  <2>2. \A x, y \in BOOLEAN : /\ ScanPart(r, o, x, y) = 0
                               /\ ReadPart(r, o, x, y) = 1 + ScanOperand(o, y)
    BY <1>1, <2>1, OddParts, ImmLengths
  <2> QED BY <1>1, <1>14, <2>2, ImmLengths DEF Sizes, Short, Long
<1>15. CASE n = "invalid_19"
  <2>1. Differs(r, "modrm", {}, "one", {}, 0)
    BY <1>15 DEF RowFits
  <2>2. \A x, y \in BOOLEAN : /\ ScanPart(r, o, x, y) = 1 + ScanOperand(o, y)
                               /\ ReadPart(r, o, x, y) = 0
    BY <1>1, <2>1, OddParts, ImmLengths
  <2> QED BY <1>1, <1>15, <2>2, ImmLengths DEF Sizes, Short, Long
<1> QED BY <1>2, <1>3, <1>4, <1>5, <1>6, <1>7, <1>8, <1>9, <1>10,
           <1>11, <1>12, <1>13, <1>14, <1>15 DEF OddFamilies
(***************************************************************************)
(* Instructions with their prefixes.  The first prefix, that decode_prefix()*)
(* leaves out of the length, selects one size at most, and so makes an     *)
(* instruction 5 bytes longer than what is checked at most.                *)
(***************************************************************************)

\* What of an instruction a length depends on.
Formed(i) ==
  /\ RowFits(i.name, Families[i.name]) /\ i.operand \in OperandBytes
  /\ i.name \in ByRegister => i.operand.mod = 3
  /\ i.prefixes \in Seq(PrefixNames)
  /\ Families[i.name].map \in {1, 2} /\ Families[i.name].minor \in {0, 1}

LEMMA RowNumbers ==
  ASSUME NEW n, NEW r, RowFits(n, r)
  PROVE  r.map \in {1, 2} /\ r.minor \in {0, 1}
<1>1. CASE n \notin OddFamilies
  BY <1>1 DEF RowFits, Plain
<1>2. CASE n \in OddFamilies
  <2>1. \A operand, imm, readOperand, readImm, minor :
           Differs(r, operand, imm, readOperand, readImm, minor)
             => r.map \in {1, 2} /\ r.minor = minor
    BY DEF Differs
  <2>2. CASE n \in ByRegister
    BY <2>1, <2>2 DEF RowFits
  <2>3. CASE n \in {"mov_C6_ud", "mov_C7_ud", "enter", "retf_iw", "mov_cr"}
    BY <2>1, <2>3 DEF RowFits
  <2>4. CASE n \in {"mov_dr", "sse_38", "emms", "group_8_ud", "sse_C2", "prefetch", "invalid_19"}
    BY <2>1, <2>4 DEF RowFits
  <2> QED BY <1>2, <2>2, <2>3, <2>4 DEF OddFamilies
<1> QED BY <1>1, <1>2

LEMMA InstructionsFormed == \A i \in Instructions : Formed(i)
<1> SUFFICES ASSUME NEW i \in Instructions PROVE Formed(i)
  OBVIOUS
<1>1. /\ i.name \in DOMAIN Families /\ i.operand \in Operands \cup {NoOperand}
      /\ i.prefixes \in PrefixLists /\ i.operand \in OperandsOf(i.name)
  BY DEF Instructions
<1>2. RowFits(i.name, Families[i.name])
  BY <1>1, FamiliesFit
<1>3. i.operand \in OperandBytes
  <2>1. Operands \subseteq OperandBytes
    BY DecodeAssumption DEF OperandBytes
  <2>2. NoOperand \in OperandBytes
    BY DEF OperandBytes, NoOperand
  <2> QED BY <1>1, <2>1, <2>2
<1>4. ASSUME i.name \in ByRegister PROVE i.operand.mod = 3
  <2>1. Families[i.name].operand = "modrm"
    BY <1>2, <1>4 DEF RowFits, Differs
  <2>2. OperandsOf(i.name) = {o \in Operands : o.mod = 3}
    BY <1>4, <2>1 DEF OperandsOf, ByRegister
  <2> QED BY <1>1, <2>2
<1>5. Families[i.name].map \in {1, 2} /\ Families[i.name].minor \in {0, 1}
  BY <1>2, RowNumbers
<1> QED BY <1>1, <1>2, <1>3, <1>4, <1>5, DecodeAssumption DEF Formed

\* The first prefix is one of two that select a size at most.
LEMMA FirstPrefix ==
  ASSUME NEW p \in Seq(PrefixNames), p # <<>>, NEW code \in BOOLEAN
  PROVE  /\ Len(Tail(p)) = Len(p) - 1 /\ Tail(p) \in Seq(PrefixNames)
         /\ \A x \in PrefixNames : Head(p) # x => Is16(code, x, Tail(p)) = Is16(code, x, p)
<1>1. /\ Len(p) \in Nat /\ Len(p) > 0 /\ Len(Tail(p)) = Len(p) - 1 /\ Tail(p) \in Seq(PrefixNames)
      /\ DOMAIN p = 1 .. Len(p) /\ DOMAIN Tail(p) = 1 .. Len(p) - 1
      /\ \A k \in 1 .. Len(p) - 1 : Tail(p)[k] = p[k + 1]
      /\ Head(p) = p[1]
  OBVIOUS
<1>2. ASSUME NEW x \in PrefixNames, Head(p) # x
      PROVE  (\E k \in DOMAIN Tail(p) : Tail(p)[k] = x) <=> (\E k \in DOMAIN p : p[k] = x)
  <2>1. ASSUME NEW k \in DOMAIN p, p[k] = x
        PROVE  \E j \in DOMAIN Tail(p) : Tail(p)[j] = x
    <3>1. k # 1 /\ k - 1 \in 1 .. Len(p) - 1 /\ (k - 1) + 1 = k
      BY <1>1, <1>2, <2>1
    <3>2. Tail(p)[k - 1] = x
      BY <1>1, <2>1, <3>1
    <3> QED BY <1>1, <3>1, <3>2
  <2>2. ASSUME NEW k \in DOMAIN Tail(p), Tail(p)[k] = x
        PROVE  \E j \in DOMAIN p : p[j] = x
    <3>1. k + 1 \in 1 .. Len(p) /\ p[k + 1] = x
      BY <1>1, <2>2
    <3> QED BY <1>1, <3>1
  <2> QED BY <2>1, <2>2
<1> QED BY <1>1, <1>2 DEF Is16

LEMMA NumbersOnly ==
  ASSUME NEW r, NEW o \in OperandBytes, NEW imm, NEW c \in BOOLEAN, NEW a \in BOOLEAN
  PROVE  ImmLength(imm, c) \in Nat /\ ScanSize(r, o, a) \in Nat /\ ReadSize(r, o, a) \in Nat
<1>1. ImmLength(imm, c) \in Nat
  BY DEF ImmLength
<1>2. ScanSize(r, o, a) \in Nat
  BY OperandLengths DEF ScanSize, MoffsLength
<1>3. ReadSize(r, o, a) \in Nat
  BY OperandLengths DEF ReadSize, MoffsLength
<1> QED BY <1>1, <1>2, <1>3

Narrow(code, p) == Is16(code, "66", p)
Near(code, p) == Is16(code, "67", p)
Bytes(i, p) == Len(p) + Families[i.name].map
Scanned(i, p, code) == ScanPart(Families[i.name], i.operand, Narrow(code, p), Near(code, p))
Taken(i, code) ==
  ReadPart(Families[i.name], i.operand, Narrow(code, i.prefixes), Near(code, i.prefixes))

LEMMA LengthParts ==
  ASSUME NEW i, Formed(i), NEW p \in Seq(PrefixNames), NEW code \in BOOLEAN
  PROVE  /\ Bytes(i, p) \in Nat \ {0} /\ Bytes(i, i.prefixes) \in Nat \ {0}
         /\ ScanLength(i, p, code) = Bytes(i, p) + Scanned(i, p, code)
         /\ ReadLength(i, code) = Bytes(i, i.prefixes) + Taken(i, code)
<1> DEFINE r == Families[i.name]
           q == i.prefixes
           scanImm == ImmLength(r.imm, Narrow(code, p))
           scanSize == ScanSize(r, i.operand, Near(code, p))
           readImm == ImmLength(r.readImm, Narrow(code, q))
           readSize == ReadSize(r, i.operand, Near(code, q))
<1>1. /\ Len(p) \in Nat /\ Len(q) \in Nat /\ r.map \in {1, 2} /\ r.minor \in {0, 1}
      /\ i.operand \in OperandBytes
  BY DEF Formed
<1>2. \A s : Narrow(code, s) \in BOOLEAN /\ Near(code, s) \in BOOLEAN
  BY DEF Narrow, Near, Is16
<1>3. ScanLength(i, p, code) = Len(p) + r.map + scanImm + scanSize
  BY DEF ScanLength, ScanSize, Narrow, Near
<1>4. ReadLength(i, code) = Len(q) + r.map + r.minor + readImm + readSize
  BY DEF ReadLength, ReadSize, Narrow, Near
<1>5. scanImm \in Nat /\ scanSize \in Nat /\ readImm \in Nat /\ readSize \in Nat
  BY <1>1, <1>2, NumbersOnly
<1>6. Bytes(i, p) = Len(p) + r.map /\ Bytes(i, q) = Len(q) + r.map
  BY DEF Bytes
<1>7. Scanned(i, p, code) = scanImm + scanSize
  BY DEF Scanned, ScanPart
<1>8. Taken(i, code) = (r.minor + readImm) + readSize
  BY DEF Taken, ReadPart
<1> HIDE DEF scanImm, scanSize, readImm, readSize, r, q
<1>9. Bytes(i, p) \in Nat \ {0} /\ Bytes(i, q) \in Nat \ {0}
  BY <1>1, <1>6
<1>10. ScanLength(i, p, code) = Bytes(i, p) + Scanned(i, p, code)
  BY <1>1, <1>3, <1>5, <1>6, <1>7
<1>11. ReadLength(i, code) = Bytes(i, q) + Taken(i, code)
  BY <1>1, <1>4, <1>5, <1>6, <1>8
<1> QED BY <1>9, <1>10, <1>11 DEF q

\* The lengths of an instruction: those the row and the decode function give,
\* and the row's after the first prefix.
LEMMA Lengths ==
  ASSUME NEW i, Formed(i), NEW code \in BOOLEAN
  PROVE  LET scan == ScanLength(i, i.prefixes, code)
             read == ReadLength(i, code)
         IN  /\ scan \in Nat \ {0} /\ read \in Nat \ {0}
             /\ i.name \notin Short => read <= scan
             /\ i.name \notin Long => read >= scan
             /\ ~TooLong(i, code) => scan <= 21
<1> DEFINE p == i.prefixes
           r == Families[i.name]
           scan == ScanLength(i, p, code)
           read == ReadLength(i, code)
<1>1. /\ p \in Seq(PrefixNames) /\ i.operand \in OperandBytes /\ RowFits(i.name, r)
      /\ i.name \in ByRegister => i.operand.mod = 3
  BY DEF Formed
<1>2. \A s : Narrow(code, s) \in BOOLEAN /\ Near(code, s) \in BOOLEAN
  BY DEF Narrow, Near, Is16
<1>3. \A c, a \in BOOLEAN : Sizes(i.name, r, i.operand, c, a)
  BY <1>1, SizesOf
<1>4. /\ Scanned(i, p, code) \in 0 .. 12 /\ Taken(i, code) \in 0 .. 12
      /\ i.name \notin Short => Taken(i, code) <= Scanned(i, p, code)
      /\ i.name \notin Long => Taken(i, code) >= Scanned(i, p, code)
  BY <1>2, <1>3 DEF Sizes, Scanned, Taken
<1>5. /\ Bytes(i, p) \in Nat \ {0} /\ scan = Bytes(i, p) + Scanned(i, p, code)
      /\ read = Bytes(i, p) + Taken(i, code)
  BY <1>1, LengthParts
<1>6. ASSUME ~TooLong(i, code) PROVE scan <= 21
  <2>1. CASE p = <<>>
    <3>1. Len(p) = 0
      BY <2>1
    <3>2. Bytes(i, p) \in {1, 2}
      BY <3>1, <1>1, RowNumbers DEF Bytes
    <3> QED BY <3>2, <1>4, <1>5
  <2>2. CASE p # <<>>
    <3> DEFINE t == Tail(p)
               R(c, a) == ScanPart(r, i.operand, c, a)
    <3>1. /\ Len(t) = Len(p) - 1 /\ t \in Seq(PrefixNames) /\ Len(p) \in Nat
          /\ \A x \in PrefixNames : Head(p) # x => Is16(code, x, t) = Is16(code, x, p)
      BY <1>1, <2>2, FirstPrefix
    <3>2. Narrow(code, t) = Narrow(code, p) \/ Near(code, t) = Near(code, p)
      BY <3>1 DEF PrefixNames, Narrow, Near
    <3>3. Scanned(i, p, code) <= Scanned(i, t, code) + 5
      <4>1. CASE Narrow(code, t) = Narrow(code, p)
        <5>1. R(Narrow(code, p), Near(code, p)) <= R(Narrow(code, p), Near(code, t)) + 5
          BY <1>2, <1>3 DEF Sizes
        <5> QED BY <4>1, <5>1 DEF Scanned
      <4>2. CASE Near(code, t) = Near(code, p)
        <5>1. R(Narrow(code, p), Near(code, p)) <= R(Narrow(code, t), Near(code, p)) + 5
          BY <1>2, <1>3 DEF Sizes
        <5> QED BY <4>2, <5>1 DEF Scanned
      <4> QED BY <3>2, <4>1, <4>2
    <3>4. /\ Bytes(i, t) = Bytes(i, p) - 1 /\ Bytes(i, t) \in Nat
          /\ ScanLength(i, t, code) = Bytes(i, t) + Scanned(i, t, code)
          /\ Scanned(i, t, code) \in 0 .. 12
      <4>1. r.map \in {1, 2}
        BY DEF Formed
      <4>2. Bytes(i, t) = Bytes(i, p) - 1 /\ Bytes(i, t) \in Nat
        BY <3>1, <4>1, <1>5 DEF Bytes
      <4>3. ScanLength(i, t, code) = Bytes(i, t) + Scanned(i, t, code)
        BY <3>1, LengthParts
      <4>4. Scanned(i, t, code) \in 0 .. 12
        BY <1>2, <1>3 DEF Sizes, Scanned
      <4> QED BY <4>2, <4>3, <4>4
    <3>5. ~(ScanLength(i, t, code) > 15)
      BY <1>6, <2>2 DEF TooLong
    <3> HIDE DEF t, p, scan, R
    <3> QED BY <1>4, <1>5, <3>3, <3>4, <3>5
  <2> QED BY <2>1, <2>2
<1> HIDE DEF scan, read
<1>7. /\ scan \in Nat \ {0} /\ read \in Nat \ {0}
      /\ i.name \notin Short => read <= scan
      /\ i.name \notin Long => read >= scan
  BY <1>4, <1>5
<1> QED BY <1>6, <1>7 DEF scan, read
(***************************************************************************)
(* The trace.                                                              *)
(***************************************************************************)

\* Between two instructions nothing is fetched and there is room for two more
\* in the trace; the loop goes on inside the page only.
BetweenPages ==
  /\ phase \in {"idle", "loop"} => ~fetched /\ insn = None
  /\ phase = "loop" => left > 0
  /\ phase = "decoded" => ~fetched
  /\ phase \in {"loop", "decoded"} => count < MaxTrace - 1

DecodeInv == TypeOK /\ InPage /\ FetchNeeded /\ BetweenPages

\* What is shown of an instruction that is decoded where the loop is.
LEMMA ShownFits ==
  ASSUME NEW i \in Instructions, code16 \in BOOLEAN, NEW crossed \in BOOLEAN
  PROVE  LET s == Shown(i, crossed)
         IN  /\ s.name = i.name /\ s.left = left /\ s.crossed = crossed
             /\ s.length = DecodedLength(i, code16) /\ s.length \in Nat \ {0}
             /\ s.length <= 15 \/ (s.excess /\ s.length <= 21) \/ s.name \in Short
             /\ s.excess <=> ScanLength(i, i.prefixes, code16) > 15
             /\ ScanLength(i, i.prefixes, code16) \in Nat \ {0}
             /\ s.name \notin Short => s.length <= ScanLength(i, i.prefixes, code16)
             /\ s.name \notin Long /\ ~s.refused => s.length >= ScanLength(i, i.prefixes, code16)
<1> DEFINE s == Shown(i, crossed)
           scan == ScanLength(i, i.prefixes, code16)
           read == ReadLength(i, code16)
<1>1. Formed(i)
  BY InstructionsFormed
<1>2. /\ scan \in Nat \ {0} /\ read \in Nat \ {0}
      /\ i.name \notin Short => read <= scan
      /\ i.name \notin Long => read >= scan
      /\ ~TooLong(i, code16) => scan <= 21
  BY <1>1, Lengths
<1>3. /\ s.name = i.name /\ s.left = left /\ s.crossed = crossed
      /\ s.length = DecodedLength(i, code16)
      /\ s.excess <=> scan > 15
      /\ s.refused <=> TooLong(i, code16)
  BY DEF Shown
<1>4. DecodedLength(i, code16) = IF TooLong(i, code16) THEN 1 ELSE read
  BY DEF DecodedLength
<1> HIDE DEF s, scan, read
<1>5. s.length \in Nat \ {0} /\ (s.name \notin Short => s.length <= scan)
  BY <1>2, <1>3, <1>4
<1>6. s.name \notin Long /\ ~s.refused => s.length >= scan
  BY <1>2, <1>3, <1>4
<1>7. s.length <= 15 \/ (s.excess /\ s.length <= 21) \/ s.name \in Short
  BY <1>2, <1>3, <1>4
<1> QED BY <1>2, <1>3, <1>5, <1>6, <1>7 DEF s, scan

LEMMA TraceRoom == MaxTrace \in Nat /\ MaxTrace > 1 /\ \A r \in Rooms : r \in Nat /\ r > 0
BY DecodeAssumption

LEMMA NoneFits == None.length = 0 /\ ~None.crossed
BY DEF None

LEMMA DecodeInvInit == Init => DecodeInv
<1> SUFFICES ASSUME Init PROVE DecodeInv
  OBVIOUS
<1> USE TraceRoom, NoneFits
<1>0. /\ code16 \in BOOLEAN /\ fetched \in BOOLEAN /\ segPrefix \in BOOLEAN
      /\ badLocks \in BOOLEAN /\ cached \in BOOLEAN /\ ~cached
  BY DEF Init
<1>1. TypeOK
  BY <1>0 DEF Init, TypeOK, LengthFits
<1>2. InPage /\ FetchNeeded /\ BetweenPages
  BY DEF Init, InPage, FetchNeeded, BetweenPages
<1> QED BY <1>1, <1>2 DEF DecodeInv

LEMMA DecodeInvNext == DecodeInv /\ [Next]_vars => DecodeInv'
<1> SUFFICES ASSUME DecodeInv, [Next]_vars PROVE DecodeInv'
  OBVIOUS
<1> USE TraceRoom
<1>1. ASSUME NEW r \in Rooms, Begin(r) PROVE DecodeInv'
  BY <1>1 DEF DecodeInv, Begin, TypeOK, LengthFits, InPage, FetchNeeded, BetweenPages
<1>2. CASE EndAtPage
  BY <1>2 DEF DecodeInv, EndAtPage, TypeOK, LengthFits, InPage, FetchNeeded, BetweenPages
<1>3. ASSUME phase = "loop", NEW i \in Instructions, FetchFault(i) PROVE DecodeInv'
  <2> DEFINE s == Shown(i, TRUE)
             scan == ScanLength(i, i.prefixes, code16)
  <2>1. code16 \in BOOLEAN /\ left \in Int /\ left > 0 /\ ~fetched
    BY <1>3 DEF DecodeInv, TypeOK, BetweenPages
  <2>2. /\ s.name = i.name /\ s.left = left /\ s.crossed /\ s.length \in Nat
        /\ s.length <= 15 \/ (s.excess /\ s.length <= 21) \/ s.name \in Short
        /\ scan \in Nat
        /\ s.name \notin Long /\ ~s.refused => s.length >= scan
    BY <2>1, ShownFits
  <2>3. left <= 15 /\ scan > left
    BY <1>3, <2>1 DEF FetchFault, OffPage
  <2>4. /\ phase' = "done" /\ insn' = s
        /\ UNCHANGED <<code16, left, count, fetched, segPrefix, badLocks, cached>>
    BY <1>3 DEF FetchFault
  <2> HIDE DEF s, scan
  <2>5. TypeOK'
    BY <1>3, <2>2, <2>4 DEF DecodeInv, TypeOK, LengthFits
  <2>6. InPage' /\ FetchNeeded'
    BY <2>1, <2>2, <2>3, <2>4 DEF InPage, FetchNeeded
  <2> QED BY <2>4, <2>5, <2>6 DEF DecodeInv, BetweenPages
<1>4. ASSUME phase = "loop", NEW i \in Instructions, Decoded(i) PROVE DecodeInv'
  <2> DEFINE s == Shown(i, fetched')
             scan == ScanLength(i, i.prefixes, code16)
  <2>1. /\ code16 \in BOOLEAN /\ left \in Int /\ left > 0 /\ ~fetched /\ fetched \in BOOLEAN
        /\ count \in 0 .. MaxTrace - 1 /\ count < MaxTrace - 1
        /\ segPrefix \in BOOLEAN /\ badLocks \in BOOLEAN
    BY <1>4 DEF DecodeInv, TypeOK, BetweenPages
  <2>2. fetched' \in BOOLEAN /\ (fetched' <=> OffPage(i))
    <3>1. CASE Fetch(i)
      BY <3>1 DEF Fetch
    <3>2. CASE Read(i)
      BY <2>1, <3>2 DEF Read
    <3> QED BY <1>4, <3>1, <3>2 DEF Decoded
  <2>3. /\ s.name = i.name /\ s.left = left /\ s.crossed = fetched' /\ s.length \in Nat \ {0}
        /\ s.length = DecodedLength(i, code16)
        /\ s.length <= 15 \/ (s.excess /\ s.length <= 21) \/ s.name \in Short
        /\ s.excess <=> scan > 15
        /\ scan \in Nat
        /\ s.name \notin Short => s.length <= scan
        /\ s.name \notin Long /\ ~s.refused => s.length >= scan
    BY <2>1, <2>2, ShownFits
  <2>4. fetched' <=> left <= 15 /\ scan > left
    BY <2>1, <2>2 DEF OffPage
  <2>5. /\ insn' = s /\ left' = left - s.length /\ count' = count + 1 /\ code16' = code16
        /\ phase' = IF fetched' \/ EndsTrace(i, code16) \/ Full(count + 1)
                    THEN "done" ELSE "decoded"
        /\ cached' = (phase' = "done" /\ ~fetched')
        /\ segPrefix' = Segments(i) /\ badLocks' = (badLocks \/ (BadLock(i) /\ Has(i, "seg")))
    BY <1>4, <2>3 DEF Decoded
  <2>6. segPrefix' \in BOOLEAN /\ badLocks' \in BOOLEAN
    <3>1. badLocks' \in BOOLEAN
      BY <2>5
    <3>2. Segments(i) \in BOOLEAN
      BY <2>1 DEF Segments, Has
    <3> QED BY <2>5, <3>1, <3>2
  <2>7. count' \in 0 .. MaxTrace - 1 /\ (phase' = "decoded" => count' < MaxTrace - 1)
    BY <2>1, <2>5 DEF Full
  <2> HIDE DEF s, scan
  <2>8. TypeOK'
    BY <2>1, <2>2, <2>3, <2>5, <2>6, <2>7 DEF TypeOK, LengthFits
  <2>9. InPage'
    BY <2>1, <2>3, <2>4, <2>5 DEF InPage
  <2>10. FetchNeeded'
    BY <2>1, <2>3, <2>4, <2>5 DEF FetchNeeded
  <2>11. BetweenPages'
    BY <2>5, <2>7 DEF BetweenPages
  <2> QED BY <2>8, <2>9, <2>10, <2>11 DEF DecodeInv
<1>5. CASE Continue
  BY <1>5, NoneFits
  DEF DecodeInv, Continue, TypeOK, LengthFits, InPage, FetchNeeded, BetweenPages
<1>6. CASE Executed
  <2>0. /\ code16' \in BOOLEAN /\ fetched' \in BOOLEAN /\ segPrefix' \in BOOLEAN
        /\ badLocks' \in BOOLEAN /\ cached' \in BOOLEAN /\ ~cached'
    BY <1>6 DEF DecodeInv, TypeOK, Executed
  <2>1. TypeOK'
    BY <1>6, <2>0, NoneFits DEF Executed, TypeOK, LengthFits
  <2>2. InPage' /\ FetchNeeded' /\ BetweenPages'
    BY <1>6, NoneFits DEF Executed, InPage, FetchNeeded, BetweenPages
  <2> QED BY <2>1, <2>2 DEF DecodeInv
<1>7. CASE UNCHANGED vars
  BY <1>7 DEF vars, DecodeInv, TypeOK, LengthFits, InPage, FetchNeeded, BetweenPages
<1> QED BY <1>1, <1>2, <1>3, <1>4, <1>5, <1>6, <1>7 DEF Next

LEMMA DecodeInvAlways == Spec => []DecodeInv
<1> QED BY DecodeInvInit, DecodeInvNext, PTL DEF Spec

\* The types of the decoder; a trace is never longer than MAX_TRACE_SIZE - 1, and
\* no instruction longer than 15 bytes but those LengthFits names
\* (cpu_decode(), decode_prefix()).
THEOREM DecodeTypeCorrect == Spec => []TypeOK
<1>1. DecodeInv => TypeOK
  BY DEF DecodeInv
<1> QED BY <1>1, DecodeInvAlways, PTL

\* A trace decoded from its page holds no byte of the next one: what
\* find_instruction_length() says of the bytes at the end of the page is never
\* less than what the decode functions read, whatever the prefixes and operands,
\* but for two families and for instructions that are too long (cpu_decode()).
THEOREM TracesInPage == Spec => []InPage
<1>1. DecodeInv => InPage
  BY DEF DecodeInv
<1> QED BY <1>1, DecodeInvAlways, PTL

\* The next page is read, and faults, only for an instruction that reaches it,
\* but for the families whose row says too much (cpu_decode()).
THEOREM FetchesNeeded == Spec => []FetchNeeded
<1>1. DecodeInv => FetchNeeded
  BY DEF DecodeInv
<1> QED BY <1>1, DecodeInvAlways, PTL

\* A segment prefix outlives its instruction only where a LOCK prefix was refused
\* (decode_prefix()).
THEOREM SegmentsEnd == Spec => []SegmentsDropped
<1>1. Init => SegmentsDropped
  BY DEF Init, SegmentsDropped
<1>2. SegmentsDropped /\ [Next]_vars => SegmentsDropped'
  <2> SUFFICES ASSUME SegmentsDropped, [Next]_vars PROVE SegmentsDropped'
    OBVIOUS
  <2>1. ASSUME NEW i \in Instructions, Decoded(i) PROVE SegmentsDropped'
    BY <2>1 DEF SegmentsDropped, Decoded, Segments
  <2>2. CASE UNCHANGED <<segPrefix, badLocks>>
    BY <2>2 DEF SegmentsDropped
  <2> QED BY <2>1, <2>2 DEF Next, Begin, EndAtPage, FetchFault, Continue, Executed, vars
<1> QED BY <1>1, <1>2, PTL DEF Spec

(***************************************************************************)
(* The three together.                                                     *)
(***************************************************************************)
\* Each of the parts runs as it does alone, or rests.
LEMMA PartsAlone == PartSpec => Spec /\ KbdSpec /\ FdcSpec
<1>1. PartInit => Init /\ KbdInit /\ FdcInit
  <2>1. DecoderIdle => Init
    BY DEF DecoderIdle, Init
  <2> QED BY <2>1 DEF PartInit, KeyboardIdle, FloppyIdle
<1>2. [PartNext]_<<part, vars, kbdVars, fdcVars>>
        => [Next]_vars /\ [KbdNext]_kbdVars /\ [FdcNext]_fdcVars
  BY DEF PartNext
<1> QED BY <1>1, <1>2, PTL DEF PartSpec, Spec, KbdSpec, FdcSpec

\* The types of keyboard controller, decoder and floppy controller, whichever of
\* them runs: no queue, trace, command or track is longer than its array, and
\* the flags are in step with what they stand for.
THEOREM PartsTypeCorrect == PartSpec => []TypesOK
<1>1. TypeOK /\ KbdTypeOK /\ FdcTypeOK => TypesOK
  BY DEF TypesOK
<1> QED BY <1>1, PartsAlone, DecodeTypeCorrect, KbdTypeCorrect, FdcTypeCorrect, PTL
=============================================================================
