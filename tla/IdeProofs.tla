------------------------------ MODULE IdeProofs ------------------------------
(***************************************************************************)
(* What holds of the disk controllers for every set of channels and        *)
(* drives, every geometry and every use: types, then control, then where   *)
(* data go.  No sector gets what belongs to another, and a command that    *)
(* ends without an error has moved all its sectors.                        *)
(***************************************************************************)
EXTENDS Ide, SequenceTheorems, FiniteSetTheorems, TLAPS

-----------------------------------------------------------------------------
(* Numbers.                                                                 *)

\* What the constants are, one by one.
LEMMA Constants ==
    /\ Byte \in Nat /\ Byte >= 2
    /\ SectorSize \in Nat /\ SectorSize >= 1
    /\ NumSectors \in Nat /\ NumSectors >= 1
    /\ BlockSectors \in Nat /\ BlockSectors >= 1
    /\ Heads \in Nat /\ Heads >= 1 /\ Heads <= 16
    /\ SectorsPerTrack \in Nat /\ SectorsPerTrack >= 1 /\ SectorsPerTrack < Byte
    /\ SectorAccesses \in Nat /\ SectorAccesses >= 1
<1>1. {Byte, SectorSize, NumSectors, BlockSectors, Heads, SectorsPerTrack, SectorAccesses}
         \subseteq Nat \ {0}
  BY IdeAssumption
<1>2. Heads <= 16 /\ SectorsPerTrack < Byte
  BY IdeAssumption
<1> QED  BY <1>1, <1>2

\* What a number's division by a positive one leaves.
LEMMA Division ==
    ASSUME NEW p \in Int, NEW b \in Nat, b >= 1
    PROVE  /\ p \div b \in Int /\ p % b \in 0 .. b - 1
           /\ p = b * (p \div b) + (p % b)
           /\ p >= 0 => p \div b >= 0
OBVIOUS

\* There is only one way to divide.
LEMMA DivisionUnique ==
    ASSUME NEW b \in Nat, b >= 1, NEW q \in Int, NEW r \in 0 .. b - 1
    PROVE  (b * q + r) \div b = q /\ (b * q + r) % b = r
OBVIOUS

\* A quotient is below what the number is below.
LEMMA QuotientBound ==
    ASSUME NEW p \in Nat, NEW b \in Nat, b >= 1, NEW m \in Nat, p < b * m
    PROVE  p \div b \in Nat /\ p \div b < m
OBVIOUS

\* Two divisions are one by the product.
LEMMA Nested ==
    ASSUME NEW p \in Nat, NEW b \in Nat, b >= 1, NEW m \in Nat, m >= 1
    PROVE  (p \div b) \div m = p \div (b * m)
OBVIOUS

\* What a byte is.
LEMMA LowIsByte ==
    ASSUME NEW p \in Int
    PROVE  Low(p) \in 0 .. Byte - 1 /\ Upper(p) \in Int /\ p = Byte * Upper(p) + Low(p)
           /\ (p >= 0 => Upper(p) >= 0)
BY Constants, Division DEF Low, Upper

\* A number below Byte is its own low byte.
LEMMA LowOfByte ==
    ASSUME NEW p \in 0 .. Byte - 1
    PROVE  Low(p) = p /\ Upper(p) = 0
BY Constants DEF Low, Upper

\* Two bytes make a register, and the register gives them back.
LEMMA TwoBytes ==
    ASSUME NEW l \in 0 .. Byte - 1, NEW u \in 0 .. Byte - 1
    PROVE  /\ l + u * Byte \in Register
           /\ u * Byte + l \in Register
           /\ Low(l + u * Byte) = l /\ Upper(l + u * Byte) = u
           /\ Low(u * Byte + l) = l /\ Upper(u * Byte + l) = u
<1>1. l + u * Byte = Byte * u + l /\ u * Byte + l = Byte * u + l
  BY Constants
<1>2. Low(Byte * u + l) = l /\ Upper(Byte * u + l) = u
  BY Constants, DivisionUnique DEF Low, Upper
<1>3. Byte * u + l \in Register
  <2>1. Byte * u <= Byte * (Byte - 1)
    BY Constants
  <2>2. Byte * (Byte - 1) = Byte * Byte - Byte
    BY Constants
  <2> QED  BY <2>1, <2>2, Constants DEF Register
<1> QED  BY <1>1, <1>2, <1>3

\* The bytes of a number.
LEMMA DigitType ==
    ASSUME NEW p \in Int, NEW i \in 0 .. 5
    PROVE  Shifted(p, i) \in Int /\ Digit(p, i) \in 0 .. Byte - 1
<1>1. Upper(p) \in Int /\ Upper(Upper(p)) \in Int /\ Upper(Upper(Upper(p))) \in Int
  BY LowIsByte
<1>2. Upper(Upper(Upper(Upper(p)))) \in Int /\ Upper(Upper(Upper(Upper(Upper(p))))) \in Int
  BY <1>1, LowIsByte
<1>3. Shifted(p, i) \in Int
  BY <1>1, <1>2 DEF Shifted
<1> QED  BY <1>3, LowIsByte DEF Digit

\* A number is put together from its three low bytes and the rest.
LEMMA ThreeBytes ==
    ASSUME NEW p \in Nat, NEW m \in Nat, m >= 1, p < Byte * Byte * Byte * m
    PROVE  /\ Shifted(p, 3) \in 0 .. m - 1
           /\ p = Digit(p, 0) + Byte * (Digit(p, 1) + Byte * (Digit(p, 2) + Byte * Shifted(p, 3)))
<1>1. /\ Shifted(p, 0) = p /\ Shifted(p, 1) = Upper(p) /\ Shifted(p, 2) = Upper(Upper(p))
      /\ Shifted(p, 3) = Upper(Upper(Upper(p)))
  BY DEF Shifted
<1>2. Upper(p) \in Nat /\ p = Byte * Upper(p) + Low(p)
  BY LowIsByte
<1>3. Upper(Upper(p)) \in Nat /\ Upper(p) = Byte * Upper(Upper(p)) + Low(Upper(p))
  BY <1>2, LowIsByte
<1>4. /\ Upper(Upper(Upper(p))) \in Nat
      /\ Upper(Upper(p)) = Byte * Upper(Upper(Upper(p))) + Low(Upper(Upper(p)))
  BY <1>3, LowIsByte
<1>5. Upper(p) < Byte * (Byte * m)
  <2>1. p < Byte * (Byte * (Byte * m))
    BY Constants
  <2> QED  BY <2>1, Constants, QuotientBound DEF Upper
<1>6. Upper(Upper(p)) < Byte * m
  <2> DEFINE q == Upper(p)
             n == Byte * m
  <2>1. q \in Nat /\ n \in Nat /\ q < Byte * n
    BY <1>2, <1>5, Constants
  <2> HIDE DEF q, n
  <2>2. q \div Byte < n
    BY <2>1, Constants, QuotientBound
  <2> QED  BY <2>2 DEF q, n, Upper
<1>7. Upper(Upper(Upper(p))) < m
  BY <1>3, <1>6, Constants, QuotientBound DEF Upper
<1>8. Low(p) \in Int /\ Low(Upper(p)) \in Int /\ Low(Upper(Upper(p))) \in Int
  BY <1>2, <1>3, LowIsByte
<1>9. p = Low(p) + Byte * (Low(Upper(p)) + Byte * (Low(Upper(Upper(p)))
                                                    + Byte * Upper(Upper(Upper(p)))))
  BY <1>2, <1>3, <1>4, <1>8, Constants
<1> QED  BY <1>1, <1>4, <1>7, <1>9 DEF Digit

\* A sector's cylinder, head and number give the sector back.
LEMMA Geometry ==
    ASSUME NEW p \in Nat, p < Byte * Byte * Heads * SectorsPerTrack
    PROVE  LET cylinder == p \div (Heads * SectorsPerTrack)
               head == (p \div SectorsPerTrack) % Heads
           IN  /\ cylinder \in Nat /\ head \in 0 .. Heads - 1
               /\ cylinder = Digit(cylinder, 0) + Byte * Digit(cylinder, 1)
               /\ p = SectorsPerTrack * (Heads * cylinder + head) + (p % SectorsPerTrack)
<1> DEFINE track == p \div SectorsPerTrack
           cylinder == p \div (Heads * SectorsPerTrack)
<1>1. track \in Nat /\ p = SectorsPerTrack * track + (p % SectorsPerTrack)
  BY Constants, Division
<1>2. cylinder = track \div Heads
  <2>1. track \div Heads = p \div (SectorsPerTrack * Heads)
    BY ZenonT(40), Constants, Nested
  <2>2. SectorsPerTrack * Heads = Heads * SectorsPerTrack
    BY Constants
  <2> QED  BY <2>1, <2>2
<1>3. track < Heads * (Byte * Byte)
  <2>1. p < SectorsPerTrack * (Heads * (Byte * Byte))
    BY Constants
  <2>2. Heads * (Byte * Byte) \in Nat
    BY Constants
  <2> QED  BY <2>1, <2>2, Constants, QuotientBound
<1>4. cylinder \in Nat /\ cylinder < Byte * Byte
  <2>1. Byte * Byte \in Nat
    BY Constants
  <2> HIDE DEF track
  <2> QED  BY <2>1, <1>1, <1>2, <1>3, Constants, QuotientBound
<1>5. track = Heads * cylinder + (track % Heads) /\ track % Heads \in 0 .. Heads - 1
  <2> HIDE DEF track, cylinder
  <2> QED  BY <1>1, <1>2, Constants, Division
<1>6. cylinder = Digit(cylinder, 0) + Byte * Digit(cylinder, 1)
  <2> HIDE DEF cylinder
  <2>1. Digit(cylinder, 0) = Low(cylinder) /\ Digit(cylinder, 1) = Low(Upper(cylinder))
    BY DEF Digit, Shifted
  <2>2. Upper(cylinder) \in 0 .. Byte - 1
    BY <1>4, Constants, QuotientBound DEF Upper
  <2>3. cylinder = Byte * Upper(cylinder) + Low(cylinder) /\ Low(cylinder) \in Int
    BY <1>4, LowIsByte
  <2> QED  BY <2>1, <2>2, <2>3, LowOfByte, Constants
<1> HIDE DEF track, cylinder
<1>7. p = SectorsPerTrack * (Heads * cylinder + (track % Heads)) + (p % SectorsPerTrack)
  BY <1>1, <1>5
<1> QED  BY <1>4, <1>5, <1>6, <1>7 DEF track, cylinder

-----------------------------------------------------------------------------
(* The task file.                                                           *)

\* Two states of a channel that differ in its address registers at most.
SameButAddress(x, y) ==
    /\ y.selected = x.selected /\ y.lba = x.lba /\ y.lba48 = x.lba48 /\ y.count = x.count
    /\ y.status = x.status /\ y.command = x.command /\ y.buffer = x.buffer
    /\ y.position = x.position /\ y.length = x.length /\ y.multiple = x.multiple
    /\ y.table = x.table /\ y.irq = x.irq /\ y.srst = x.srst /\ y.nien = x.nien

\* What ide_set_sector_offset() leaves alone.
LEMMA WithOffsetKeeps ==
    ASSUME NEW x \in Channel, NEW l \in BOOLEAN, NEW p \in Int
    PROVE  /\ WithOffset(x, l, p) \in Channel
           /\ SameButAddress(x, WithOffset(x, l, p))
<1> DEFINE cylinder == p \div (Heads * SectorsPerTrack)
<1>0. cylinder \in Int /\ p \div SectorsPerTrack \in Int
  <2>1. Heads * SectorsPerTrack \in Nat /\ Heads * SectorsPerTrack >= 1
    BY Constants
  <2> QED  BY <2>1, Constants, Division
<1> HIDE DEF cylinder
<1>1. \A i \in 0 .. 5 : Digit(p, i) \in 0 .. Byte - 1 /\ Digit(cylinder, i) \in 0 .. Byte - 1
  BY <1>0, DigitType
<1>2. /\ Digit(p, 0) + Digit(p, 3) * Byte \in Register
      /\ Digit(p, 1) + Digit(p, 4) * Byte \in Register
      /\ Digit(p, 2) + Digit(p, 5) * Byte \in Register
  BY <1>1, TwoBytes
<1>3. 0 .. Byte - 1 \subseteq Register
  BY Constants DEF Register
<1>4. Shifted(p, 3) % 16 \in 0 .. 15
  <2>1. Shifted(p, 3) \in Int
    BY DigitType
  <2> QED  BY <2>1
<1>5. /\ ((p \div SectorsPerTrack) % Heads) % 16 \in 0 .. 15
      /\ (p % SectorsPerTrack) + 1 \in 0 .. Byte - 1
  <2>1. (p \div SectorsPerTrack) % Heads \in Int
    BY <1>0, Constants, Division
  <2>2. p % SectorsPerTrack \in 0 .. SectorsPerTrack - 1
    BY Constants, Division
  <2> QED  BY <2>1, <2>2, Constants
<1>6. CASE l
  <2> DEFINE n == Digit(p, 0) + Digit(p, 3) * Byte
             lo == Digit(p, 1) + Digit(p, 4) * Byte
             hi == Digit(p, 2) + Digit(p, 5) * Byte
  <2>1. n \in Register /\ lo \in Register /\ hi \in Register
    BY <1>2, <1>3
  <2>2. WithOffset(x, l, p) = [x EXCEPT !.number = n, !.low = lo, !.high = hi]
    BY <1>6 DEF WithOffset
  <2> HIDE DEF n, lo, hi
  <2>3. WithOffset(x, l, p) \in Channel
    BY ZenonT(40), <2>1, <2>2 DEF Channel
  <2>4. SameButAddress(x, WithOffset(x, l, p))
    BY <2>2 DEF Channel, SameButAddress
  <2> QED  BY <2>3, <2>4
<1>7. CASE ~l /\ x.lba
  <2> DEFINE n == Digit(p, 0)
             lo == Digit(p, 1)
             hi == Digit(p, 2)
             h == Shifted(p, 3) % 16
  <2>1. n \in Register /\ lo \in Register /\ hi \in Register /\ h \in 0 .. 15
    BY <1>1, <1>3, <1>4
  <2>2. WithOffset(x, l, p) = [x EXCEPT !.number = n, !.low = lo, !.high = hi, !.head = h]
    BY <1>7 DEF WithOffset
  <2> HIDE DEF n, lo, hi, h
  <2>3. WithOffset(x, l, p) \in Channel
    BY ZenonT(40), <2>1, <2>2 DEF Channel
  <2>4. SameButAddress(x, WithOffset(x, l, p))
    BY <2>2 DEF Channel, SameButAddress
  <2> QED  BY <2>3, <2>4
<1>8. CASE ~l /\ ~x.lba
  <2> DEFINE n == (p % SectorsPerTrack) + 1
             lo == Digit(cylinder, 0)
             hi == Digit(cylinder, 1)
             h == ((p \div SectorsPerTrack) % Heads) % 16
  <2>1. n \in Register /\ lo \in Register /\ hi \in Register /\ h \in 0 .. 15
    BY <1>1, <1>3, <1>5
  <2>2. WithOffset(x, l, p) = [x EXCEPT !.low = lo, !.high = hi, !.head = h, !.number = n]
    BY <1>8 DEF WithOffset, cylinder
  <2> HIDE DEF n, lo, hi, h
  <2>3. WithOffset(x, l, p) \in Channel
    BY ZenonT(40), <2>1, <2>2 DEF Channel
  <2>4. SameButAddress(x, WithOffset(x, l, p))
    BY <2>2 DEF Channel, SameButAddress
  <2> QED  BY <2>3, <2>4
<1> QED  BY <1>6, <1>7, <1>8

\* A sector's place that is stored in the registers is read back from them.
LEMMA OffsetStored ==
    ASSUME NEW x \in Channel, NEW l \in BOOLEAN, NEW p \in Nat,
           p < Reach(IF l THEN "lba48" ELSE IF x.lba THEN "lba28" ELSE "chs"),
           l => Upper(x.count) = 0
    PROVE  Offset(WithOffset(x, l, p), l) = p
<1> DEFINE y == WithOffset(x, l, p)
<1>1. \A i \in 0 .. 5 : Digit(p, i) \in 0 .. Byte - 1
  <2>1. p \in Int
    OBVIOUS
  <2> QED  BY <2>1, DigitType
<1>2. CASE l
  <2>1. p < Byte * Byte * Byte * 1
    BY <1>2, Constants DEF Reach
  <2>2. Shifted(p, 3) = 0
    BY <2>1, ThreeBytes
  <2>3. Digit(p, 3) = 0 /\ Digit(p, 4) = 0 /\ Digit(p, 5) = 0
    <3>1. Upper(Upper(Upper(p))) = 0
      BY <2>2 DEF Shifted
    <3>2. Low(0) = 0 /\ Upper(0) = 0
      BY LowOfByte, Constants
    <3> QED  BY <3>1, <3>2 DEF Digit, Shifted
  <2>4. /\ y.number = Digit(p, 0) + Digit(p, 3) * Byte
        /\ y.low = Digit(p, 1) + Digit(p, 4) * Byte
        /\ y.high = Digit(p, 2) + Digit(p, 5) * Byte
        /\ y.count = x.count
    BY <1>2 DEF WithOffset, Channel
  <2>5. /\ Low(y.number) = Digit(p, 0) /\ Low(y.low) = Digit(p, 1) /\ Low(y.high) = Digit(p, 2)
        /\ Upper(y.low) = 0 /\ Upper(y.high) = 0 /\ Upper(y.count) = 0
    BY <2>3, <2>4, <1>1, <1>2, TwoBytes
  <2>6. Offset(y, l) = Digit(p, 0) + Byte * (Digit(p, 1) + Byte * (Digit(p, 2)
                                   + Byte * (0 + Byte * (0 + Byte * 0))))
    BY <2>5, <1>2 DEF Offset
  <2>7. p = Digit(p, 0) + Byte * (Digit(p, 1) + Byte * (Digit(p, 2) + Byte * 0))
    BY <2>1, <2>2, ThreeBytes
  <2> QED  BY <2>6, <2>7, <1>1, Constants
<1>3. CASE ~l /\ x.lba
  <2>1. p < Byte * Byte * Byte * 16
    BY <1>3, Constants DEF Reach
  <2>2. Shifted(p, 3) \in 0 .. 15
    <3>1. Shifted(p, 3) \in 0 .. 16 - 1
      <4>1. 16 \in Nat /\ 16 >= 1
        OBVIOUS
      <4> QED  BY ZenonT(40), <2>1, <4>1, ThreeBytes
    <3> QED  BY <3>1
  <2>3. /\ y.number = Digit(p, 0) /\ y.low = Digit(p, 1) /\ y.high = Digit(p, 2)
        /\ y.head = Shifted(p, 3) /\ y.lba
    <3>1. Shifted(p, 3) % 16 = Shifted(p, 3)
      BY <2>2
    <3>2. y = [x EXCEPT !.number = Digit(p, 0), !.low = Digit(p, 1),
                        !.high = Digit(p, 2), !.head = Shifted(p, 3) % 16]
      BY <1>3 DEF WithOffset
    <3> QED  BY <1>3, <3>1, <3>2 DEF Channel
  <2>4. Low(y.number) = Digit(p, 0) /\ Low(y.low) = Digit(p, 1) /\ Low(y.high) = Digit(p, 2)
    BY <2>3, <1>1, LowOfByte
  <2> QED  BY <2>1, <2>3, <2>4, <1>3, ThreeBytes DEF Offset
<1>4. CASE ~l /\ ~x.lba
  <2> DEFINE cylinder == p \div (Heads * SectorsPerTrack)
             head == (p \div SectorsPerTrack) % Heads
  <2>1. p < Byte * Byte * Heads * SectorsPerTrack
    BY <1>4 DEF Reach
  <2>2. /\ cylinder \in Nat /\ head \in 0 .. Heads - 1
        /\ cylinder = Digit(cylinder, 0) + Byte * Digit(cylinder, 1)
        /\ p = SectorsPerTrack * (Heads * cylinder + head) + (p % SectorsPerTrack)
    BY <2>1, Geometry
  <2>3. p % SectorsPerTrack \in 0 .. SectorsPerTrack - 1
    BY Constants, Division
  <2> HIDE DEF cylinder
  <2> HIDE DEF head
  <2>4. head % 16 = head
    BY <2>2, Constants
  <2>5. /\ y.number = (p % SectorsPerTrack) + 1 /\ ~y.lba
        /\ y.low = Digit(cylinder, 0) /\ y.high = Digit(cylinder, 1) /\ y.head = head
    BY <1>4, <2>4 DEF WithOffset, Channel, cylinder, head
  <2>6. /\ Low(y.number) = (p % SectorsPerTrack) + 1
        /\ Low(y.low) = Digit(cylinder, 0) /\ Low(y.high) = Digit(cylinder, 1)
    <3>1. Digit(cylinder, 0) \in 0 .. Byte - 1 /\ Digit(cylinder, 1) \in 0 .. Byte - 1
      BY <2>2, DigitType
    <3>2. (p % SectorsPerTrack) + 1 \in 0 .. Byte - 1
      BY <2>3, Constants
    <3> QED  BY <3>1, <3>2, <2>5, LowOfByte
  <2>7. Offset(y, l) = SectorsPerTrack * (Heads * cylinder + head)
                       + ((p % SectorsPerTrack) + 1) - 1
    BY <1>4, <2>2, <2>5, <2>6 DEF Offset
  <2>8. SectorsPerTrack * (Heads * cylinder + head) \in Int
    BY <2>2, Constants
  <2> QED  BY <2>2, <2>3, <2>7, <2>8
<1> QED  BY <1>2, <1>3, <1>4

\* The address that the registers hold is a number.
LEMMA OffsetIsNumber ==
    ASSUME NEW x \in Channel, NEW l \in BOOLEAN
    PROVE  Offset(x, l) \in Int
<1>1. /\ x.number \in Int /\ x.low \in Int /\ x.high \in Int /\ x.count \in Int
      /\ x.head \in Int
  BY Constants DEF Channel, Register
<1>2. x.lba \in BOOLEAN
  BY DEF Channel
<1>3. /\ Low(x.number) \in Int /\ Low(x.low) \in Int /\ Low(x.high) \in Int
      /\ Upper(x.count) \in Int /\ Upper(x.low) \in Int /\ Upper(x.high) \in Int
  BY <1>1, LowIsByte
<1>4. CASE l
  <2>1. Byte * (Upper(x.low) + Byte * Upper(x.high)) \in Int
    BY <1>3, Constants
  <2>2. Byte * (Upper(x.count) + Byte * (Upper(x.low) + Byte * Upper(x.high))) \in Int
    BY <1>3, <2>1, Constants
  <2>3. Byte * (Low(x.low) + Byte * (Low(x.high)
           + Byte * (Upper(x.count) + Byte * (Upper(x.low) + Byte * Upper(x.high))))) \in Int
    BY <1>3, <2>2, Constants
  <2> QED  BY <1>3, <1>4, <2>3 DEF Offset
<1>5. CASE ~l /\ x.lba
  <2>1. Byte * (Low(x.low) + Byte * (Low(x.high) + Byte * x.head)) \in Int
    BY <1>1, <1>3, Constants
  <2> QED  BY <1>3, <1>5, <2>1 DEF Offset
<1>6. CASE ~l /\ ~x.lba
  <2>1. SectorsPerTrack * (Heads * (Low(x.low) + Byte * Low(x.high)) + x.head) \in Int
    BY <1>1, <1>3, Constants
  <2> QED  BY <1>3, <1>6, <2>1 DEF Offset
<1> QED  BY <1>2, <1>4, <1>5, <1>6

\* What a sector that is done leaves alone.
LEMMA AdvancedKeeps ==
    ASSUME NEW x \in Channel
    PROVE  /\ Advanced(x) \in Channel
           /\ Advanced(x).count = (x.count - 1) % (Byte * Byte)
           /\ SameButAddress([x EXCEPT !.count = (@ - 1) % (Byte * Byte)], Advanced(x))
<1> DEFINE n == (x.count - 1) % (Byte * Byte)
           y == [x EXCEPT !.count = n]
<1>1. n \in Register
  <2>1. Byte * Byte \in Nat /\ Byte * Byte >= 1
    BY Constants
  <2>2. x.count - 1 \in Int
    BY Constants DEF Channel, Register
  <2> QED  BY <2>1, <2>2, Division DEF Register
<1> HIDE DEF n
<1>2. y \in Channel /\ y.count = n
  BY <1>1 DEF Channel
<1>3. Offset(y, y.lba48) + 1 \in Int /\ y.lba48 = x.lba48 /\ x.lba48 \in BOOLEAN
  <2>1. y.lba48 = x.lba48 /\ x.lba48 \in BOOLEAN
    BY DEF Channel
  <2> HIDE DEF y
  <2> QED  BY <2>1, <1>2, OffsetIsNumber
<1>4. Advanced(x) = WithOffset(y, x.lba48, Offset(y, x.lba48) + 1)
  <2>1. Advanced(x) = WithOffset(y, y.lba48, Offset(y, y.lba48) + 1)
    BY DEF Advanced, n
  <2> QED  BY <1>3, <2>1
<1> HIDE DEF y
<1>5. Advanced(x) \in Channel /\ SameButAddress(y, Advanced(x))
  BY <1>2, <1>3, <1>4, WithOffsetKeeps
<1>6. Advanced(x).count = n
  BY <1>2, <1>5 DEF SameButAddress
<1> QED  BY <1>5, <1>6 DEF y, n

\* The sector count is a positive number.
LEMMA CountIsPositive ==
    ASSUME NEW x \in Channel, NEW l \in BOOLEAN
    PROVE  SectorCount(x, l) \in Nat /\ SectorCount(x, l) >= 1
<1>1. x.count \in Nat
  BY Constants DEF Channel, Register
<1>2. Low(x.count) \in Nat
  BY <1>1, LowIsByte, Constants
<1>3. Byte * Byte \in Nat /\ Byte * Byte >= 1
  BY Constants
<1> QED  BY <1>1, <1>2, <1>3, Constants DEF SectorCount

-----------------------------------------------------------------------------
(* What the handlers make of a channel.                                     *)

\* Two states of a channel with the same transfer to do, and with the same registers.
SameTask(x, y) ==
    /\ y.selected = x.selected /\ y.lba = x.lba /\ y.lba48 = x.lba48
    /\ y.command = x.command /\ y.table = x.table /\ y.srst = x.srst
SameRegisters(x, y) ==
    /\ y.number = x.number /\ y.low = x.low /\ y.high = x.high /\ y.head = x.head
    /\ y.count = x.count

\* They stand at the same sector, with the same number of sectors left.
LEMMA SamePlace ==
    ASSUME NEW x, NEW y, SameTask(x, y), SameRegisters(x, y)
    PROVE  /\ Offset(y, y.lba48) = Offset(x, x.lba48)
           /\ SectorCount(y, y.lba48) = SectorCount(x, x.lba48)
           /\ SectorsLeft(y) = SectorsLeft(x)
           /\ DmaRange(y) = DmaRange(x)
           /\ \A l : Offset(y, l) = Offset(x, l)
<1>1. \A l : Offset(y, l) = Offset(x, l)
  BY DEF SameTask, SameRegisters, Offset
<1>2. y.lba48 = x.lba48
  BY DEF SameTask
<1>3. SectorCount(y, y.lba48) = SectorCount(x, x.lba48)
  BY <1>2 DEF SameRegisters, SectorCount
<1>4. SectorsLeft(y) = SectorsLeft(x)
  BY <1>2 DEF SameRegisters, SectorsLeft
<1>5. DmaRange(y) = DmaRange(x)
  BY <1>1, <1>2, <1>3 DEF SameTask, DmaRange
<1> QED  BY <1>1, <1>2, <1>3, <1>4, <1>5

\* A sector done changes registers only.
LEMMA AdvancedTask ==
    ASSUME NEW x \in Channel
    PROVE  /\ SameTask(x, Advanced(x))
           /\ Advanced(x).status = x.status /\ Advanced(x).buffer = x.buffer
<1> DEFINE y == [x EXCEPT !.count = (@ - 1) % (Byte * Byte)]
<1>1. SameButAddress(y, Advanced(x))
  BY AdvancedKeeps
<1>2. SameTask(x, y) /\ y.status = x.status /\ y.buffer = x.buffer
  BY DEF Channel, SameTask
<1> HIDE DEF y
<1> QED  BY <1>1, <1>2 DEF SameButAddress, SameTask

\* ide_read_sectors_callback() makes a sector's data due.
LEMMA SectorReadyIs ==
    ASSUME NEW x \in Channel, NEW v \in Values
    PROVE  /\ SectorReady(x, v) \in Channel
           /\ SameTask(x, SectorReady(x, v))
           /\ SameRegisters(Advanced(x), SectorReady(x, v))
           /\ SectorReady(x, v).status = {"DRDY", "DSC", "DRQ"}
           /\ SectorReady(x, v).buffer = v
<1> DEFINE y == Advanced(x)
           z == [y EXCEPT !.status = {"DRDY", "DSC", "DRQ"}, !.buffer = v,
                          !.length = SectorAccesses, !.position = 0, !.irq = TRUE]
<1>1. y \in Channel /\ SameTask(x, y)
  BY AdvancedKeeps, AdvancedTask
<1>2. SectorReady(x, v) = z
  BY DEF SectorReady
<1> HIDE DEF y
<1>3. z \in Channel
  BY <1>1, Constants DEF Channel
<1>4. SameTask(y, z)
  BY <1>1 DEF Channel, SameTask
<1>5. SameRegisters(y, z) /\ z.status = {"DRDY", "DSC", "DRQ"} /\ z.buffer = v
  BY <1>1 DEF Channel, SameRegisters
<1>6. SameTask(x, z)
  BY <1>1, <1>4 DEF SameTask
<1> QED  BY <1>2, <1>3, <1>5, <1>6 DEF y

\* ide_write_sectors() makes a sector's data due.
LEMMA SectorAwaitedIs ==
    ASSUME NEW x \in Channel
    PROVE  /\ SectorAwaited(x) \in Channel
           /\ SameTask(x, SectorAwaited(x)) /\ SameRegisters(x, SectorAwaited(x))
           /\ SectorAwaited(x).status = {"DRDY", "DSC", "DRQ"}
           /\ SectorAwaited(x).buffer = x.buffer
<1>1. SectorAwaited(x) \in Channel
  BY Constants DEF SectorAwaited, Channel
<1>2. SameTask(x, SectorAwaited(x))
  BY DEF SectorAwaited, Channel, SameTask
<1>3. /\ SameRegisters(x, SectorAwaited(x))
      /\ SectorAwaited(x).status = {"DRDY", "DSC", "DRQ"}
      /\ SectorAwaited(x).buffer = x.buffer
  BY DEF SectorAwaited, Channel, SameRegisters
<1> QED  BY <1>1, <1>2, <1>3

\* drive_write_callback() ends the command or makes the next sector's data due.
LEMMA SectorWrittenIs ==
    ASSUME NEW x \in Channel
    PROVE  /\ SectorWritten(x) \in Channel
           /\ SameTask(x, SectorWritten(x)) /\ SameRegisters(Advanced(x), SectorWritten(x))
           /\ SectorWritten(x).buffer = x.buffer
           /\ SectorWritten(x).status = IF SectorsLeft(Advanced(x)) THEN {"DRDY", "DSC", "DRQ"}
                                        ELSE {"DRDY", "DSC"}
<1> DEFINE y == Advanced(x)
           z == [y EXCEPT !.status = {"DRDY", "DSC"}]
<1>1. y \in Channel /\ SameTask(x, y) /\ y.buffer = x.buffer
  BY AdvancedKeeps, AdvancedTask
<1>2. SectorWritten(x) = IF SectorsLeft(y) THEN SectorAwaited(y) ELSE z
  BY DEF SectorWritten
<1> HIDE DEF y
<1>3. z \in Channel
  BY <1>1 DEF Channel
<1>4. SameTask(y, z)
  BY <1>1 DEF Channel, SameTask
<1>5. SameRegisters(y, z) /\ z.status = {"DRDY", "DSC"} /\ z.buffer = y.buffer
  BY <1>1 DEF Channel, SameRegisters
<1>6. SameTask(x, z)
  BY <1>1, <1>4 DEF SameTask
<1> HIDE DEF z
<1>7. CASE SectorsLeft(y)
  <2>1. SameTask(x, SectorAwaited(y))
    BY <1>1, SectorAwaitedIs DEF SameTask
  <2> QED  BY <1>1, <1>2, <1>7, <2>1, SectorAwaitedIs DEF y
<1>8. CASE ~SectorsLeft(y)
  BY <1>1, <1>2, <1>3, <1>5, <1>6, <1>8 DEF y
<1> QED  BY <1>7, <1>8

\* The status of a channel that waits for the disk layer.
LEMMA AwaitingIs ==
    ASSUME NEW x \in Channel
    PROVE  /\ Awaiting(x) \in Channel
           /\ SameTask(x, Awaiting(x)) /\ SameRegisters(x, Awaiting(x))
           /\ Awaiting(x).status = {"DRDY", "DSC", "BSY"} /\ Awaiting(x).buffer = x.buffer
<1>1. Awaiting(x) \in Channel
  BY DEF Awaiting, Channel
<1>2. SameTask(x, Awaiting(x))
  BY DEF Awaiting, Channel, SameTask
<1>3. /\ SameRegisters(x, Awaiting(x))
      /\ Awaiting(x).status = {"DRDY", "DSC", "BSY"} /\ Awaiting(x).buffer = x.buffer
  BY DEF Awaiting, Channel, SameRegisters
<1> QED  BY <1>1, <1>2, <1>3

\* ide_raise_irq() raises the interrupt, and nothing else.
LEMMA RaisedIs ==
    ASSUME NEW x \in Channel
    PROVE  /\ Raised(x) \in Channel
           /\ SameTask(x, Raised(x)) /\ SameRegisters(x, Raised(x))
           /\ Raised(x).status = x.status /\ Raised(x).buffer = x.buffer
<1>1. Raised(x) \in Channel
  BY DEF Raised, Channel
<1>2. SameTask(x, Raised(x))
  BY DEF Raised, Channel, SameTask
<1>3. SameRegisters(x, Raised(x)) /\ Raised(x).status = x.status /\ Raised(x).buffer = x.buffer
  BY DEF Raised, Channel, SameRegisters
<1> QED  BY <1>1, <1>2, <1>3

\* ide_abort_command() leaves an error in the status.
LEMMA AbortedIs ==
    ASSUME NEW x \in Channel
    PROVE  /\ Aborted(x) \in Channel
           /\ SameTask(x, Aborted(x)) /\ SameRegisters(x, Aborted(x))
           /\ Aborted(x).status = {"DRDY", "DSC", "ERR"} /\ Aborted(x).buffer = x.buffer
<1>1. Aborted(x) \in Channel
  BY DEF Aborted, Channel
<1>2. SameTask(x, Aborted(x))
  BY DEF Aborted, Channel, SameTask
<1>3. /\ SameRegisters(x, Aborted(x))
      /\ Aborted(x).status = {"DRDY", "DSC", "ERR"} /\ Aborted(x).buffer = x.buffer
  BY DEF Aborted, Channel, SameRegisters
<1> QED  BY <1>1, <1>2, <1>3

\* ide_set_signature() writes registers only.
LEMMA SignedIs ==
    ASSUME NEW x \in Channel, NEW type
    PROVE  /\ Signed(x, type) \in Channel
           /\ SameTask(x, Signed(x, type))
           /\ Signed(x, type).status = x.status /\ Signed(x, type).buffer = x.buffer
<1>1. 0 \in Register /\ 1 \in Register /\ Byte - 1 \in Register
  <2>1. Byte * Byte >= 2 * Byte
    BY Constants
  <2> QED  BY <2>1, Constants DEF Register
<1> DEFINE a == IF type = "disk" THEN 0 ELSE Byte - 1
           y == [x EXCEPT !.number = 1, !.count = 1, !.low = a, !.high = a]
<1>2. a \in Register
  BY <1>1
<1>3. Signed(x, type) = y
  BY DEF Signed
<1> HIDE DEF a
<1>4. y \in Channel
  BY <1>1, <1>2 DEF Channel
<1>5. SameTask(x, y)
  BY DEF Channel, SameTask
<1>6. y.status = x.status /\ y.buffer = x.buffer
  BY DEF Channel
<1> QED  BY <1>3, <1>4, <1>5, <1>6

\* The commands without data leave a channel free.
LEMMA PerformedIs ==
    ASSUME NEW x \in Channel, NEW type, NEW op \in NonData \ {"verify"}, "BSY" \notin x.status
    PROVE  /\ Performed(x, type, op) \in Channel
           /\ "BSY" \notin Performed(x, type, op).status
           /\ Performed(x, type, op).command = x.command
<1>0. 0 \in Register /\ Byte - 1 \in Register
  <2>1. Byte * Byte >= Byte
    BY Constants
  <2> QED  BY <2>1, Constants DEF Register
<1>1. \A y \in Channel : \A s \in SUBSET {"DRDY", "DSC"} :
         /\ Ready(y, s) \in Channel /\ "BSY" \notin Ready(y, s).status
         /\ Ready(y, s).command = y.command
  <2> SUFFICES ASSUME NEW y \in Channel, NEW s \in SUBSET {"DRDY", "DSC"}
               PROVE  /\ Ready(y, s) \in Channel /\ "BSY" \notin Ready(y, s).status
                      /\ Ready(y, s).command = y.command
    OBVIOUS
  <2>1. s \in SUBSET {"BSY", "DRDY", "DSC", "DRQ", "ERR"} /\ "BSY" \notin s
    OBVIOUS
  <2>2. Ready(y, s) \in Channel
    BY <2>1 DEF Ready, Channel
  <2>3. Ready(y, s).status = s /\ Ready(y, s).command = y.command
    BY DEF Ready, Channel
  <2> QED  BY <2>1, <2>2, <2>3
<1> {"DRDY"} \in SUBSET {"DRDY", "DSC"} /\ {"DRDY", "DSC"} \in SUBSET {"DRDY", "DSC"}
  OBVIOUS
<1>2. Aborted(x) \in Channel /\ "BSY" \notin Aborted(x).status /\ Aborted(x).command = x.command
  BY AbortedIs DEF SameTask
<1>3. CASE op = "calibrate"
  <2> DEFINE y == IF type = "disk" THEN x ELSE Aborted(x)
             z == [y EXCEPT !.low = 0, !.high = 0]
  <2>1. y \in Channel /\ y.command = x.command
    BY <1>2
  <2>2. Performed(x, type, op) = Ready(z, {"DRDY", "DSC"})
    BY <1>3 DEF Performed
  <2> HIDE DEF y
  <2>3. z \in Channel /\ z.command = x.command
    BY <1>0, <2>1 DEF Channel
  <2> HIDE DEF z
  <2> QED  BY <1>1, <2>2, <2>3
<1>4. CASE op = "check power"
  <2> DEFINE z == [x EXCEPT !.count = Byte - 1]
  <2>1. z \in Channel /\ z.command = x.command
    BY <1>0 DEF Channel
  <2>2. Performed(x, type, op) = Ready(z, {"DRDY"})
    BY <1>4 DEF Performed
  <2> HIDE DEF z
  <2> QED  BY <1>1, <2>1, <2>2
<1>5. CASE op \in {"idle", "set features", "unsupported"}
  <2>1. /\ op = "idle" => Performed(x, type, op) = Ready(x, {"DRDY"})
        /\ op = "set features" => Performed(x, type, op) = Ready(x, {"DRDY", "DSC"})
        /\ op = "unsupported" => Performed(x, type, op) = Aborted(x)
    BY DEF Performed
  <2> QED  BY <1>1, <1>2, <1>5, <2>1
<1>6. CASE op = "init parameters"
  <2> DEFINE z == [x EXCEPT !.selected = IF x.head = 0 THEN @ ELSE 1]
  <2>1. z \in Channel /\ z.command = x.command
    BY DEF Channel
  <2>2. Performed(x, type, op) = IF type # "disk" THEN Aborted(x) ELSE Ready(z, {"DRDY", "DSC"})
    BY <1>6 DEF Performed
  <2> HIDE DEF z
  <2> QED  BY <1>1, <1>2, <2>1, <2>2
<1>7. CASE op = "set multiple"
  <2> DEFINE z == [x EXCEPT !.multiple = Low(x.count)]
  <2>1. Low(x.count) \in Nat
    BY LowIsByte, Constants DEF Channel, Register
  <2>2. Low(x.count) <= 1 => z \in Channel /\ z.command = x.command
    BY <2>1 DEF Channel
  <2>3. Performed(x, type, op) =
           IF type # "disk" \/ Low(x.count) > 1 THEN Aborted(x) ELSE Ready(z, {"DRDY"})
    BY <1>7 DEF Performed
  <2> HIDE DEF z
  <2> QED  BY <1>1, <1>2, <2>1, <2>2, <2>3
<1>8. CASE op = "read max"
  <2> DEFINE y == IF type # "disk" THEN Aborted(x) ELSE x
  <2>1. y \in Channel /\ "BSY" \notin y.status /\ y.command = x.command
    BY <1>2
  <2>2. Performed(x, type, op) = WithOffset(y, FALSE, NumSectors - 1)
    BY <1>8 DEF Performed
  <2> HIDE DEF y
  <2>3. NumSectors - 1 \in Int
    BY Constants
  <2>4. /\ WithOffset(y, FALSE, NumSectors - 1) \in Channel
        /\ SameButAddress(y, WithOffset(y, FALSE, NumSectors - 1))
    BY <2>1, <2>3, WithOffsetKeeps
  <2> QED  BY <2>1, <2>2, <2>4 DEF SameButAddress
<1> QED  BY <1>3, <1>4, <1>5, <1>6, <1>7, <1>8 DEF NonData

-----------------------------------------------------------------------------
(* Types.                                                                   *)

\* The part of TypeOK that the devices hold, the guests' part apart.
DeviceOK ==
    /\ chan \in [Channels -> Channel]
    /\ store \in [Disks -> [data : [Sectors -> Values], cached : SUBSET Blocks]]
    /\ slot \in [busy : BOOLEAN, op : {"read", "write", "prefetch"}, drive : Drives, first : Sectors]
    /\ slot.busy => slot.drive \in Disks
    /\ fatal \in {"no", "beyond the disk", "expected sync response", "unknown command"}

\* A channel's state that is replaced.
LEMMA Replaced ==
    ASSUME chan \in [Channels -> Channel], NEW c \in Channels, NEW y,
           chan' = [chan EXCEPT ![c] = y]
    PROVE  /\ chan'[c] = y /\ \A e \in Channels \ {c} : chan'[e] = chan[e]
           /\ y \in Channel => chan' \in [Channels -> Channel]
OBVIOUS

\* Drives, sectors and blocks.
LEMMA Drivable ==
    ASSUME NEW c \in Channels, NEW x \in Channel
    PROVE  Selected(c, x) \in Drives /\ Selected(c, x)[1] = c /\ Selected(c, x)[2] = x.selected
BY DEF Channel, Selected, Drives

\* What the guest writes is data.
LEMMA WrittenIsData ==
    ASSUME NEW d \in Drives, NEW n \in Nat
    PROVE  Written(d, n) \in Values
BY DEF Written, Values

\* A transfer that waits for the disk layer keeps the types.
LEMMA PendingTypes ==
    ASSUME DeviceOK, NEW c \in Channels, NEW x \in Channel, NEW op \in {"read", "write", "prefetch"},
           NEW S \in SUBSET Sectors, Selected(c, x) \in Disks, Offset(x, x.lba48) \in Sectors,
           Pending(c, op, x, S)
    PROVE  /\ store' \in [Disks -> [data : [Sectors -> Values], cached : SUBSET Blocks]]
           /\ slot' \in [busy : BOOLEAN, op : {"read", "write", "prefetch"},
                         drive : Drives, first : Sectors]
           /\ slot'.busy /\ slot'.op = op /\ slot'.drive = Selected(c, x)
           /\ slot'.first = Offset(x, x.lba48)
           /\ fatal' = fatal
           /\ \A d \in Disks : store'[d].data = store[d].data /\ store[d].cached \subseteq store'[d].cached
           /\ {BlockOf(s) : s \in S} \subseteq store'[Selected(c, x)].cached
<1> DEFINE B == {BlockOf(s) : s \in S}
           d == Selected(c, x)
<1>1. B \subseteq Blocks
  BY DEF Blocks
<1>2. store' = [store EXCEPT ![d].cached = @ \cup B]
  BY DEF Pending
<1>3. Selected(c, x) \in Drives
  BY Drivable
<1> HIDE DEF B, d
<1>4. d \in Disks
  BY DEF d
<1>5. store \in [Disks -> [data : [Sectors -> Values], cached : SUBSET Blocks]]
  BY DEF DeviceOK
<1>6. store'[d] = [store[d] EXCEPT !.cached = @ \cup B] /\ \A e \in Disks \ {d} : store'[e] = store[e]
  BY <1>2, <1>4, <1>5
<1>7. /\ store' \in [Disks -> [data : [Sectors -> Values], cached : SUBSET Blocks]]
      /\ \A e \in Disks : store'[e].data = store[e].data /\ store[e].cached \subseteq store'[e].cached
      /\ B \subseteq store'[d].cached
  BY <1>1, <1>2, <1>4, <1>5, <1>6
<1>8. slot' = [busy |-> TRUE, op |-> op, drive |-> Selected(c, x), first |-> Offset(x, x.lba48)]
      /\ fatal' = fatal
  BY DEF Pending
<1> QED  BY <1>3, <1>7, <1>8 DEF B, d

\* ide_read_sectors() keeps the types.
LEMMA ReadSectorsTypes ==
    ASSUME DeviceOK, NEW c \in Channels, NEW x \in Channel, ReadSectors(c, x)
    PROVE  DeviceOK'
<1> DEFINE d == Selected(c, x)
           s == Offset(x, x.lba48)
<1> HIDE DEF d, s
<1>1. CASE ~Reaches(d, {s}) /\ GoBeyond
  BY <1>1 DEF GoBeyond, DeviceOK
<1>2. CASE /\ Reaches(d, {s}) /\ Cached(d, {s})
           /\ chan' = [chan EXCEPT ![c] = SectorReady(x, store[d].data[s])]
           /\ UNCHANGED <<store, slot, fatal>>
  <2>1. d \in Disks /\ s \in Sectors
    BY <1>2 DEF Reaches
  <2>2. store[d].data[s] \in Values
    BY <2>1 DEF DeviceOK
  <2>3. chan' \in [Channels -> Channel]
    BY <1>2, <2>2, SectorReadyIs, Replaced DEF DeviceOK
  <2> QED  BY <1>2, <2>3 DEF DeviceOK
<1>3. CASE /\ Reaches(d, {s}) /\ ~Cached(d, {s})
           /\ Pending(c, "read", x, {s})
           /\ chan' = [chan EXCEPT ![c] = Awaiting(x)]
  <2>1. d \in Disks /\ s \in Sectors
    BY <1>3 DEF Reaches
  <2>2. chan' \in [Channels -> Channel]
    BY <1>3, AwaitingIs, Replaced DEF DeviceOK
  <2>3. /\ store' \in [Disks -> [data : [Sectors -> Values], cached : SUBSET Blocks]]
        /\ slot' \in [busy : BOOLEAN, op : {"read", "write", "prefetch"},
                      drive : Drives, first : Sectors]
        /\ slot'.drive = d /\ fatal' = fatal
    BY <1>3, <2>1, PendingTypes DEF d, s
  <2> QED  BY <2>1, <2>2, <2>3 DEF DeviceOK
<1> QED  BY <1>1, <1>2, <1>3 DEF ReadSectors, d, s

\* A sector written keeps the data's types.
LEMMA StoreWritten ==
    ASSUME store \in [Disks -> [data : [Sectors -> Values], cached : SUBSET Blocks]],
           NEW d \in Disks, NEW s \in Sectors, NEW v \in Values,
           store' = [store EXCEPT ![d].data[s] = v]
    PROVE  /\ store' \in [Disks -> [data : [Sectors -> Values], cached : SUBSET Blocks]]
           /\ \A e \in Disks : store'[e].cached = store[e].cached
           /\ \A e \in Disks \ {d} : store'[e].data = store[e].data
           /\ store'[d].data = [store[d].data EXCEPT ![s] = v]
<1> DEFINE D == [store[d].data EXCEPT ![s] = v]
<1>1. store' = [store EXCEPT ![d] = [@ EXCEPT !.data = D]]
  OBVIOUS
<1>2. D \in [Sectors -> Values]
  OBVIOUS
<1> HIDE DEF D
<1> DEFINE y == [store[d] EXCEPT !.data = D]
<1>3. y \in [data : [Sectors -> Values], cached : SUBSET Blocks]
      /\ y.data = D /\ y.cached = store[d].cached
  BY <1>2
<1>4. store' = [store EXCEPT ![d] = y]
  BY <1>1
<1> HIDE DEF y
<1>5. store' \in [Disks -> [data : [Sectors -> Values], cached : SUBSET Blocks]]
  BY <1>3, <1>4
<1>6. store'[d] = y /\ \A e \in Disks \ {d} : store'[e] = store[e]
  BY <1>4
<1> QED  BY <1>3, <1>5, <1>6 DEF D

\* The end of ide_pio_write_callback() keeps the types.
LEMMA WriteSectorTypes ==
    ASSUME DeviceOK, NEW c \in Channels, NEW x \in Channel, WriteSector(c, x)
    PROVE  DeviceOK'
<1> DEFINE d == Selected(c, x)
           s == Offset(x, x.lba48)
<1> HIDE DEF d, s
<1>1. CASE ~Reaches(d, {s}) /\ GoBeyond
  BY <1>1 DEF GoBeyond, DeviceOK
<1>2. CASE /\ Reaches(d, {s}) /\ Cached(d, {s})
           /\ store' = [store EXCEPT ![d].data[s] = x.buffer]
           /\ chan' = [chan EXCEPT ![c] = SectorWritten(x)]
           /\ UNCHANGED <<slot, fatal>>
  <2>1. d \in Disks /\ s \in Sectors
    BY <1>2 DEF Reaches
  <2>2. x.buffer \in Values
    BY DEF Channel
  <2>3. chan' \in [Channels -> Channel]
    BY <1>2, SectorWrittenIs, Replaced DEF DeviceOK
  <2>4. store' \in [Disks -> [data : [Sectors -> Values], cached : SUBSET Blocks]]
    BY <1>2, <2>1, <2>2, StoreWritten DEF DeviceOK
  <2> QED  BY <1>2, <2>3, <2>4 DEF DeviceOK
<1>3. CASE /\ Reaches(d, {s}) /\ ~Cached(d, {s})
           /\ Pending(c, "write", x, {s})
           /\ chan' = [chan EXCEPT ![c] = Awaiting(x)]
  <2>1. d \in Disks /\ s \in Sectors
    BY <1>3 DEF Reaches
  <2>2. chan' \in [Channels -> Channel]
    BY <1>3, AwaitingIs, Replaced DEF DeviceOK
  <2>3. /\ store' \in [Disks -> [data : [Sectors -> Values], cached : SUBSET Blocks]]
        /\ slot' \in [busy : BOOLEAN, op : {"read", "write", "prefetch"},
                      drive : Drives, first : Sectors]
        /\ slot'.drive = d /\ fatal' = fatal
    BY <1>3, <2>1, PendingTypes DEF d, s
  <2> QED  BY <2>1, <2>2, <2>3 DEF DeviceOK
<1> QED  BY <1>1, <1>2, <1>3 DEF WriteSector, d, s

\* What a guest has.
GuestOK ==
    guest \in [Channels -> [stage : Stages, job : Job \cup {NoJob},
                            data : Seq(Values), error : BOOLEAN]]

\* The sectors of a DMA transfer are consecutive ones.
LEMMA DmaRangeIs ==
    ASSUME NEW x \in Channel
    PROVE  /\ Cardinality(DmaRange(x)) \in Nat
           /\ DmaRange(x) = Offset(x, x.lba48)
                            .. Offset(x, x.lba48) + Cardinality(DmaRange(x)) - 1
           /\ Offset(x, x.lba48) \in Int
           /\ LET n == SectorCount(x, x.lba48) IN
              /\ x.table.sizes[1] \in Nat /\ x.table.sizes[2] \in Nat
              /\ x.table.sizes[1] + x.table.sizes[2] = n => Cardinality(DmaRange(x)) = n
<1> DEFINE n == SectorCount(x, x.lba48)
           o == Offset(x, x.lba48)
           Cut(e) == IF e < n THEN e ELSE n
           m == Cut(x.table.sizes[1]) + Cut(x.table.sizes[2])
<1>1. x.lba48 \in BOOLEAN
  BY DEF Channel
<1>2. n \in Nat /\ n >= 1 /\ o \in Int
  BY <1>1, CountIsPositive, OffsetIsNumber
<1>3. x.table.sizes[1] \in Nat /\ x.table.sizes[2] \in Nat
  BY DEF Channel, Table
<1> HIDE DEF n, o
<1>4. m \in Nat /\ (x.table.sizes[1] + x.table.sizes[2] = n => m = n)
  BY <1>2, <1>3
<1>5. DmaRange(x) = o .. o + m - 1
  <2>1. DmaRange(x) = o .. o + Cut(x.table.sizes[1]) + Cut(x.table.sizes[2]) - 1
    BY DEF DmaRange, n, o
  <2>2. Cut(x.table.sizes[1]) \in Nat /\ Cut(x.table.sizes[2]) \in Nat
    BY <1>2, <1>3
  <2> HIDE DEF Cut
  <2>3. o + Cut(x.table.sizes[1]) + Cut(x.table.sizes[2]) - 1 = o + m - 1
    BY <1>2, <2>2
  <2> QED  BY <2>1, <2>3
<1> HIDE DEF m
<1>6. Cardinality(o .. o + m - 1) = m
  BY <1>2, <1>4, FS_Interval
<1> QED  BY <1>2, <1>3, <1>4, <1>5, <1>6 DEF n, o

\* ide_read_dma_handler() and ide_write_dma_handler() keep the types.
LEMMA DmaHandlerTypes ==
    ASSUME TypeOK, NEW c \in Channels, NEW x \in Channel, DmaHandler(c, x)
    PROVE  /\ chan' \in [Channels -> Channel]
           /\ store' \in [Disks -> [data : [Sectors -> Values], cached : SUBSET Blocks]]
           /\ fatal' \in {"no", "beyond the disk", "expected sync response", "unknown command"}
           /\ GuestOK'
<1> DEFINE d == Selected(c, x)
           S == DmaRange(x)
           from == Offset(x, x.lba48)
           M == Cardinality(S)
           data == [k \in 1 .. M |-> IF x.command = "write dma" THEN InMemory(x, k - 1)
                                     ELSE store[d].data[from + k - 1]]
           written == [s \in Sectors |-> IF s \in S THEN InMemory(x, s - from)
                                         ELSE store[d].data[s]]
           y == WithOffset(x, x.lba48, from + SectorCount(x, x.lba48))
<1>1. M \in Nat /\ S = from .. from + M - 1 /\ from \in Int
  BY DmaRangeIs
<1>2. x.table \in Table /\ x.lba48 \in BOOLEAN
  BY DEF Channel
<1>3. \A k \in Nat : InMemory(x, k) \in Values
  <2>1. x.table.drive \in Drives /\ x.table.first \in Nat
    BY <1>2 DEF Table
  <2> QED  BY <2>1, WrittenIsData DEF InMemory
<1>4. CASE fatal' \in {"beyond the disk", "expected sync response"} /\ UNCHANGED <<chan, store, guest>>
  BY <1>4 DEF TypeOK, GuestOK
<1>5. CASE /\ Reaches(d, S) /\ Cached(d, S)
           /\ IF x.command = "write dma"
              THEN store' = [store EXCEPT ![d].data =
                      [s \in Sectors |-> IF s \in S THEN InMemory(x, s - from) ELSE @[s]]]
              ELSE UNCHANGED store
           /\ guest' = [guest EXCEPT
                 ![c].stage = IF @ = "start" THEN Waiting ELSE @,
                 ![c].data = data]
           /\ chan' = [chan EXCEPT ![c] = [y EXCEPT !.status = {"DRDY", "DSC"}, !.irq = TRUE]]
           /\ UNCHANGED fatal
  <2>1. d \in Disks /\ S \subseteq Sectors
    BY <1>5 DEF Reaches
  <2>2. store[d].data \in [Sectors -> Values]
    BY <2>1 DEF TypeOK
  <2>3. y \in Channel
    <3>1. from + SectorCount(x, x.lba48) \in Int
      BY <1>1, <1>2, CountIsPositive
    <3> QED  BY <3>1, <1>2, WithOffsetKeeps
  <2>4. [y EXCEPT !.status = {"DRDY", "DSC"}, !.irq = TRUE] \in Channel
    <3> HIDE DEF y
    <3> QED  BY <2>3 DEF Channel
  <2>5. chan' \in [Channels -> Channel]
    BY <1>5, <2>4, Replaced DEF TypeOK
  <2>6. written \in [Sectors -> Values]
    <3>1. ASSUME NEW s \in Sectors, s \in S
          PROVE  InMemory(x, s - from) \in Values
      <4>1. s - from \in Nat
        BY <1>1, <3>1
      <4> QED  BY <4>1, <1>3
    <3> QED  BY <2>2, <3>1
  <2>7. store' \in [Disks -> [data : [Sectors -> Values], cached : SUBSET Blocks]]
    <3>1. CASE x.command = "write dma"
      <4>1. store' = [store EXCEPT ![d].data = written]
        BY <1>5, <3>1
      <4> HIDE DEF written, d, S, from
      <4> QED  BY ZenonT(40), <2>1, <2>6, <4>1 DEF TypeOK
    <3> QED  BY <1>5, <3>1 DEF TypeOK
  <2>8. data \in Seq(Values)
    <3>1. ASSUME NEW k \in 1 .. M
          PROVE  data[k] \in Values
      <4>1. k - 1 \in Nat /\ from + k - 1 \in Sectors
        BY <1>1, <2>1
      <4> QED  BY <4>1, <1>3, <2>2
    <3> HIDE DEF M
    <3>2. data = [k \in 1 .. M |-> data[k]]
      OBVIOUS
    <3> HIDE DEF data
    <3> QED  BY <1>1, <3>1, <3>2
  <2>9. Waiting \in Stages
    BY DEF Waiting, Stages
  <2>10. GuestOK'
    <3> HIDE DEF data
    <3> DEFINE z == [guest[c] EXCEPT !.stage = IF @ = "start" THEN Waiting ELSE @, !.data = data]
    <3>1. guest' = [guest EXCEPT ![c] = z]
      BY <1>5
    <3>2. z \in [stage : Stages, job : Job \cup {NoJob}, data : Seq(Values), error : BOOLEAN]
      BY <2>8, <2>9 DEF TypeOK
    <3> HIDE DEF z
    <3> QED  BY <3>1, <3>2 DEF TypeOK, GuestOK
  <2> QED  BY <1>5, <2>5, <2>7, <2>10 DEF TypeOK
<1> QED  BY <1>4, <1>5 DEF DmaHandler

\* A use is one of the declared ones.
LEMMA UseIs ==
    ASSUME use \in Uses
    PROVE  use.jobs \subseteq Job /\ use.habits \subseteq AllHabits /\ use.maxJobs \in Nat
BY IdeAssumption DEF Use

\* TypeOK in parts.
LEMMA TypeParts ==
    TypeOK <=> DeviceOK /\ GuestOK /\ use \in Uses /\ jobs \in Nat
BY DEF TypeOK, DeviceOK, GuestOK

\* What a job is.
LEMMA JobIs ==
    ASSUME NEW j \in Job
    PROVE  /\ j.op \in Ops /\ j.mode \in Modes /\ j.drive \in {0, 1}
           /\ j.first \in Nat /\ j.first \in Sectors
           /\ j.count \in Nat /\ j.count >= 1 /\ j.first + j.count <= NumSectors
           /\ j.first + j.count <= Reach(j.mode)
           /\ j.count <= Byte /\ (j.mode = "lba48" => j.count < Byte)
BY Constants DEF Job, Sectors

\* The registers that the guest writes.
LEMMA EncodedTypes ==
    ASSUME NEW mode \in Modes, NEW p \in Nat
    PROVE  /\ Encoded(mode, p).number \in Register /\ Encoded(mode, p).low \in Register
           /\ Encoded(mode, p).high \in Register /\ Encoded(mode, p).head \in 0 .. 15
<1> DEFINE cylinder == p \div (Heads * SectorsPerTrack)
<1>1. cylinder \in Int /\ p \div SectorsPerTrack \in Int
  <2>1. Heads * SectorsPerTrack \in Nat /\ Heads * SectorsPerTrack >= 1
    BY Constants
  <2> QED  BY <2>1, Constants, Division
<1> HIDE DEF cylinder
<1>2. \A i \in 0 .. 5 : Digit(p, i) \in 0 .. Byte - 1 /\ Digit(cylinder, i) \in 0 .. Byte - 1
  <2>1. p \in Int
    OBVIOUS
  <2> QED  BY <1>1, <2>1, DigitType
<1>3. 0 .. Byte - 1 \subseteq Register
  BY Constants DEF Register
<1>4. (p % SectorsPerTrack) + 1 \in 0 .. Byte - 1 /\ (p \div SectorsPerTrack) % Heads \in 0 .. 15
  <2>1. p % SectorsPerTrack \in 0 .. SectorsPerTrack - 1
    BY Constants, Division
  <2>2. (p \div SectorsPerTrack) % Heads \in 0 .. Heads - 1
    BY <1>1, Constants, Division
  <2> QED  BY <2>1, <2>2, Constants
<1>5. CASE mode = "chs"
  BY <1>2, <1>3, <1>4, <1>5 DEF Encoded, cylinder
<1>6. CASE mode = "lba28"
  <2>1. Shifted(p, 3) \in Int
    BY DigitType
  <2>2. Shifted(p, 3) % 16 \in 0 .. 15
    BY <2>1
  <2> QED  BY <1>2, <1>3, <1>6, <2>2 DEF Encoded
<1>7. CASE mode = "lba48"
  <2>1. /\ Digit(p, 3) * Byte + Digit(p, 0) \in Register
        /\ Digit(p, 4) * Byte + Digit(p, 1) \in Register
        /\ Digit(p, 5) * Byte + Digit(p, 2) \in Register
    BY <1>2, TwoBytes
  <2> QED  BY <1>7, <2>1 DEF Encoded
<1> QED  BY <1>5, <1>6, <1>7 DEF Modes

\* A guest's step to another stage.
LEMMA ThenTypes ==
    ASSUME GuestOK, NEW c \in Channels, NEW stage \in Stages, Then(c, stage)
    PROVE  GuestOK'
<1> DEFINE z == [guest[c] EXCEPT !.stage = stage]
<1>1. guest' = [guest EXCEPT ![c] = z]
  BY DEF Then
<1>2. z \in [stage : Stages, job : Job \cup {NoJob}, data : Seq(Values), error : BOOLEAN]
  BY DEF GuestOK
<1> HIDE DEF z
<1> QED  BY <1>1, <1>2 DEF GuestOK

\* The state of a channel that the guest sets up for a job.
Put(wide, old, new) == IF wide THEN new ELSE Low(old) * Byte + Low(new)

TaskFile(x, j) ==
    LET to   == Encoded(j.mode, j.first)
        wide == j.mode = "lba48"
    IN  [x EXCEPT !.selected = j.drive, !.lba = j.mode # "chs", !.head = to.head,
                  !.number = Put(wide, @, to.number), !.low = Put(wide, @, to.low),
                  !.high = Put(wide, @, to.high),
                  !.count = Put(wide, @, j.count % (Byte * Byte))]

\* The task file that the guest has written.
LEMMA TaskFileIs ==
    ASSUME NEW x \in Channel, NEW j \in Job
    PROVE  LET to   == Encoded(j.mode, j.first)
               wide == j.mode = "lba48"
               y    == TaskFile(x, j)
           IN  /\ y \in Channel
               /\ y.selected = j.drive /\ y.lba = (j.mode # "chs") /\ y.head = to.head
               /\ y.number = Put(wide, x.number, to.number) /\ y.low = Put(wide, x.low, to.low)
               /\ y.high = Put(wide, x.high, to.high)
               /\ y.count = Put(wide, x.count, j.count % (Byte * Byte))
               /\ y.status = x.status /\ y.buffer = x.buffer /\ y.command = x.command
               /\ y.table = x.table /\ y.srst = x.srst
<1> DEFINE to   == Encoded(j.mode, j.first)
           wide == j.mode = "lba48"
           n    == Put(wide, x.number, to.number)
           lo   == Put(wide, x.low, to.low)
           hi   == Put(wide, x.high, to.high)
           k    == Put(wide, x.count, j.count % (Byte * Byte))
           l    == j.mode # "chs"
           y    == [x EXCEPT !.selected = j.drive, !.lba = l, !.head = to.head, !.number = n,
                             !.low = lo, !.high = hi, !.count = k]
<1>1. \A old, new \in Register : Put(wide, old, new) \in Register
  <2> TAKE old, new \in Register
  <2>1. old \in Int /\ new \in Int
    BY Constants DEF Register
  <2>2. Low(old) \in 0 .. Byte - 1 /\ Low(new) \in 0 .. Byte - 1
    BY <2>1, LowIsByte
  <2> QED  BY <2>2, TwoBytes DEF Put
<1>2. to.number \in Register /\ to.low \in Register /\ to.high \in Register /\ to.head \in 0 .. 15
  BY JobIs, EncodedTypes
<1>3. j.count % (Byte * Byte) \in Register
  <2>1. Byte * Byte \in Nat /\ Byte * Byte >= 1
    BY Constants
  <2> QED  BY <2>1, JobIs, Division DEF Register
<1>4. x.number \in Register /\ x.low \in Register /\ x.high \in Register /\ x.count \in Register
  BY DEF Channel
<1>5. n \in Register /\ lo \in Register /\ hi \in Register /\ k \in Register
  BY <1>1, <1>2, <1>3, <1>4
<1>6. j.drive \in {0, 1} /\ l \in BOOLEAN
  BY JobIs
<1>7. TaskFile(x, j) = y
  BY Zenon DEF TaskFile
<1> HIDE DEF to, n, lo, hi, k, l
<1>8. y \in Channel
  BY <1>2, <1>5, <1>6 DEF Channel
<1>9. /\ y.selected = j.drive /\ y.head = to.head
      /\ y.number = n /\ y.low = lo /\ y.high = hi /\ y.count = k
      /\ y.status = x.status /\ y.buffer = x.buffer /\ y.command = x.command
      /\ y.table = x.table
  BY DEF Channel
<1>10. y.lba = l /\ y.srst = x.srst
  BY <1>6 DEF Channel
<1> QED  BY <1>7, <1>8, <1>9, <1>10, Zenon DEF to, n, lo, hi, k, l

\* What SetUp does.
LEMMA SetUpIs ==
    ASSUME NEW c, NEW j, SetUp(c, j)
    PROVE  /\ chan' = [chan EXCEPT ![c] = TaskFile(chan[c], j)]
           /\ guest' = [guest EXCEPT ![c] =
                 [stage |-> "command", job |-> j, data |-> <<>>, error |-> FALSE]]
           /\ UNCHANGED <<store, slot, fatal, use>> /\ jobs' = jobs + 1
           /\ j \in use.jobs
           /\ Type[c][j.drive] = "disk" \/ (Type[c][j.drive] = "cdrom" /\ j.op \notin DmaOps)
           /\ "BSY" \in chan[c].status => "hasty" \in use.habits
           /\ At(c, "idle") \/ At(c, "data") \/ (At(c, Waiting) /\ "hasty" \in use.habits)
           /\ "overlap" \in use.habits \/ \A e \in Channels \ {c} : guest[e].stage = "idle"
<1>1. chan' = [chan EXCEPT ![c] = TaskFile(chan[c], j)]
  BY Zenon DEF SetUp, TaskFile, Put
<1> QED  BY <1>1 DEF SetUp

\* A command that is accepted.
LEMMA AcceptedIs ==
    ASSUME TypeOK, NEW c \in Channels, guest[c].job.op \in Ops
    PROVE  LET x == chan[c]
               y == Accepted(c)
           IN  /\ y \in Channel /\ SameRegisters(x, y)
               /\ y.selected = x.selected /\ y.lba = x.lba /\ y.lba48 = x.lba48
               /\ y.table = x.table /\ y.srst = x.srst /\ y.buffer = x.buffer
               /\ y.multiple = x.multiple
               /\ y.status = x.status \ {"ERR"} /\ y.command = guest[c].job.op
<1>1. chan[c] \in Channel
  BY DEF TypeOK
<1> DEFINE op == guest[c].job.op
           y == [chan[c] EXCEPT !.irq = FALSE, !.status = @ \ {"ERR"}, !.command = op]
<1>2. Accepted(c) = y
  BY DEF Accepted
<1> HIDE DEF op
<1>3. op \in Ops
  BY DEF op
<1>4. y \in Channel
  BY <1>1, <1>3 DEF Channel
<1>5. /\ SameRegisters(chan[c], y) /\ y.selected = chan[c].selected /\ y.table = chan[c].table
      /\ y.buffer = chan[c].buffer /\ y.status = chan[c].status \ {"ERR"} /\ y.command = op
      /\ y.multiple = chan[c].multiple
  BY <1>1 DEF Channel, SameRegisters
<1>6. y.lba = chan[c].lba /\ y.lba48 = chan[c].lba48 /\ y.srst = chan[c].srst
  BY <1>1 DEF Channel
<1> QED  BY <1>2, <1>4, <1>5, <1>6 DEF op

\* And its width.
Widened(x, wide) == [x EXCEPT !.lba48 = wide]

\* A command sets lba48 and nothing else.
LEMMA WidenedIs ==
    ASSUME NEW x \in Channel, NEW wide \in BOOLEAN
    PROVE  LET y == Widened(x, wide) IN
           /\ y \in Channel /\ SameRegisters(x, y) /\ y.lba48 = wide
           /\ y.selected = x.selected /\ y.lba = x.lba /\ y.command = x.command
           /\ y.table = x.table /\ y.srst = x.srst /\ y.buffer = x.buffer /\ y.status = x.status
<1>1. Widened(x, wide) \in Channel
  BY DEF Widened, Channel
<1>2. /\ SameRegisters(x, Widened(x, wide)) /\ Widened(x, wide).selected = x.selected
      /\ Widened(x, wide).command = x.command /\ Widened(x, wide).table = x.table
      /\ Widened(x, wide).buffer = x.buffer /\ Widened(x, wide).status = x.status
  BY DEF Widened, Channel, SameRegisters
<1>3. /\ Widened(x, wide).lba48 = wide /\ Widened(x, wide).lba = x.lba
      /\ Widened(x, wide).srst = x.srst
  BY DEF Widened, Channel
<1> QED  BY <1>1, <1>2, <1>3

\* The guest writes the task file.
LEMMA SetUpTypes ==
    ASSUME TypeOK, NEW c \in Channels, NEW j \in use.jobs, SetUp(c, j)
    PROVE  TypeOK'
<1>1. j \in Job
  BY UseIs DEF TypeOK
<1>2. chan[c] \in Channel
  BY DEF TypeOK
<1>3. TaskFile(chan[c], j) \in Channel
  BY <1>1, <1>2, TaskFileIs
<1>4. chan' \in [Channels -> Channel]
  <2>1. chan \in [Channels -> Channel]
    BY DEF TypeOK
  <2>2. chan' = [chan EXCEPT ![c] = TaskFile(chan[c], j)]
    BY SetUpIs
  <2> QED  BY <1>3, <2>1, <2>2
<1> DEFINE g == [stage |-> "command", job |-> j, data |-> <<>>, error |-> FALSE]
<1>5. g \in [stage : Stages, job : Job \cup {NoJob}, data : Seq(Values), error : BOOLEAN]
  BY <1>1 DEF Stages
<1>6. guest' = [guest EXCEPT ![c] = g]
  BY SetUpIs
<1> HIDE DEF g
<1>7. GuestOK'
  BY <1>5, <1>6 DEF TypeOK, GuestOK
<1>8. UNCHANGED <<store, slot, fatal, use>> /\ jobs' = jobs + 1
  BY SetUpIs
<1>9. DeviceOK' /\ use' \in Uses /\ jobs' \in Nat
  <2>1. DeviceOK /\ use \in Uses /\ jobs \in Nat
    BY TypeParts
  <2>2. use' \in Uses /\ jobs' \in Nat
    BY <1>8, <2>1
  <2>3. DeviceOK'
    BY <1>4, <1>8, <2>1 DEF DeviceOK
  <2> QED  BY <2>2, <2>3
<1> QED  BY <1>7, <1>9 DEF TypeOK, DeviceOK, GuestOK

\* The commands keep the types.
LEMMA CommandTypes ==
    ASSUME TypeOK, NEW c \in Channels, Command(c)
    PROVE  TypeOK'
<1> DEFINE x == chan[c]
           wide == guest[c].job.mode = "lba48"
<1>1. x \in Channel
  BY DEF TypeOK
<1>2. Waiting \in Stages /\ "poll" \in Stages /\ "start" \in Stages
  BY DEF Waiting, Stages
<1>3. GuestOK /\ DeviceOK
  BY TypeParts
<1>4. ASSUME GuestOK', DeviceOK', UNCHANGED <<use, jobs>>
      PROVE  TypeOK'
  BY <1>4 DEF TypeOK, DeviceOK, GuestOK
<1>5. ASSUME NEW y \in Channel, chan' = [chan EXCEPT ![c] = y], UNCHANGED <<store, slot, fatal>>
      PROVE  DeviceOK'
  BY <1>3, <1>5 DEF DeviceOK
<1>6. CASE CommandIgnored(c)
  <2>1. [x EXCEPT !.irq = FALSE] \in Channel
    BY <1>1 DEF Channel
  <2>2. chan' = [chan EXCEPT ![c] = [x EXCEPT !.irq = FALSE]] /\ UNCHANGED <<store, slot, fatal>>
    BY <1>6 DEF CommandIgnored
  <2>3. DeviceOK'
    BY <1>5, <2>1, <2>2
  <2>4. GuestOK' /\ UNCHANGED <<use, jobs>>
    BY <1>2, <1>3, <1>6, ThenTypes DEF CommandIgnored
  <2> QED  BY <1>4, <2>3, <2>4
<1>7. ASSUME NEW ops, Commanded(c, ops)
      PROVE  UNCHANGED <<use, jobs>> /\ guest[c].job.op \in ops /\ "BSY" \notin x.status
  BY <1>7 DEF Commanded
<1>8. ASSUME guest[c].job.op \in Ops
      PROVE  /\ Accepted(c) \in Channel /\ Widened(Accepted(c), wide) \in Channel
             /\ Aborted(Accepted(c)) \in Channel
  BY <1>8, AcceptedIs, WidenedIs, AbortedIs
<1>9. CASE CommandRead(c)
  <2>1. UNCHANGED <<use, jobs>> /\ guest[c].job.op \in Ops /\ Then(c, Waiting)
    BY <1>7, <1>9 DEF CommandRead, Ops
  <2>2. GuestOK'
    BY <1>2, <1>3, <2>1, ThenTypes
  <2>3. CASE /\ chan' = [chan EXCEPT ![c] = Aborted(Accepted(c))]
             /\ UNCHANGED <<store, slot, fatal>>
    BY <1>4, <1>5, <1>8, <2>1, <2>2, <2>3
  <2>4. CASE ReadSectors(c, Widened(Accepted(c), wide))
    BY <1>3, <1>4, <1>8, <2>1, <2>2, <2>4, ReadSectorsTypes
  <2> QED  BY <1>9, <2>3, <2>4 DEF CommandRead, Widened
<1>10. CASE CommandWrite(c)
  <2>1. /\ UNCHANGED <<use, jobs, store, slot, fatal>> /\ guest[c].job.op \in Ops
        /\ Then(c, "poll")
    BY <1>7, <1>10 DEF CommandWrite, Ops
  <2>2. GuestOK'
    BY <1>2, <1>3, <2>1, ThenTypes
  <2>3. SectorAwaited(Widened(Accepted(c), wide)) \in Channel
    BY <1>8, <2>1, SectorAwaitedIs
  <2>4. \E y \in Channel : chan' = [chan EXCEPT ![c] = y]
    BY <1>8, <1>10, <2>1, <2>3 DEF CommandWrite, Widened
  <2> QED  BY <1>4, <1>5, <2>1, <2>2, <2>4
<1>11. CASE CommandDma(c)
  <2>1. /\ UNCHANGED <<use, jobs, store, slot, fatal>> /\ guest[c].job.op \in Ops
        /\ Then(c, "start")
    BY <1>7, <1>11 DEF CommandDma, Ops
  <2>2. GuestOK'
    BY <1>2, <1>3, <2>1, ThenTypes
  <2> DEFINE y == [Accepted(c) EXCEPT !.lba48 = wide, !.status = {"DSC", "DRQ", "DRDY"}]
  <2>3. y \in Channel
    BY ZenonT(40), <1>8, <2>1 DEF Channel
  <2>4. chan' = [chan EXCEPT ![c] = y]
    BY <1>11 DEF CommandDma
  <2> QED  BY <1>4, <1>5, <2>1, <2>2, <2>3, <2>4
<1>12. CASE CommandIdentify(c)
  <2>1. /\ UNCHANGED <<use, jobs, store, slot, fatal>> /\ guest[c].job.op \in Ops
        /\ Then(c, Waiting)
    BY <1>7, <1>12 DEF CommandIdentify, Ops
  <2>2. GuestOK'
    BY <1>2, <1>3, <2>1, ThenTypes
  <2> DEFINE y == [Accepted(c) EXCEPT
                     !.status = {"DRDY", "DRQ", "DSC"}, !.buffer = Junk, !.irq = TRUE,
                     !.length = SectorAccesses, !.position = 0]
             z == Aborted(Signed(Accepted(c), TypeOf(Selected(c, Accepted(c)))))
  <2>3. Junk \in Values
    BY IdeAssumption DEF Junk, Values, Drives
  <2>4. y \in Channel
    BY <1>8, <2>1, <2>3, Constants DEF Channel
  <2>5. z \in Channel
    BY <1>8, <2>1, SignedIs, AbortedIs
  <2>6. chan' = [chan EXCEPT ![c] = y] \/ chan' = [chan EXCEPT ![c] = z]
    <3> HIDE DEF y, z
    <3>1. chan' = [chan EXCEPT ![c] =
                     IF TypeOf(Selected(c, Accepted(c))) = "disk" THEN y ELSE z]
      BY <1>12 DEF CommandIdentify, y, z
    <3> QED  BY <3>1
  <2> QED  BY <1>4, <1>5, <2>1, <2>2, <2>4, <2>5, <2>6
<1>13. CASE CommandNonData(c)
  <2>1. /\ UNCHANGED <<use, jobs, store, slot, fatal>> /\ guest[c].job.op \in NonData \ {"verify"}
        /\ \E stage \in Stages : Then(c, stage)
    BY <1>2, <1>7, <1>13 DEF CommandNonData
  <2>2. guest[c].job.op \in Ops /\ GuestOK'
    BY <1>3, <2>1, ThenTypes DEF Ops
  <2> DEFINE y == Performed(Accepted(c), TypeOf(Selected(c, Accepted(c))), guest[c].job.op)
  <2>3. "BSY" \notin Accepted(c).status
    BY <1>7, <1>13, <2>2, AcceptedIs DEF CommandNonData
  <2>4. y \in Channel
    BY <1>8, <2>1, <2>2, <2>3, PerformedIs
  <2>5. chan' = [chan EXCEPT ![c] = y]
    BY <1>13 DEF CommandNonData
  <2> QED  BY <1>4, <1>5, <2>1, <2>2, <2>4, <2>5
<1>14. CASE CommandVerify(c)
  <2>1. /\ UNCHANGED <<use, jobs, store, slot, fatal>> /\ guest[c].job.op \in Ops
        /\ Then(c, Waiting)
    BY <1>7, <1>14 DEF CommandVerify, Ops, NonData
  <2>2. GuestOK'
    BY <1>2, <1>3, <2>1, ThenTypes
  <2> DEFINE a == Accepted(c)
             o == Offset(a, wide) + Low(a.count) - 1
             y == Raised(WithOffset(a, wide, o))
  <2>3. a \in Channel /\ wide \in BOOLEAN
    BY <1>8, <2>1
  <2>4. o \in Int
    <3>1. Offset(a, wide) \in Int
      BY <2>3, OffsetIsNumber
    <3>2. Low(a.count) \in Int
      BY <2>3, LowIsByte, Constants DEF Channel, Register
    <3> QED  BY <3>1, <3>2
  <2>5. y \in Channel
    BY <2>3, <2>4, WithOffsetKeeps, RaisedIs
  <2>6. chan' = [chan EXCEPT ![c] = Aborted(a)]
        \/ chan' = [[chan EXCEPT ![c] = y] EXCEPT ![Primary].status = {"DRDY"}]
    BY <1>14 DEF CommandVerify
  <2>7. chan' \in [Channels -> Channel]
    <3>1. CASE chan' = [chan EXCEPT ![c] = Aborted(a)]
      BY <1>3, <1>8, <2>1, <3>1 DEF DeviceOK
    <3>2. CASE chan' = [[chan EXCEPT ![c] = y] EXCEPT ![Primary].status = {"DRDY"}]
      <4> DEFINE m == [chan EXCEPT ![c] = y]
      <4>1. m \in [Channels -> Channel]
        BY <1>3, <2>5 DEF DeviceOK
      <4> HIDE DEF m, y
      <4>2. m[Primary] \in Channel /\ Primary \in Channels
        BY <4>1, IdeAssumption
      <4>3. [m[Primary] EXCEPT !.status = {"DRDY"}] \in Channel
        BY <4>2 DEF Channel
      <4>4. chan' = [m EXCEPT ![Primary] = [m[Primary] EXCEPT !.status = {"DRDY"}]]
        BY <3>2 DEF m
      <4> QED  BY <4>1, <4>3, <4>4
    <3> QED  BY <2>6, <3>1, <3>2
  <2>8. DeviceOK'
    BY <1>3, <2>1, <2>7 DEF DeviceOK
  <2> QED  BY <1>4, <2>1, <2>2, <2>8
<1> QED
  BY <1>6, <1>9, <1>10, <1>11, <1>12, <1>13, <1>14 DEF Command

\* A channel's state that is replaced keeps the devices' types.
LEMMA ReplacedTypes ==
    ASSUME DeviceOK, NEW c \in Channels, NEW y \in Channel,
           chan' = [chan EXCEPT ![c] = y], UNCHANGED <<store, slot, fatal>>
    PROVE  DeviceOK'
BY DEF DeviceOK

\* A guest's state that is replaced keeps the guests' types.
LEMMA GuestReplaced ==
    ASSUME GuestOK, NEW c \in Channels,
           NEW z \in [stage : Stages, job : Job \cup {NoJob}, data : Seq(Values), error : BOOLEAN],
           guest' = [guest EXCEPT ![c] = z]
    PROVE  GuestOK'
BY DEF GuestOK

\* A table that describes a job's memory.
LEMMA TablesAre ==
    ASSUME NEW c \in Channels, guest[c].job \in Job \cup {NoJob}, NEW table \in Tables(c)
    PROVE  /\ table \in Table
           /\ table.drive = <<c, guest[c].job.drive>> /\ table.first = guest[c].job.first
           /\ table.sizes[1] + table.sizes[2] = guest[c].job.count
<1> DEFINE j == guest[c].job
<1>1. j.drive \in {0, 1} /\ j.first \in Nat /\ j.count \in Nat
  BY JobIs DEF NoJob
<1>2. PICK k \in 1 .. j.count :
         table = [drive |-> <<c, j.drive>>, first |-> j.first, sizes |-> <<k, j.count - k>>]
  BY DEF Tables
<1> HIDE DEF j
<1>3. k \in Nat /\ j.count - k \in Nat /\ k + (j.count - k) = j.count
  BY <1>1, <1>2
<1>4. <<c, j.drive>> \in Drives
  BY <1>1 DEF Drives
<1>5. table \in Table
  BY <1>1, <1>2, <1>3, <1>4 DEF Table
<1>6. /\ table.drive = <<c, j.drive>> /\ table.first = j.first
      /\ table.sizes[1] + table.sizes[2] = j.count
  BY <1>2, <1>3
<1> QED  BY <1>5, <1>6 DEF j

\* The state of a channel whose bus master is started.
WithTable(x, table) == [x EXCEPT !.table = table]

\* The bus master's table is not part of the task file.
LEMMA WithTableIs ==
    ASSUME NEW x \in Channel, NEW table \in Table
    PROVE  LET y == WithTable(x, table) IN
           /\ y \in Channel /\ SameRegisters(x, y) /\ y.table = table
           /\ y.selected = x.selected /\ y.lba = x.lba /\ y.lba48 = x.lba48
           /\ y.command = x.command /\ y.srst = x.srst /\ y.buffer = x.buffer
           /\ y.status = x.status
<1>1. WithTable(x, table) \in Channel
  BY DEF WithTable, Channel
<1>2. /\ SameRegisters(x, WithTable(x, table)) /\ WithTable(x, table).selected = x.selected
      /\ WithTable(x, table).command = x.command /\ WithTable(x, table).table = table
      /\ WithTable(x, table).buffer = x.buffer /\ WithTable(x, table).status = x.status
  BY DEF WithTable, Channel, SameRegisters
<1>3. /\ WithTable(x, table).lba48 = x.lba48 /\ WithTable(x, table).lba = x.lba
      /\ WithTable(x, table).srst = x.srst
  BY DEF WithTable, Channel
<1> QED  BY <1>1, <1>2, <1>3

\* The sectors that ide_write_prdt() has loaded.
Prefetched(x) ==
    LET from == Offset(x, x.lba48)
    IN  from .. from + ((SectorCount(x, x.lba48) - 1) \div SectorSize)

\* They begin with the transfer's first.
LEMMA PrefetchedIs ==
    ASSUME NEW x \in Channel
    PROVE  Offset(x, x.lba48) \in Prefetched(x)
<1>1. x.lba48 \in BOOLEAN
  BY DEF Channel
<1>2. Offset(x, x.lba48) \in Int /\ SectorCount(x, x.lba48) - 1 \in Nat
  BY <1>1, OffsetIsNumber, CountIsPositive
<1>3. (SectorCount(x, x.lba48) - 1) \div SectorSize \in Nat
  BY <1>2, Constants, Division
<1> QED  BY <1>2, <1>3 DEF Prefetched

\* What StartDma does.
LEMMA StartDmaIs ==
    ASSUME NEW c, NEW table, StartDma(c, table)
    PROVE  LET x == WithTable(chan[c], table) IN
           /\ At(c, "start") /\ UNCHANGED <<use, jobs>>
           /\ \/ GoBeyond /\ UNCHANGED guest /\ ~Reaches(Selected(c, x), Prefetched(x))
              \/ /\ Reaches(Selected(c, x), Prefetched(x)) /\ Cached(Selected(c, x), Prefetched(x))
                 /\ DmaHandler(c, x)
                 /\ UNCHANGED slot
              \/ /\ Reaches(Selected(c, x), Prefetched(x))
                 /\ Pending(c, "prefetch", x, Prefetched(x))
                 /\ chan' = [chan EXCEPT ![c] = [x EXCEPT !.status = @ \cup {"BSY"}]]
                 /\ Then(c, Waiting)
BY Zenon DEF StartDma, WithTable, Prefetched

\* The start of the bus master keeps the types.
LEMMA StartDmaTypes ==
    ASSUME TypeOK, NEW c \in Channels, NEW table \in Tables(c), StartDma(c, table)
    PROVE  TypeOK'
<1> DEFINE x == WithTable(chan[c], table)
           S == Prefetched(x)
           y == [x EXCEPT !.status = @ \cup {"BSY"}]
<1>1. DeviceOK /\ GuestOK /\ use \in Uses /\ jobs \in Nat
  BY TypeParts
<1>2. table \in Table
  BY TablesAre DEF TypeOK
<1>3. x \in Channel
  BY <1>1, <1>2, WithTableIs DEF DeviceOK
<1> HIDE DEF x
<1>4. y \in Channel
  BY <1>3 DEF Channel
<1>5. UNCHANGED <<use, jobs>>
  BY StartDmaIs
<1>6. CASE GoBeyond /\ UNCHANGED guest
  BY <1>1, <1>5, <1>6 DEF GoBeyond, TypeOK, DeviceOK, GuestOK
<1>7. CASE DmaHandler(c, x) /\ UNCHANGED slot
  <2>1. /\ chan' \in [Channels -> Channel]
        /\ store' \in [Disks -> [data : [Sectors -> Values], cached : SUBSET Blocks]]
        /\ fatal' \in {"no", "beyond the disk", "expected sync response", "unknown command"}
        /\ GuestOK'
    BY <1>3, <1>7, DmaHandlerTypes
  <2> QED  BY <1>1, <1>5, <1>7, <2>1 DEF TypeOK, DeviceOK, GuestOK
<1>8. CASE /\ Reaches(Selected(c, x), S)
           /\ Pending(c, "prefetch", x, S)
           /\ chan' = [chan EXCEPT ![c] = y]
           /\ Then(c, Waiting)
  <2>1. Selected(c, x) \in Disks /\ S \subseteq Sectors
    BY <1>8 DEF Reaches
  <2>2. Offset(x, x.lba48) \in Sectors
    BY <1>3, <2>1, PrefetchedIs
  <2>3. /\ store' \in [Disks -> [data : [Sectors -> Values], cached : SUBSET Blocks]]
        /\ slot' \in [busy : BOOLEAN, op : {"read", "write", "prefetch"},
                      drive : Drives, first : Sectors]
        /\ slot'.drive = Selected(c, x) /\ fatal' = fatal
    BY <1>1, <1>3, <1>8, <2>1, <2>2, PendingTypes
  <2>4. GuestOK'
    <3>1. Waiting \in Stages
      BY DEF Waiting, Stages
    <3> QED  BY <1>1, <1>8, <3>1, ThenTypes
  <2>5. chan' \in [Channels -> Channel]
    <3> HIDE DEF y
    <3> QED  BY <1>1, <1>4, <1>8 DEF DeviceOK
  <2> QED  BY <1>1, <1>5, <2>1, <2>3, <2>4, <2>5 DEF TypeOK, DeviceOK, GuestOK
<1> QED  BY <1>6, <1>7, <1>8, StartDmaIs DEF x

\* The state of a channel after the last access to a sector's data.
Emptied(x) == [x EXCEPT !.position = 0, !.status = @ \ {"DRQ"}]
Filled(x, value) == [x EXCEPT !.position = 0, !.buffer = value]

\* A buffer that was read to its end.
LEMMA EmptiedIs ==
    ASSUME NEW x \in Channel
    PROVE  /\ Emptied(x) \in Channel
           /\ SameTask(x, Emptied(x)) /\ SameRegisters(x, Emptied(x))
           /\ Emptied(x).status = x.status \ {"DRQ"} /\ Emptied(x).buffer = x.buffer
<1>1. Emptied(x) \in Channel
  BY DEF Emptied, Channel
<1>2. SameTask(x, Emptied(x))
  BY DEF Emptied, Channel, SameTask
<1>3. /\ SameRegisters(x, Emptied(x))
      /\ Emptied(x).status = x.status \ {"DRQ"} /\ Emptied(x).buffer = x.buffer
  BY DEF Emptied, Channel, SameRegisters
<1> QED  BY <1>1, <1>2, <1>3

\* A buffer that was written to its end.
LEMMA FilledIs ==
    ASSUME NEW x \in Channel, NEW value \in Values
    PROVE  /\ Filled(x, value) \in Channel
           /\ SameTask(x, Filled(x, value)) /\ SameRegisters(x, Filled(x, value))
           /\ Filled(x, value).status = x.status /\ Filled(x, value).buffer = value
<1>1. Filled(x, value) \in Channel
  BY DEF Filled, Channel
<1>2. SameTask(x, Filled(x, value))
  BY DEF Filled, Channel, SameTask
<1>3. /\ SameRegisters(x, Filled(x, value))
      /\ Filled(x, value).status = x.status /\ Filled(x, value).buffer = value
  BY DEF Filled, Channel, SameRegisters
<1> QED  BY <1>1, <1>2, <1>3

\* What the last accesses do.
LEMMA DataReadIs ==
    ASSUME NEW c, DataRead(c)
    PROVE  LET x == Emptied(chan[c]) IN
           /\ At(c, "data") /\ guest[c].job.op \in PioReads \cup {"identify"}
           /\ UNCHANGED <<use, jobs>>
           /\ guest' = [guest EXCEPT ![c].data = Append(@, x.buffer),
                                     ![c].stage = IF x.command = "identify" THEN "poll" ELSE Waiting]
           /\ \/ /\ x.command = "identify"
                 /\ chan' = [chan EXCEPT ![c] = x]
                 /\ UNCHANGED <<store, slot, fatal>>
              \/ x.command \in PioReads /\ SectorsLeft(x) /\ ReadSectors(c, Raised(x))
              \/ /\ x.command \in PioReads /\ ~SectorsLeft(x)
                 /\ chan' = [chan EXCEPT ![c] = [Raised(x) EXCEPT !.status = {"DRDY", "DSC"}]]
                 /\ UNCHANGED <<store, slot, fatal>>
              \/ /\ x.command \notin PioReads \cup {"identify"}
                 /\ fatal' = "unknown command"
                 /\ UNCHANGED <<chan, store, slot>>
BY Zenon DEF DataRead, Emptied

\* The last access to the data port for a sector that is written.
LEMMA DataWriteIs ==
    ASSUME NEW c, DataWrite(c)
    PROVE  LET value == Written(<<c, guest[c].job.drive>>,
                                guest[c].job.first + Len(guest[c].data))
               x == Filled(chan[c], value)
           IN  /\ At(c, "data") /\ guest[c].job.op \in PioWrites
               /\ UNCHANGED <<use, jobs>>
               /\ guest' = [guest EXCEPT ![c].data = Append(@, value), ![c].stage = Waiting]
               /\ \/ x.command \in PioWrites /\ WriteSector(c, Raised(x))
                  \/ /\ x.command \notin PioWrites
                     /\ fatal' = "unknown command"
                     /\ UNCHANGED <<chan, store, slot>>
BY Zenon DEF DataWrite, Filled

\* The accesses to the data port keep the types.
LEMMA DataReadTypes ==
    ASSUME TypeOK, NEW c \in Channels, DataRead(c)
    PROVE  TypeOK'
<1> DEFINE x == Emptied(chan[c])
           y == [Raised(x) EXCEPT !.status = {"DRDY", "DSC"}]
           z == [guest[c] EXCEPT !.data = Append(@, x.buffer),
                                 !.stage = IF x.command = "identify" THEN "poll" ELSE Waiting]
<1>1. DeviceOK /\ GuestOK /\ use \in Uses /\ jobs \in Nat
  BY TypeParts
<1>2. x \in Channel /\ x.buffer \in Values
  <2>1. x \in Channel
    BY <1>1, EmptiedIs DEF DeviceOK
  <2> QED  BY <2>1 DEF Channel
<1> HIDE DEF x
<1>3. Raised(x) \in Channel
  BY <1>2, RaisedIs
<1>4. y \in Channel
  BY <1>3 DEF Channel
<1>5. z \in [stage : Stages, job : Job \cup {NoJob}, data : Seq(Values), error : BOOLEAN]
  <2> DEFINE data == Append(guest[c].data, x.buffer)
             stage == IF x.command = "identify" THEN "poll" ELSE Waiting
  <2>1. data \in Seq(Values)
    BY <1>1, <1>2 DEF GuestOK
  <2>2. stage \in Stages
    BY DEF Stages, Waiting
  <2> HIDE DEF data, stage
  <2>3. [guest[c] EXCEPT !.data = data, !.stage = stage]
          \in [stage : Stages, job : Job \cup {NoJob}, data : Seq(Values), error : BOOLEAN]
    BY <1>1, <2>1, <2>2 DEF GuestOK
  <2> QED  BY <2>3 DEF data, stage
<1>6. guest' = [guest EXCEPT ![c] = z] /\ UNCHANGED <<use, jobs>>
  BY ZenonT(40), DataReadIs DEF x
<1> HIDE DEF z, y
<1>7. GuestOK'
  BY <1>1, <1>5, <1>6, GuestReplaced
<1>8. DeviceOK'
  <2>1. CASE chan' = [chan EXCEPT ![c] = x] /\ UNCHANGED <<store, slot, fatal>>
    BY <1>1, <1>2, <2>1, ReplacedTypes
  <2>2. CASE ReadSectors(c, Raised(x))
    BY <1>1, <1>3, <2>2, ReadSectorsTypes
  <2>3. CASE chan' = [chan EXCEPT ![c] = y] /\ UNCHANGED <<store, slot, fatal>>
    BY <1>1, <1>4, <2>3, ReplacedTypes
  <2>4. CASE fatal' = "unknown command" /\ UNCHANGED <<chan, store, slot>>
    BY <1>1, <2>4 DEF DeviceOK
  <2> QED  BY <2>1, <2>2, <2>3, <2>4, DataReadIs DEF x, y
<1> QED  BY <1>1, <1>6, <1>7, <1>8 DEF TypeOK, DeviceOK, GuestOK

\* The next sector's value of a guest that writes.
LEMMA WrittenByGuest ==
    ASSUME GuestOK, NEW c \in Channels
    PROVE  Written(<<c, guest[c].job.drive>>, guest[c].job.first + Len(guest[c].data)) \in Values
<1>1. guest[c].job \in Job \cup {NoJob} /\ Len(guest[c].data) \in Nat
  BY DEF GuestOK
<1>2. guest[c].job.drive \in {0, 1} /\ guest[c].job.first \in Nat
  BY <1>1, JobIs DEF NoJob
<1>3. <<c, guest[c].job.drive>> \in Drives
  BY <1>2 DEF Drives
<1> QED  BY <1>1, <1>2, <1>3, WrittenIsData

\* So does the last access for a sector that is written.
LEMMA DataWriteTypes ==
    ASSUME TypeOK, NEW c \in Channels, DataWrite(c)
    PROVE  TypeOK'
<1> DEFINE value == Written(<<c, guest[c].job.drive>>, guest[c].job.first + Len(guest[c].data))
           x == Filled(chan[c], value)
           z == [guest[c] EXCEPT !.data = Append(@, value), !.stage = Waiting]
<1>1. DeviceOK /\ GuestOK /\ use \in Uses /\ jobs \in Nat
  BY TypeParts
<1>2. value \in Values
  BY <1>1, WrittenByGuest
<1> HIDE DEF value
<1>3. x \in Channel
  BY <1>1, <1>2, FilledIs DEF DeviceOK
<1>4. guest' = [guest EXCEPT ![c] = z] /\ UNCHANGED <<use, jobs>>
  BY ZenonT(40), DataWriteIs DEF value
<1> HIDE DEF x
<1>5. Raised(x) \in Channel
  BY <1>3, RaisedIs
<1>6. z \in [stage : Stages, job : Job \cup {NoJob}, data : Seq(Values), error : BOOLEAN]
  <2> DEFINE data == Append(guest[c].data, value)
  <2>1. data \in Seq(Values)
    BY <1>1, <1>2 DEF GuestOK
  <2>2. Waiting \in Stages
    BY DEF Stages, Waiting
  <2> HIDE DEF data
  <2>3. [guest[c] EXCEPT !.data = data, !.stage = Waiting]
          \in [stage : Stages, job : Job \cup {NoJob}, data : Seq(Values), error : BOOLEAN]
    BY <1>1, <2>1, <2>2 DEF GuestOK
  <2> QED  BY <2>3 DEF data
<1> HIDE DEF z
<1>7. GuestOK'
  BY <1>1, <1>4, <1>6, GuestReplaced
<1>8. DeviceOK'
  <2>1. CASE WriteSector(c, Raised(x))
    BY <1>1, <1>5, <2>1, WriteSectorTypes
  <2>2. CASE fatal' = "unknown command" /\ UNCHANGED <<chan, store, slot>>
    BY <1>1, <2>2 DEF DeviceOK
  <2> QED  BY <2>1, <2>2, DataWriteIs DEF x, value
<1> QED  BY <1>1, <1>4, <1>7, <1>8 DEF TypeOK, DeviceOK, GuestOK

\* What a completion does.
LEMMA CompleteIs ==
    ASSUME NEW c, Complete(c)
    PROVE  LET x == chan[c]
               d == slot.drive
           IN  /\ Running /\ slot.busy /\ d[1] = c
               /\ slot' = [slot EXCEPT !.busy = FALSE] /\ UNCHANGED <<use, jobs>>
               /\ \/ /\ slot.op = "read"
                     /\ chan' = [chan EXCEPT ![c] = SectorReady(x, store[d].data[slot.first])]
                     /\ UNCHANGED <<store, guest, fatal>>
                  \/ /\ slot.op = "write"
                     /\ store' = [store EXCEPT ![d].data[slot.first] = x.buffer]
                     /\ chan' = [chan EXCEPT ![c] = SectorWritten(x)]
                     /\ UNCHANGED <<guest, fatal>>
                  \/ slot.op = "prefetch" /\ DmaHandler(c, x)
BY Zenon DEF Complete

\* A completion keeps the types.
LEMMA CompleteTypes ==
    ASSUME TypeOK, NEW c \in Channels, Complete(c)
    PROVE  TypeOK'
<1> DEFINE x == chan[c]
           d == slot.drive
<1>1. DeviceOK /\ GuestOK /\ use \in Uses /\ jobs \in Nat
  BY TypeParts
<1>2. x \in Channel /\ x.buffer \in Values
  <2>1. x \in Channel
    BY <1>1 DEF DeviceOK
  <2> QED  BY <2>1 DEF Channel
<1>3. d \in Disks /\ slot.first \in Sectors
  BY <1>1, CompleteIs DEF DeviceOK
<1>4. /\ UNCHANGED <<use, jobs>>
      /\ slot' \in [busy : BOOLEAN, op : {"read", "write", "prefetch"},
                    drive : Drives, first : Sectors]
      /\ ~slot'.busy
  BY <1>1, CompleteIs DEF DeviceOK
<1>5. CASE /\ chan' = [chan EXCEPT ![c] = SectorReady(x, store[d].data[slot.first])]
           /\ UNCHANGED <<store, guest, fatal>>
  <2>1. store[d].data[slot.first] \in Values
    BY ZenonT(40), <1>1, <1>3 DEF DeviceOK
  <2>2. chan' \in [Channels -> Channel]
    BY <1>1, <1>2, <1>5, <2>1, SectorReadyIs DEF DeviceOK
  <2> QED  BY <1>1, <1>4, <1>5, <2>2 DEF TypeOK, DeviceOK, GuestOK
<1>6. CASE /\ store' = [store EXCEPT ![d].data[slot.first] = x.buffer]
           /\ chan' = [chan EXCEPT ![c] = SectorWritten(x)]
           /\ UNCHANGED <<guest, fatal>>
  <2>1. store' \in [Disks -> [data : [Sectors -> Values], cached : SUBSET Blocks]]
    BY <1>1, <1>2, <1>3, <1>6, StoreWritten DEF DeviceOK
  <2>2. chan' \in [Channels -> Channel]
    BY <1>1, <1>2, <1>6, SectorWrittenIs DEF DeviceOK
  <2> QED  BY <1>1, <1>4, <1>6, <2>1, <2>2 DEF TypeOK, DeviceOK, GuestOK
<1>7. CASE DmaHandler(c, x)
  <2>1. /\ chan' \in [Channels -> Channel]
        /\ store' \in [Disks -> [data : [Sectors -> Values], cached : SUBSET Blocks]]
        /\ fatal' \in {"no", "beyond the disk", "expected sync response", "unknown command"}
        /\ GuestOK'
    BY <1>2, <1>7, DmaHandlerTypes
  <2> QED  BY <1>1, <1>4, <2>1 DEF TypeOK, DeviceOK, GuestOK
<1> QED  BY <1>5, <1>6, <1>7, CompleteIs

\* The other steps keep the types.
LEMMA OtherTypes ==
    ASSUME TypeOK, NEW c \in Channels,
           \/ ReadStatus(c) \/ DataAccess(c) \/ Finish(c)
           \/ SetReset(c) \/ ClearReset(c) \/ ToggleMask(c)
    PROVE  TypeOK'
<1>1. DeviceOK /\ GuestOK /\ use \in Uses /\ jobs \in Nat
  BY TypeParts
<1>2. chan[c] \in Channel
  BY <1>1 DEF DeviceOK
<1>3. ASSUME GuestOK', DeviceOK', UNCHANGED <<use, jobs>>
      PROVE  TypeOK'
  BY <1>1, <1>3 DEF TypeOK, DeviceOK, GuestOK
<1>4. CASE ReadStatus(c)
  <2>1. PICK irq \in BOOLEAN : chan' = [chan EXCEPT ![c] = [chan[c] EXCEPT !.irq = irq]]
    <3>1. PICK answers \in BOOLEAN : chan' = [chan EXCEPT ![c].irq = @ /\ answers]
      BY <1>4 DEF ReadStatus
    <3>2. (chan[c].irq /\ answers) \in BOOLEAN
      OBVIOUS
    <3> QED  BY <3>1, <3>2
  <2>2. [chan[c] EXCEPT !.irq = irq] \in Channel
    BY <1>2 DEF Channel
  <2>3. UNCHANGED <<store, slot, fatal, use, jobs>>
    BY <1>4 DEF ReadStatus
  <2>4. DeviceOK'
    <3> DEFINE y == [chan[c] EXCEPT !.irq = irq]
    <3> HIDE DEF y
    <3> QED  BY <1>1, <2>1, <2>2, <2>3, ReplacedTypes DEF y
  <2>5. PICK stage \in Stages, error \in BOOLEAN :
          guest' = [guest EXCEPT ![c] = [guest[c] EXCEPT !.stage = stage, !.error = error]]
    <3> DEFINE x == chan[c]
               answers == TypeOf(Selected(c, x)) # "none" \/ x.srst
               status  == IF answers THEN x.status ELSE {}
               due     == "DRQ" \in status /\ guest[c].job.op \in PioReads \cup PioWrites \cup {"identify"}
               st == IF "BSY" \in status THEN guest[c].stage ELSE IF due THEN "data" ELSE "over"
               er == "DRDY" \notin status \/ "ERR" \in status
    <3>1. guest' = [guest EXCEPT ![c].stage = st, ![c].error = er]
      BY <1>4 DEF ReadStatus
    <3>2. st \in Stages
      BY <1>1 DEF GuestOK, Stages
    <3>3. er \in BOOLEAN
      OBVIOUS
    <3> HIDE DEF st, er
    <3> QED  BY <3>1, <3>2, <3>3
  <2>6. GuestOK'
    <3> DEFINE z == [guest[c] EXCEPT !.stage = stage, !.error = error]
    <3>1. z \in [stage : Stages, job : Job \cup {NoJob}, data : Seq(Values), error : BOOLEAN]
      BY <1>1 DEF GuestOK
    <3> HIDE DEF z
    <3> QED  BY <1>1, <2>5, <3>1, GuestReplaced DEF z
  <2> QED  BY <1>3, <2>3, <2>4, <2>6
<1>5. CASE DataAccess(c)
  <2> DEFINE y == [chan[c] EXCEPT !.position = @ + 1]
  <2>1. chan' = [chan EXCEPT ![c] = y] /\ UNCHANGED <<store, slot, guest, fatal, use, jobs>>
    BY <1>5 DEF DataAccess
  <2>2. y \in Channel
    BY <1>2 DEF Channel
  <2> HIDE DEF y
  <2> QED  BY <1>1, <1>3, <2>1, <2>2, ReplacedTypes DEF GuestOK
<1>6. CASE Finish(c)
  <2>1. guest' = [guest EXCEPT ![c] = Free] /\ UNCHANGED <<chan, store, slot, fatal, use, jobs>>
    BY <1>6 DEF Finish
  <2>2. Free \in [stage : Stages, job : Job \cup {NoJob}, data : Seq(Values), error : BOOLEAN]
    BY DEF Free, Stages
  <2>3. GuestOK'
    BY <1>1, <2>1, <2>2, GuestReplaced
  <2> QED  BY <1>1, <2>1, <2>3 DEF TypeOK, DeviceOK, GuestOK
<1>7. CASE SetReset(c)
  <2> DEFINE y == [chan[c] EXCEPT !.srst = TRUE, !.status = @ \cup {"BSY"}]
  <2>1. /\ chan' = [chan EXCEPT ![c] = y] /\ UNCHANGED <<store, slot, fatal, use, jobs>>
        /\ Then(c, "reset")
    BY <1>7 DEF SetReset
  <2>2. y \in Channel
    BY <1>2 DEF Channel
  <2>3. GuestOK'
    BY <1>1, <2>1, ThenTypes DEF Stages
  <2> HIDE DEF y
  <2> QED  BY <1>1, <1>3, <2>1, <2>2, <2>3, ReplacedTypes
<1>8. CASE ClearReset(c)
  <2> DEFINE z == Signed(chan[c], TypeOf(Selected(c, chan[c])))
             y == [z EXCEPT !.srst = FALSE, !.status = {"DRDY"}, !.selected = 0]
  <2>1. /\ chan' = [chan EXCEPT ![c] = y] /\ UNCHANGED <<store, fatal, use, jobs>>
        /\ slot' = [slot EXCEPT !.busy = FALSE]
        /\ guest' = [guest EXCEPT ![c] = Free]
    BY <1>8 DEF ClearReset
  <2>2. z \in Channel
    BY <1>2, SignedIs
  <2> HIDE DEF z
  <2>3. y \in Channel
    BY <2>2 DEF Channel
  <2> HIDE DEF y
  <2>4. Free \in [stage : Stages, job : Job \cup {NoJob}, data : Seq(Values), error : BOOLEAN]
    BY DEF Free, Stages
  <2>5. GuestOK'
    BY <1>1, <2>1, <2>4, GuestReplaced
  <2>6. DeviceOK'
    BY <1>1, <2>1, <2>3 DEF DeviceOK
  <2> QED  BY <1>3, <2>1, <2>5, <2>6
<1>9. CASE ToggleMask(c)
  <2> DEFINE y == [chan[c] EXCEPT !.nien = ~@]
  <2>1. chan' = [chan EXCEPT ![c] = y] /\ UNCHANGED <<store, slot, guest, fatal, use, jobs>>
    BY <1>9 DEF ToggleMask
  <2>2. y \in Channel
    BY <1>2 DEF Channel
  <2> HIDE DEF y
  <2> QED  BY <1>1, <1>3, <2>1, <2>2, ReplacedTypes DEF GuestOK
<1> QED  BY <1>4, <1>5, <1>6, <1>7, <1>8, <1>9

\* A reset of the machine keeps the types.
LEMMA ResetTypes ==
    ASSUME TypeOK, Reset
    PROVE  TypeOK'
<1>1. DeviceOK /\ GuestOK /\ use \in Uses /\ jobs \in Nat
  BY TypeParts
<1>2. ASSUME NEW c \in Channels
      PROVE  [chan[c] EXCEPT !.selected = 0] \in Channel
  <2>1. chan[c] \in Channel
    BY <1>1 DEF DeviceOK
  <2> QED  BY <2>1 DEF Channel
<1>3. /\ chan' = [c \in Channels |-> [chan[c] EXCEPT !.selected = 0]]
      /\ guest' = [c \in Channels |-> Free] /\ UNCHANGED <<store, slot, fatal, use>>
      /\ jobs' = jobs + 1
  BY DEF Reset
<1>4. chan' \in [Channels -> Channel]
  BY <1>2, <1>3
<1>5. Free \in [stage : Stages, job : Job \cup {NoJob}, data : Seq(Values), error : BOOLEAN]
  BY DEF Free, Stages
<1>6. GuestOK'
  BY <1>3, <1>5 DEF GuestOK
<1>7. DeviceOK'
  BY <1>1, <1>3, <1>4 DEF DeviceOK
<1>8. use' \in Uses /\ jobs' \in Nat
  BY <1>1, <1>3
<1> QED  BY <1>6, <1>7, <1>8 DEF TypeOK, DeviceOK, GuestOK

\* The types are right at first.
LEMMA InitTypes ==
    ASSUME Init
    PROVE  TypeOK
<1> DEFINE x == [selected |-> 0, lba |-> FALSE, lba48 |-> FALSE, head |-> 0,
                 number |-> 0, low |-> 0, high |-> 0, count |-> 0,
                 status |-> {}, command |-> "none", position |-> 0, length |-> 0,
                 buffer |-> Junk, multiple |-> 0, table |-> NoTable,
                 irq |-> FALSE, srst |-> FALSE, nien |-> FALSE]
<1>1. <<Primary, 0>> \in Drives
  BY IdeAssumption DEF Drives
<1>2. Junk \in Values /\ NoTable \in Table /\ 0 \in Register
  BY <1>1, Constants DEF Junk, Values, NoTable, Table, Register
<1>3. x \in Channel
  BY <1>2 DEF Channel
<1>4. chan = [c \in Channels |-> x]
  BY DEF Init
<1> HIDE DEF x
<1>5. chan \in [Channels -> Channel]
  BY <1>3, <1>4
<1>6. store \in [Disks -> [data : [Sectors -> Values], cached : SUBSET Blocks]]
  <2>1. ASSUME NEW d \in Disks, NEW s \in Sectors
        PROVE  Original(d, s) \in Values
    BY DEF Original, Values, Disks, Sectors
  <2> QED  BY <2>1 DEF Init
<1>7. slot \in [busy : BOOLEAN, op : {"read", "write", "prefetch"}, drive : Drives, first : Sectors]
      /\ ~slot.busy
  BY <1>1, Constants DEF Init, Sectors
<1>8. GuestOK
  BY DEF Init, GuestOK, Free, Stages
<1>9. fatal = "no" /\ use \in Uses /\ jobs \in Nat
  BY DEF Init
<1> QED  BY <1>5, <1>6, <1>7, <1>8, <1>9 DEF TypeOK, GuestOK

\* Every step keeps the types.
LEMMA NextTypes ==
    ASSUME TypeOK, [Next]_vars
    PROVE  TypeOK'
<1>1. CASE UNCHANGED vars
  BY <1>1 DEF TypeOK, vars
<1>2. CASE Reset
  BY <1>2, ResetTypes
<1>3. ASSUME NEW c \in Channels, GuestStep(c)
      PROVE  TypeOK'
  BY <1>3, CommandTypes, StartDmaTypes, DataReadTypes, DataWriteTypes, OtherTypes DEF GuestStep
<1>4. ASSUME NEW c \in Channels,
             (\E j \in use.jobs : SetUp(c, j)) \/ Complete(c) \/ SetReset(c) \/ ToggleMask(c)
      PROVE  TypeOK'
  BY <1>4, SetUpTypes, CompleteTypes, OtherTypes
<1> QED  BY <1>1, <1>2, <1>3, <1>4 DEF Next

\* The state is always one of the declared kind, whatever the guests do: also for one that
\* gives commands without looking at BSY.
THEOREM TypeCorrect == Spec => []TypeOK
<1>1. Init => TypeOK
  BY InitTypes
<1>2. TypeOK /\ [Next]_vars => TypeOK'
  BY NextTypes
<1> QED  BY <1>1, <1>2, PTL DEF Spec

-----------------------------------------------------------------------------
(* Who waits for whom.                                                      *)

Alone == Without({"overlap", "machine"})

\* Where a guest stands tells something of its channel: it moves data, starts the bus
\* master or has seen the end only when the channel is not busy.  The guest of a busy
\* channel has selected a drive that answers, or holds the channel in reset.
StageFits ==
    \A c \in Channels :
        LET x == chan[c]
            stage == guest[c].stage
        IN  /\ stage \in {"start", "data", "over"} => "BSY" \notin x.status
            /\ stage = "start" => x.command \in DmaOps
            /\ stage # "idle" /\ "BSY" \in x.status => TypeOf(Selected(c, x)) # "none" \/ x.srst

\* Where the channels are used one at a time, the one that is not in use is not busy.
OneAtATime ==
    Alone =>
        \A c \in Channels :
            /\ guest[c].stage = "idle" => "BSY" \notin chan[c].status
            /\ guest[c].stage # "idle" => \A e \in Channels \ {c} : guest[e].stage = "idle"

JobsUsed == \A c \in Channels : guest[c].job \in use.jobs \cup {NoJob}

Control == StageFits /\ OneAtATime /\ JobsUsed /\ CompletionAwaited

\* Only one channel and its guest take part in a step.
Frame(c) ==
    /\ \A e \in Channels \ {c} : chan'[e] = chan[e] /\ guest'[e] = guest[e]
    /\ UNCHANGED use
    /\ guest'[c].job \in use.jobs \cup {NoJob}
    /\ Running

\* The operations that a pending transfer completes.
OpsOf(op) == CASE op = "read" -> PioReads [] op = "write" -> PioWrites [] op = "prefetch" -> DmaOps

\* CompletionAwaited in parts.
LEMMA AwaitedParts ==
    CompletionAwaited <=>
        /\ slot.busy /\ ~Disturbed =>
              /\ "BSY" \in chan[slot.drive[1]].status
              /\ chan[slot.drive[1]].command \in OpsOf(slot.op)
              /\ Without({"machine", "hasty"}) =>
                    Selected(slot.drive[1], chan[slot.drive[1]]) = slot.drive
        /\ Running /\ Alone =>
              \A c \in Channels :
                  "BSY" \in chan[c].status => chan[c].srst \/ (slot.busy /\ slot.drive[1] = c)
BY DEF CompletionAwaited, OpsOf, Alone

\* A channel has a drive's first coordinate.
LEMMA DriveOfChannel ==
    ASSUME TypeOK
    PROVE  slot.drive[1] \in Channels /\ slot.drive \in Drives
BY DEF TypeOK, Drives

\* What the habits exclude does not change.
LEMMA HabitsStay ==
    ASSUME UNCHANGED use
    PROVE  /\ Alone' = Alone /\ Disturbed' = Disturbed
           /\ \A H : Without(H)' = Without(H)
BY DEF Alone, Disturbed, Without

\* Who uses the channels one at a time is not disturbed.
LEMMA AloneUndisturbed == Alone => ~Disturbed
BY DEF Alone, Disturbed

\* A step of a guest whose channel is not busy and does not become busy.
LEMMA FreeStep ==
    ASSUME TypeOK, Control, NEW c \in Channels, Frame(c), slot' = slot,
           "BSY" \notin chan[c].status, "BSY" \notin chan'[c].status,
           guest[c].stage # "idle",
           guest'[c].stage = "start" => chan'[c].command \in DmaOps
    PROVE  Control'
<1>1. StageFits'
  BY DEF Control, StageFits, Frame, TypeOf, Selected
<1>2. OneAtATime'
  BY HabitsStay DEF Control, OneAtATime, Frame
<1>3. JobsUsed'
  BY DEF Control, JobsUsed, Frame
<1>4. CompletionAwaited'
  <2> DEFINE e == slot.drive[1]
  <2>1. e \in Channels /\ slot'.drive[1] = e
    BY DriveOfChannel
  <2>2. Alone' = Alone /\ Disturbed' = Disturbed
        /\ Without({"machine", "hasty"})' = Without({"machine", "hasty"})
    BY HabitsStay DEF Frame
  <2>3. slot.busy /\ ~Disturbed => e # c
    BY AwaitedParts DEF Control
  <2>4. ASSUME slot'.busy, ~Disturbed'
        PROVE  /\ "BSY" \in chan'[e].status /\ chan'[e].command \in OpsOf(slot'.op)
               /\ Without({"machine", "hasty"})' => Selected(e, chan'[e]) = slot'.drive
    <3>1. slot.busy /\ ~Disturbed /\ chan'[e] = chan[e]
      BY <2>1, <2>2, <2>3, <2>4 DEF Frame
    <3> QED  BY <2>2, <3>1, AwaitedParts DEF Control, Selected
  <2>5. ASSUME Running', Alone', NEW a \in Channels, "BSY" \in chan'[a].status
        PROVE  chan'[a].srst \/ (slot'.busy /\ slot'.drive[1] = a)
    <3>1. a # c /\ chan'[a] = chan[a] /\ Running /\ Alone
      BY <2>2, <2>5 DEF Frame
    <3> QED  BY <2>5, <3>1, AwaitedParts DEF Control
  <2> HIDE DEF e
  <2>6. Selected(e, chan[e])' = Selected(e, chan'[e])
    BY DEF Selected, e
  <2> QED  BY <2>1, <2>4, <2>5, <2>6 DEF CompletionAwaited, OpsOf, Alone, e, Selected
<1> QED  BY <1>1, <1>2, <1>3, <1>4 DEF Control

\* A step of a guest whose command has to wait for the disk layer.
LEMMA PendingStep ==
    ASSUME TypeOK, Control, NEW c \in Channels, Frame(c),
           "BSY" \notin chan[c].status, "BSY" \in chan'[c].status,
           guest[c].stage # "idle", guest'[c].stage \in {"poll", "interrupt"},
           slot'.drive = Selected(c, chan'[c]), TypeOf(slot'.drive) # "none",
           slot'.busy, chan'[c].command \in OpsOf(slot'.op)
    PROVE  Control'
<1>1. slot'.drive[1] = c
  BY DEF Selected
<1>2. StageFits'
  BY DEF Control, StageFits, Frame, TypeOf, Selected
<1>3. OneAtATime'
  BY ZenonT(40), HabitsStay DEF Control, OneAtATime, Frame
<1>4. JobsUsed'
  BY DEF Control, JobsUsed, Frame
<1>5. CompletionAwaited'
  <2>1. ASSUME Alone', NEW a \in Channels, "BSY" \in chan'[a].status
        PROVE  a = c
    BY <2>1, HabitsStay DEF Control, OneAtATime, Frame
  <2>2. Selected(c, chan[c])' = slot'.drive
    BY DEF Selected
  <2> QED  BY <1>1, <2>1, <2>2 DEF CompletionAwaited, OpsOf, Alone, Selected
<1> QED  BY <1>2, <1>3, <1>4, <1>5 DEF Control

\* A step of a guest that leaves its channel as busy as it is, or holds it in reset.
LEMMA SameStep ==
    ASSUME TypeOK, Control, NEW c \in Channels, Frame(c), slot' = slot,
           "BSY" \in chan[c].status => "BSY" \in chan'[c].status,
           "BSY" \in chan'[c].status => "BSY" \in chan[c].status \/ chan'[c].srst,
           "BSY" \in chan'[c].status => TypeOf(Selected(c, chan'[c])) # "none" \/ chan'[c].srst,
           chan[c].srst => chan'[c].srst, chan'[c].command = chan[c].command,
           "BSY" \in chan[c].status /\ Without({"hasty"}) => chan'[c].selected = chan[c].selected,
           guest'[c].stage \notin {"idle", "start", "data", "over"},
           Alone => \A e \in Channels \ {c} : guest[e].stage = "idle"
    PROVE  Control'
<1>1. StageFits'
  BY DEF Control, StageFits, Frame, TypeOf, Selected
<1>2. OneAtATime'
  <2>1. Alone => \A e \in Channels \ {c} :
                    /\ guest'[e].stage = "idle" /\ "BSY" \notin chan'[e].status
    BY DEF Control, OneAtATime, Frame
  <2>2. Alone' = Alone
    BY HabitsStay DEF Frame
  <2> QED  BY <2>1, <2>2 DEF OneAtATime
<1>3. JobsUsed'
  BY DEF Control, JobsUsed, Frame
<1>4. CompletionAwaited'
  <2> DEFINE e == slot.drive[1]
  <2>1. e \in Channels /\ slot'.drive[1] = e
    BY DriveOfChannel
  <2>2. /\ Alone' = Alone /\ Disturbed' = Disturbed
        /\ Without({"machine", "hasty"})' = Without({"machine", "hasty"})
    BY HabitsStay DEF Frame
  <2>3. Without({"machine", "hasty"}) => Without({"hasty"})
    BY DEF Without
  <2>4. ASSUME slot'.busy, ~Disturbed'
        PROVE  /\ "BSY" \in chan'[e].status /\ chan'[e].command \in OpsOf(slot'.op)
               /\ Without({"machine", "hasty"})' => Selected(e, chan'[e]) = slot'.drive
    <3>1. /\ "BSY" \in chan[e].status /\ chan[e].command \in OpsOf(slot.op)
          /\ Without({"machine", "hasty"}) => Selected(e, chan[e]) = slot.drive
      BY <2>2, <2>4, AwaitedParts DEF Control
    <3>2. CASE e # c
      BY <2>1, <2>2, <3>1, <3>2 DEF Frame, Selected
    <3>3. CASE e = c
      BY <2>2, <2>3, <3>1, <3>3 DEF Selected
    <3> QED  BY <3>2, <3>3
  <2>5. ASSUME Running', Alone', NEW a \in Channels, "BSY" \in chan'[a].status
        PROVE  chan'[a].srst \/ (slot'.busy /\ slot'.drive[1] = a)
    <3>1. Running /\ Alone
      BY <2>2, <2>5 DEF Frame
    <3>2. "BSY" \in chan[a].status => chan[a].srst \/ (slot.busy /\ slot.drive[1] = a)
      BY <3>1, AwaitedParts DEF Control
    <3>3. CASE a # c
      BY <2>5, <3>2, <3>3 DEF Frame
    <3>4. CASE a = c
      BY <2>5, <3>2, <3>4
    <3> QED  BY <3>3, <3>4
  <2> HIDE DEF e
  <2>6. Selected(e, chan[e])' = Selected(e, chan'[e])
    BY DEF Selected, e
  <2> QED  BY <2>1, <2>4, <2>5, <2>6 DEF CompletionAwaited, OpsOf, Alone, e, Selected
<1> QED  BY <1>1, <1>2, <1>3, <1>4 DEF Control

\* A step that changes neither where a guest stands nor what the control depends on.
LEMMA QuietStep ==
    ASSUME TypeOK, Control, UNCHANGED <<slot, guest, use>>, Running' => Running,
           \A e \in Channels : /\ chan'[e].status = chan[e].status /\ chan'[e].srst = chan[e].srst
                               /\ chan'[e].command = chan[e].command
                               /\ chan'[e].selected = chan[e].selected
    PROVE  Control'
<1>1. StageFits'
  BY DEF Control, StageFits, TypeOf, Selected
<1>2. OneAtATime'
  BY HabitsStay DEF Control, OneAtATime
<1>3. JobsUsed'
  BY DEF Control, JobsUsed
<1>4. CompletionAwaited'
  <2>1. slot.drive[1] \in Channels
    BY DriveOfChannel
  <2>2. /\ Alone' = Alone /\ Disturbed' = Disturbed
        /\ Without({"machine", "hasty"})' = Without({"machine", "hasty"})
        /\ Without({"overlap", "machine"})' = Without({"overlap", "machine"})
    BY HabitsStay
  <2> QED  BY <2>1, <2>2 DEF Control, CompletionAwaited, Selected
<1> QED  BY <1>1, <1>2, <1>3, <1>4 DEF Control

\* A guest's step to another stage changes nothing else of the guests.
LEMMA ThenIs ==
    ASSUME GuestOK, NEW c \in Channels, NEW stage, Then(c, stage)
    PROVE  /\ guest'[c].stage = stage /\ guest'[c].job = guest[c].job
           /\ guest'[c].data = guest[c].data /\ guest'[c].error = guest[c].error
           /\ \A e \in Channels \ {c} : guest'[e] = guest[e]
<1> DEFINE z == [guest[c] EXCEPT !.stage = stage]
<1>1. guest' = [guest EXCEPT ![c] = z]
  BY DEF Then
<1>2. /\ z.stage = stage /\ z.job = guest[c].job /\ z.data = guest[c].data
      /\ z.error = guest[c].error
  BY DEF GuestOK
<1> HIDE DEF z
<1> QED  BY <1>1, <1>2 DEF GuestOK

\* What a guest's step leaves alone.
Alongside(c) ==
    /\ \A e \in Channels \ {c} : guest'[e] = guest[e]
    /\ guest'[c].job = guest[c].job
    /\ guest'[c].stage \in {"poll", "interrupt"}
    /\ guest[c].stage # "idle" /\ "BSY" \notin chan[c].status
    /\ UNCHANGED use /\ Running

\* How a guest waits is one of two ways.
LEMMA WaitingIs == Waiting \in {"poll", "interrupt"}
BY DEF Waiting

\* A guest's step in which its channel stays free.
LEMMA FreeAlongside ==
    ASSUME TypeOK, Control, NEW c \in Channels, Alongside(c), slot' = slot,
           NEW y, "BSY" \notin y.status, chan' = [chan EXCEPT ![c] = y]
    PROVE  Control'
<1>1. chan'[c] = y /\ \A e \in Channels \ {c} : chan'[e] = chan[e]
  BY TypeParts DEF DeviceOK
<1>2. Frame(c)
  BY <1>1 DEF Frame, Alongside, Control, JobsUsed
<1> QED  BY <1>1, <1>2, FreeStep DEF Alongside

\* The program that is ended leaves no channel busy.
LEMMA BeyondAlongside ==
    ASSUME TypeOK, Control, NEW c \in Channels, Alongside(c), UNCHANGED <<chan, slot>>
    PROVE  Control'
<1>1. chan' = [chan EXCEPT ![c] = chan[c]]
  BY TypeParts DEF DeviceOK
<1> QED  BY <1>1, FreeAlongside DEF Alongside

\* A guest's step in which its channel has to wait for the disk layer.
LEMMA PendingAlongside ==
    ASSUME TypeOK, Control, NEW c \in Channels, Alongside(c),
           NEW op \in {"read", "write", "prefetch"}, NEW x, NEW y, NEW S, Pending(c, op, x, S),
           Selected(c, x) \in Disks,
           "BSY" \in y.status, y.selected = x.selected, y.command \in OpsOf(op),
           chan' = [chan EXCEPT ![c] = y]
    PROVE  Control'
<1>1. chan'[c] = y /\ \A e \in Channels \ {c} : chan'[e] = chan[e]
  BY TypeParts DEF DeviceOK
<1>2. Frame(c)
  BY <1>1 DEF Frame, Alongside, Control, JobsUsed
<1>3. slot'.busy /\ slot'.op = op /\ slot'.drive = Selected(c, x)
  BY DEF Pending
<1>4. slot'.drive = Selected(c, chan'[c]) /\ TypeOf(slot'.drive) # "none"
  BY <1>1, <1>3 DEF Selected, Disks
<1> QED  BY <1>1, <1>2, <1>3, <1>4, PendingStep DEF Alongside

\* The steps that end with a transfer of the next sector.
LEMMA ReadSectorsControl ==
    ASSUME TypeOK, Control, NEW c \in Channels, Alongside(c), NEW x \in Channel,
           x.command \in PioReads, ReadSectors(c, x)
    PROVE  Control'
<1> DEFINE d == Selected(c, x)
           s == Offset(x, x.lba48)
<1> HIDE DEF d, s
<1>1. CASE ~Reaches(d, {s}) /\ GoBeyond
  BY <1>1, BeyondAlongside DEF GoBeyond
<1>2. CASE /\ Reaches(d, {s}) /\ Cached(d, {s})
           /\ chan' = [chan EXCEPT ![c] = SectorReady(x, store[d].data[s])]
           /\ UNCHANGED <<store, slot, fatal>>
  <2>1. d \in Disks /\ s \in Sectors
    BY <1>2 DEF Reaches
  <2>2. store[d].data[s] \in Values
    BY <2>1, TypeParts DEF DeviceOK
  <2>3. "BSY" \notin SectorReady(x, store[d].data[s]).status
    BY <2>2, SectorReadyIs
  <2> QED  BY <1>2, <2>3, FreeAlongside
<1>3. CASE /\ Reaches(d, {s}) /\ ~Cached(d, {s})
           /\ Pending(c, "read", x, {s})
           /\ chan' = [chan EXCEPT ![c] = Awaiting(x)]
  <2>1. d \in Disks
    BY <1>3 DEF Reaches
  <2>2. "BSY" \in Awaiting(x).status /\ Awaiting(x).selected = x.selected
        /\ Awaiting(x).command \in OpsOf("read")
    BY AwaitingIs DEF SameTask, OpsOf
  <2> QED  BY <1>3, <2>1, <2>2, PendingAlongside DEF d
<1> QED  BY <1>1, <1>2, <1>3 DEF ReadSectors, d, s

\* The end of ide_pio_write_callback() keeps the control of the channels.
LEMMA WriteSectorControl ==
    ASSUME TypeOK, Control, NEW c \in Channels, Alongside(c), NEW x \in Channel,
           x.command \in PioWrites, WriteSector(c, x)
    PROVE  Control'
<1> DEFINE d == Selected(c, x)
           s == Offset(x, x.lba48)
<1> HIDE DEF d, s
<1>1. CASE ~Reaches(d, {s}) /\ GoBeyond
  BY <1>1, BeyondAlongside DEF GoBeyond
<1>2. CASE chan' = [chan EXCEPT ![c] = SectorWritten(x)] /\ UNCHANGED slot
  <2>1. "BSY" \notin SectorWritten(x).status
    BY SectorWrittenIs
  <2> QED  BY <1>2, <2>1, FreeAlongside
<1>3. CASE /\ Reaches(d, {s}) /\ ~Cached(d, {s})
           /\ Pending(c, "write", x, {s})
           /\ chan' = [chan EXCEPT ![c] = Awaiting(x)]
  <2>1. d \in Disks
    BY <1>3 DEF Reaches
  <2>2. "BSY" \in Awaiting(x).status /\ Awaiting(x).selected = x.selected
        /\ Awaiting(x).command \in OpsOf("write")
    BY AwaitingIs DEF SameTask, OpsOf
  <2> QED  BY <1>3, <2>1, <2>2, PendingAlongside DEF d
<1> QED  BY <1>1, <1>2, <1>3 DEF WriteSector, d, s

\* What ide_read_dma_handler() and ide_write_dma_handler() do to a channel and its guest.
LEMMA DmaHandlerIs ==
    ASSUME TypeOK, NEW c \in Channels, NEW x \in Channel, DmaHandler(c, x)
    PROVE  \/ /\ fatal' = "beyond the disk" /\ ~Reaches(Selected(c, x), DmaRange(x))
              /\ UNCHANGED <<chan, store, guest>>
           \/ /\ fatal' = "expected sync response" /\ ~Cached(Selected(c, x), DmaRange(x))
              /\ Reaches(Selected(c, x), DmaRange(x))
              /\ UNCHANGED <<chan, store, guest>>
           \/ /\ Reaches(Selected(c, x), DmaRange(x)) /\ UNCHANGED fatal
              /\ \A e \in Channels \ {c} : chan'[e] = chan[e] /\ guest'[e] = guest[e]
              /\ chan'[c].status = {"DRDY", "DSC"} /\ SameTask(x, chan'[c])
              /\ guest'[c].stage = IF guest[c].stage = "start" THEN Waiting ELSE guest[c].stage
              /\ guest'[c].job = guest[c].job /\ guest'[c].error = guest[c].error
<1> DEFINE d == Selected(c, x)
           S == DmaRange(x)
           from == Offset(x, x.lba48)
           data == [k \in 1 .. Cardinality(S) |->
                       IF x.command = "write dma" THEN InMemory(x, k - 1)
                       ELSE store[d].data[from + k - 1]]
           y == WithOffset(x, x.lba48, from + SectorCount(x, x.lba48))
           z == [y EXCEPT !.status = {"DRDY", "DSC"}, !.irq = TRUE]
           g == [guest[c] EXCEPT !.stage = IF @ = "start" THEN Waiting ELSE @, !.data = data]
<1>1. CASE /\ Reaches(d, S) /\ UNCHANGED fatal
           /\ guest' = [guest EXCEPT ![c] = g]
           /\ chan' = [chan EXCEPT ![c] = z]
  <2>1. GuestOK /\ DeviceOK
    BY TypeParts
  <2>2. x.lba48 \in BOOLEAN /\ from + SectorCount(x, x.lba48) \in Int
    <3>1. x.lba48 \in BOOLEAN
      BY DEF Channel
    <3> QED  BY <3>1, OffsetIsNumber, CountIsPositive
  <2>3. y \in Channel /\ SameButAddress(x, y)
    BY <2>2, WithOffsetKeeps
  <2> HIDE DEF y
  <2>4. z.status = {"DRDY", "DSC"} /\ SameTask(y, z)
    <3>1. SameTask(y, z)
      BY <2>3 DEF Channel, SameTask
    <3> QED  BY <2>3, <3>1 DEF Channel
  <2>5. SameTask(x, z)
    BY <2>3, <2>4 DEF SameTask, SameButAddress
  <2> HIDE DEF z, data
  <2>6. /\ g.stage = IF guest[c].stage = "start" THEN Waiting ELSE guest[c].stage
        /\ g.job = guest[c].job /\ g.error = guest[c].error
    BY <2>1 DEF GuestOK
  <2> HIDE DEF g
  <2>7. chan'[c] = z /\ guest'[c] = g
        /\ \A e \in Channels \ {c} : chan'[e] = chan[e] /\ guest'[e] = guest[e]
    BY <1>1, <2>1 DEF DeviceOK, GuestOK
  <2> QED  BY <1>1, <2>4, <2>5, <2>6, <2>7
<1>2. \/ fatal' = "beyond the disk" /\ ~Reaches(d, S) /\ UNCHANGED <<chan, store, guest>>
      \/ /\ fatal' = "expected sync response" /\ Reaches(d, S) /\ ~Cached(d, S)
         /\ UNCHANGED <<chan, store, guest>>
      \/ /\ Reaches(d, S) /\ UNCHANGED fatal
         /\ guest' = [guest EXCEPT ![c] = g]
         /\ chan' = [chan EXCEPT ![c] = z]
  BY DEF DmaHandler
<1> HIDE DEF g, z
<1> QED  BY <1>1, <1>2 DEF d, S, z, g, data, y

\* The commands keep the control.
LEMMA CommandControl ==
    ASSUME TypeOK, Control, NEW c \in Channels, Command(c)
    PROVE  Control'
<1> DEFINE x == chan[c]
           a == Accepted(c)
           wide == guest[c].job.mode = "lba48"
<1>1. DeviceOK /\ GuestOK /\ x \in Channel
  BY TypeParts DEF DeviceOK
<1>2. ASSUME NEW ops, Commanded(c, ops)
      PROVE  /\ UNCHANGED <<use, jobs>> /\ guest[c].job.op \in ops /\ "BSY" \notin x.status
             /\ guest[c].stage = "command" /\ Running
  BY <1>2 DEF Commanded, At
<1>3. ASSUME NEW stage \in {"poll", "interrupt"}, NEW ops, Commanded(c, ops), Then(c, stage)
      PROVE  Alongside(c)
  BY <1>1, <1>2, <1>3, ThenIs DEF Alongside
<1>4. ASSUME guest[c].job.op \in Ops
      PROVE  /\ a \in Channel /\ a.status = x.status \ {"ERR"} /\ a.command = guest[c].job.op
             /\ a.selected = x.selected
             /\ Widened(a, wide) \in Channel /\ Widened(a, wide).status = a.status
             /\ Widened(a, wide).command = a.command /\ Widened(a, wide).selected = a.selected
             /\ "BSY" \notin Aborted(a).status
  <2>1. /\ a \in Channel /\ a.status = x.status \ {"ERR"} /\ a.command = guest[c].job.op
        /\ a.selected = x.selected
    BY <1>4, AcceptedIs
  <2>2. wide \in BOOLEAN
    OBVIOUS
  <2> HIDE DEF a, wide
  <2>3. /\ Widened(a, wide) \in Channel /\ Widened(a, wide).status = a.status
        /\ Widened(a, wide).command = a.command /\ Widened(a, wide).selected = a.selected
    BY <2>1, <2>2, WidenedIs
  <2>4. "BSY" \notin Aborted(a).status
    BY <2>1, AbortedIs
  <2> QED  BY <2>1, <2>3, <2>4
<1>5. CASE CommandIgnored(c)
  <2> DEFINE y == [x EXCEPT !.irq = FALSE]
  <2>1. /\ At(c, "command") /\ "BSY" \in x.status /\ chan' = [chan EXCEPT ![c] = y]
        /\ Then(c, Waiting) /\ UNCHANGED <<store, slot, fatal, use, jobs>>
    BY <1>5 DEF CommandIgnored
  <2>2. /\ y.status = x.status /\ y.command = x.command /\ y.selected = x.selected
    BY <1>1 DEF Channel
  <2>3. y.srst = x.srst
    BY <1>1 DEF Channel
  <2> HIDE DEF y
  <2>4. chan'[c] = y /\ \A e \in Channels \ {c} : chan'[e] = chan[e]
    BY <1>1, <2>1 DEF DeviceOK
  <2>5. /\ guest'[c].stage = Waiting /\ guest'[c].job = guest[c].job
        /\ \A e \in Channels \ {c} : guest'[e] = guest[e]
    BY <1>1, <2>1, ThenIs
  <2>6. Frame(c)
    BY <2>1, <2>4, <2>5 DEF Frame, At, Control, JobsUsed
  <2>7. TypeOf(Selected(c, x)) # "none" \/ x.srst
    BY <2>1 DEF Control, StageFits, At
  <2>8. Alone => \A e \in Channels \ {c} : guest[e].stage = "idle"
    BY <2>1 DEF Control, OneAtATime, At
  <2>9. TypeOf(Selected(c, y)) # "none" \/ y.srst
    BY <2>2, <2>3, <2>7 DEF Selected
  <2> QED  BY <2>1, <2>2, <2>3, <2>4, <2>5, <2>6, <2>8, <2>9, WaitingIs, SameStep
<1>6. CASE CommandRead(c)
  <2>1. guest[c].job.op \in PioReads /\ guest[c].job.op \in Ops /\ "BSY" \notin x.status
    BY <1>2, <1>6 DEF CommandRead, Ops
  <2>2. Alongside(c)
    BY <1>3, <1>6, WaitingIs DEF CommandRead
  <2>3. CASE chan' = [chan EXCEPT ![c] = Aborted(a)] /\ UNCHANGED slot
    BY <1>4, <2>1, <2>2, <2>3, FreeAlongside
  <2>4. CASE ReadSectors(c, Widened(a, wide))
    BY <1>4, <2>1, <2>2, <2>4, ReadSectorsControl
  <2> QED  BY <1>6, <2>3, <2>4 DEF CommandRead, Widened
<1>7. CASE CommandWrite(c)
  <2>1. guest[c].job.op \in Ops /\ UNCHANGED slot
    BY <1>2, <1>7 DEF CommandWrite, Ops
  <2>2. Alongside(c)
    BY <1>3, <1>7 DEF CommandWrite
  <2>3. "BSY" \notin SectorAwaited(Widened(a, wide)).status
    BY <1>4, <2>1, SectorAwaitedIs
  <2> DEFINE y == IF Rejects(c, guest[c].job.op) THEN Aborted(a)
                  ELSE SectorAwaited(Widened(a, wide))
  <2>4. chan' = [chan EXCEPT ![c] = y]
    BY <1>7 DEF CommandWrite, Widened
  <2>5. "BSY" \notin y.status
    BY <1>4, <2>1, <2>3
  <2> HIDE DEF y
  <2> QED  BY <2>1, <2>2, <2>4, <2>5, FreeAlongside
<1>8. CASE CommandDma(c)
  <2>1. guest[c].job.op \in DmaOps /\ guest[c].job.op \in Ops /\ "BSY" \notin x.status
        /\ Running /\ guest[c].stage = "command" /\ UNCHANGED <<slot, use>>
    BY <1>2, <1>8 DEF CommandDma, Ops
  <2> DEFINE y == [a EXCEPT !.lba48 = wide, !.status = {"DSC", "DRQ", "DRDY"}]
  <2>2. chan' = [chan EXCEPT ![c] = y] /\ Then(c, "start")
    BY <1>8 DEF CommandDma
  <2>3. "BSY" \notin y.status /\ y.command = guest[c].job.op
    BY <1>4, <2>1 DEF Channel
  <2> HIDE DEF y
  <2>4. chan'[c] = y /\ \A e \in Channels \ {c} : chan'[e] = chan[e]
    BY <1>1, <2>2 DEF DeviceOK
  <2>5. /\ guest'[c].stage = "start" /\ guest'[c].job = guest[c].job
        /\ \A e \in Channels \ {c} : guest'[e] = guest[e]
    BY <1>1, <2>2, ThenIs
  <2>6. Frame(c)
    BY <2>1, <2>4, <2>5 DEF Frame, Control, JobsUsed
  <2> QED  BY <2>1, <2>3, <2>4, <2>5, <2>6, FreeStep
<1>9. CASE CommandIdentify(c)
  <2>1. guest[c].job.op \in Ops /\ UNCHANGED slot
    BY <1>2, <1>9 DEF CommandIdentify, Ops
  <2>2. Alongside(c)
    BY <1>3, <1>9, WaitingIs DEF CommandIdentify
  <2> DEFINE y == [a EXCEPT !.status = {"DRDY", "DRQ", "DSC"}, !.buffer = Junk, !.irq = TRUE,
                            !.length = SectorAccesses, !.position = 0]
             z == Aborted(Signed(a, TypeOf(Selected(c, a))))
  <2>3. "BSY" \notin y.status
    BY <1>4, <2>1 DEF Channel
  <2>4. "BSY" \notin z.status
    BY <1>4, <2>1, SignedIs, AbortedIs
  <2>5. chan' = [chan EXCEPT ![c] = IF TypeOf(Selected(c, a)) = "disk" THEN y ELSE z]
    BY <1>9 DEF CommandIdentify
  <2> HIDE DEF y, z
  <2> QED  BY <2>1, <2>2, <2>3, <2>4, <2>5, FreeAlongside
<1>10. CASE CommandNonData(c)
  <2>1. guest[c].job.op \in NonData \ {"verify"} /\ guest[c].job.op \in Ops /\ UNCHANGED slot
        /\ "BSY" \notin x.status
    BY <1>2, <1>10 DEF CommandNonData, Ops
  <2>2. Alongside(c)
    BY <1>3, <1>10, WaitingIs DEF CommandNonData
  <2> DEFINE y == Performed(a, TypeOf(Selected(c, a)), guest[c].job.op)
  <2>3. "BSY" \notin y.status
    BY <1>4, <2>1, PerformedIs
  <2>4. chan' = [chan EXCEPT ![c] = y]
    BY <1>10 DEF CommandNonData
  <2> HIDE DEF y
  <2> QED  BY <2>1, <2>2, <2>3, <2>4, FreeAlongside
<1>11. CASE CommandVerify(c)
  <2> DEFINE o == Offset(a, wide) + Low(a.count) - 1
             y == Raised(WithOffset(a, wide, o))
  <2>1. guest[c].job.op = "verify" /\ guest[c].job.op \in Ops /\ UNCHANGED <<slot, use>>
        /\ "BSY" \notin x.status /\ Running
    <3>1. Commanded(c, {"verify"}) /\ UNCHANGED <<store, slot, fatal>>
      BY <1>11 DEF CommandVerify
    <3>2. UNCHANGED <<use, jobs>> /\ guest[c].job.op \in {"verify"} /\ "BSY" \notin x.status /\ Running
      BY <1>2, <3>1
    <3> QED  BY <3>1, <3>2 DEF Ops, NonData
  <2>2. Alongside(c)
    BY <1>3, <1>11, WaitingIs DEF CommandVerify
  <2>3. CASE chan' = [chan EXCEPT ![c] = Aborted(a)]
    BY <1>4, <2>1, <2>2, <2>3, FreeAlongside
  <2>4. CASE chan' = [[chan EXCEPT ![c] = y] EXCEPT ![Primary].status = {"DRDY"}]
    <3>1. y \in Channel /\ "BSY" \notin y.status /\ y.command = guest[c].job.op
      <4>1. a \in Channel /\ wide \in BOOLEAN
        BY <1>4, <2>1
      <4>2. Offset(a, wide) \in Int /\ Low(a.count) \in Int
        <5> HIDE DEF a, wide
        <5>1. a.count \in Int
          BY <4>1, Constants DEF Channel, Register
        <5> QED  BY <4>1, <5>1, OffsetIsNumber, LowIsByte
      <4>3. o \in Int
        BY <4>2
      <4> DEFINE w == WithOffset(a, wide, o)
      <4>4. w \in Channel /\ SameButAddress(a, w)
        BY <4>1, <4>3, WithOffsetKeeps
      <4>5. w.status = a.status /\ w.command = a.command
        BY <4>4 DEF SameButAddress
      <4> HIDE DEF w
      <4>6. Raised(w) \in Channel /\ Raised(w).status = w.status /\ Raised(w).command = w.command
        BY <4>4, RaisedIs DEF SameTask
      <4> QED  BY <1>4, <2>1, <4>5, <4>6 DEF w
    <3> HIDE DEF y
    <3>2. Primary \in Channels
      BY IdeAssumption
    <3>3. /\ "BSY" \notin chan'[c].status /\ "BSY" \notin chan'[Primary].status
          /\ chan'[c].command = guest[c].job.op
          /\ \A e \in Channels \ {c} : chan'[e].command = chan[e].command
          /\ \A e \in Channels \ {c, Primary} : chan'[e] = chan[e]
      <4> DEFINE m == [chan EXCEPT ![c] = y]
      <4>1. m \in [Channels -> Channel] /\ m[c] = y /\ \A e \in Channels \ {c} : m[e] = chan[e]
        BY <1>1, <3>1 DEF DeviceOK
      <4> HIDE DEF m
      <4> DEFINE p == [m[Primary] EXCEPT !.status = {"DRDY"}]
      <4>2. chan' = [m EXCEPT ![Primary] = p]
        BY <2>4 DEF m
      <4>3. p.status = {"DRDY"} /\ p.command = m[Primary].command
        <5>1. m[Primary] \in Channel
          BY <3>2, <4>1
        <5> QED  BY <5>1 DEF Channel
      <4> HIDE DEF p
      <4>4. chan'[Primary] = p /\ \A e \in Channels \ {Primary} : chan'[e] = m[e]
        BY <3>2, <4>1, <4>2
      <4> QED  BY <3>1, <3>2, <4>1, <4>3, <4>4
    <3>4. \A e \in Channels : "BSY" \in chan'[e].status => chan'[e] = chan[e] /\ e # c
      BY <3>2, <3>3
    <3>5. StageFits'
      <4> SUFFICES ASSUME NEW e \in Channels
                   PROVE  /\ guest'[e].stage \in {"start", "data", "over"} =>
                                "BSY" \notin chan'[e].status
                          /\ guest'[e].stage = "start" => chan'[e].command \in DmaOps
                          /\ guest'[e].stage # "idle" /\ "BSY" \in chan'[e].status =>
                                TypeOf(Selected(e, chan'[e])) # "none" \/ chan'[e].srst
        BY DEF StageFits, Selected
      <4>1. CASE e = c
        BY <3>3, <4>1, <2>2 DEF Alongside
      <4>2. CASE e # c
        BY <3>3, <3>4, <4>2, <2>2 DEF Alongside, Control, StageFits
      <4> QED  BY <4>1, <4>2
    <3>6. Alone => \A e \in Channels : "BSY" \notin chan'[e].status
      BY <2>2, <3>4 DEF Control, OneAtATime, Alongside
    <3>7. OneAtATime'
      <4>1. Alone' = Alone
        BY <2>1, HabitsStay
      <4> QED  BY <2>2, <3>6, <4>1 DEF Control, OneAtATime, Alongside
    <3>8. JobsUsed'
      BY <2>2 DEF Control, JobsUsed, Alongside
    <3>9. Alone \/ Disturbed
      <4>1. guest[c].job \in use.jobs
        BY <2>1 DEF Control, JobsUsed, NoJob
      <4> QED  BY <2>1, <4>1 DEF Alone, Disturbed
    <3>10. Alone => ~slot.busy
      <4>1. Alone => "BSY" \notin chan[slot.drive[1]].status
        BY <2>1, <2>2, DriveOfChannel DEF Control, OneAtATime, Alongside
      <4> QED  BY <4>1, AwaitedParts, AloneUndisturbed DEF Control
    <3>11. CompletionAwaited'
      <4>1. Alone' = Alone /\ Disturbed' = Disturbed /\ slot' = slot
        BY <2>1, HabitsStay
      <4> QED  BY <3>6, <3>9, <3>10, <4>1 DEF CompletionAwaited, Alone
    <3> QED  BY <3>5, <3>7, <3>8, <3>11 DEF Control
  <2> QED  BY <1>11, <2>3, <2>4 DEF CommandVerify
<1> QED
  BY <1>5, <1>6, <1>7, <1>8, <1>9, <1>10, <1>11 DEF Command

\* The bus master's steps keep the control.
LEMMA StartDmaControl ==
    ASSUME TypeOK, Control, NEW c \in Channels, NEW table \in Tables(c), StartDma(c, table)
    PROVE  Control'
<1> DEFINE x == WithTable(chan[c], table)
           S == Prefetched(x)
           y == [x EXCEPT !.status = @ \cup {"BSY"}]
<1>1. DeviceOK /\ GuestOK
  BY TypeParts
<1>2. /\ x \in Channel /\ x.status = chan[c].status /\ x.command = chan[c].command
      /\ x.selected = chan[c].selected
  <2>1. table \in Table
    BY <1>1, TablesAre DEF GuestOK
  <2> QED  BY <1>1, <2>1, WithTableIs DEF DeviceOK
<1> HIDE DEF x
<1>3. /\ Running /\ guest[c].stage = "start" /\ "BSY" \notin chan[c].status
      /\ chan[c].command \in DmaOps /\ UNCHANGED use
  BY StartDmaIs DEF At, Control, StageFits
<1>4. CASE GoBeyond /\ UNCHANGED guest
  BY <1>3, <1>4, QuietStep DEF GoBeyond
<1>5. CASE DmaHandler(c, x) /\ UNCHANGED slot
  <2>1. CASE UNCHANGED <<chan, guest>>
    BY <1>3, <1>5, <2>1, QuietStep
  <2>2. CASE /\ \A e \in Channels \ {c} : chan'[e] = chan[e] /\ guest'[e] = guest[e]
             /\ chan'[c].status = {"DRDY", "DSC"} /\ SameTask(x, chan'[c])
             /\ guest'[c].stage = IF guest[c].stage = "start" THEN Waiting ELSE guest[c].stage
             /\ guest'[c].job = guest[c].job
    <3>1. Frame(c)
      BY <1>3, <2>2 DEF Frame, Control, JobsUsed
    <3>2. "BSY" \notin chan'[c].status /\ guest'[c].stage # "start"
      BY <1>3, <2>2, WaitingIs
    <3> QED  BY <1>3, <1>5, <3>1, <3>2, FreeStep
  <2> QED  BY <1>2, <1>5, <2>1, <2>2, DmaHandlerIs
<1>6. CASE /\ Reaches(Selected(c, x), S)
           /\ Pending(c, "prefetch", x, S)
           /\ chan' = [chan EXCEPT ![c] = y]
           /\ Then(c, Waiting)
  <2>1. Selected(c, x) \in Disks
    BY <1>6 DEF Reaches
  <2>2. "BSY" \in y.status /\ y.command = x.command /\ y.selected = x.selected
    BY <1>2 DEF Channel
  <2>3. y.command \in OpsOf("prefetch")
    BY <1>2, <1>3, <2>2 DEF OpsOf
  <2>4. Alongside(c)
    BY <1>1, <1>3, <1>6, ThenIs, WaitingIs DEF Alongside
  <2> HIDE DEF y, S
  <2> QED  BY <1>6, <2>1, <2>2, <2>3, <2>4, PendingAlongside
<1> QED  BY <1>4, <1>5, <1>6, StartDmaIs DEF x

\* The accesses to the data port keep the control.
LEMMA DataReadControl ==
    ASSUME TypeOK, Control, NEW c \in Channels, DataRead(c)
    PROVE  Control'
<1> DEFINE x == Emptied(chan[c])
           y == [Raised(x) EXCEPT !.status = {"DRDY", "DSC"}]
           z == [guest[c] EXCEPT !.data = Append(@, x.buffer),
                                 !.stage = IF x.command = "identify" THEN "poll" ELSE Waiting]
<1>1. DeviceOK /\ GuestOK
  BY TypeParts
<1>2. x \in Channel /\ x.status = chan[c].status \ {"DRQ"}
  BY <1>1, EmptiedIs DEF DeviceOK
<1>3. Running /\ guest[c].stage = "data" /\ "BSY" \notin chan[c].status /\ UNCHANGED use
  BY DataReadIs DEF At, Control, StageFits
<1>4. guest' = [guest EXCEPT ![c] = z]
  BY ZenonT(40), DataReadIs DEF x
<1> HIDE DEF x
<1>5. z.job = guest[c].job /\ z.stage \in {"poll", "interrupt"}
  BY <1>1, WaitingIs DEF GuestOK
<1> HIDE DEF z
<1>6. Alongside(c)
  BY <1>1, <1>3, <1>4, <1>5 DEF Alongside, GuestOK
<1>7. Raised(x) \in Channel /\ Raised(x).command = x.command
  BY <1>2, RaisedIs DEF SameTask
<1>8. CASE chan' = [chan EXCEPT ![c] = x] /\ UNCHANGED slot
  BY <1>2, <1>3, <1>6, <1>8, FreeAlongside
<1>9. CASE x.command \in PioReads /\ ReadSectors(c, Raised(x))
  BY <1>6, <1>7, <1>9, ReadSectorsControl
<1>10. CASE chan' = [chan EXCEPT ![c] = y] /\ UNCHANGED slot
  <2>1. "BSY" \notin y.status
    BY <1>7 DEF Channel
  <2> HIDE DEF y
  <2> QED  BY <1>6, <1>10, <2>1, FreeAlongside
<1>11. CASE UNCHANGED <<chan, slot>>
  BY <1>6, <1>11, BeyondAlongside
<1> QED  BY <1>8, <1>9, <1>10, <1>11, DataReadIs DEF x, y

\* A sector that was written keeps the control.
LEMMA DataWriteControl ==
    ASSUME TypeOK, Control, NEW c \in Channels, DataWrite(c)
    PROVE  Control'
<1> DEFINE value == Written(<<c, guest[c].job.drive>>, guest[c].job.first + Len(guest[c].data))
           x == Filled(chan[c], value)
           z == [guest[c] EXCEPT !.data = Append(@, value), !.stage = Waiting]
<1>1. DeviceOK /\ GuestOK
  BY TypeParts
<1>2. value \in Values
  BY <1>1, WrittenByGuest
<1>3. x \in Channel /\ x.status = chan[c].status
  BY <1>1, <1>2, FilledIs DEF DeviceOK
<1>4. Running /\ guest[c].stage = "data" /\ "BSY" \notin chan[c].status /\ UNCHANGED use
  BY DataWriteIs DEF At, Control, StageFits
<1>5. guest' = [guest EXCEPT ![c] = z]
  BY ZenonT(40), DataWriteIs
<1> HIDE DEF value
<1>6. z.job = guest[c].job /\ z.stage \in {"poll", "interrupt"}
  BY <1>1, WaitingIs DEF GuestOK
<1> HIDE DEF z, x
<1>7. Alongside(c)
  BY <1>1, <1>4, <1>5, <1>6 DEF Alongside, GuestOK
<1>8. Raised(x) \in Channel /\ Raised(x).command = x.command
  BY <1>3, RaisedIs DEF SameTask
<1>9. CASE x.command \in PioWrites /\ WriteSector(c, Raised(x))
  BY <1>7, <1>8, <1>9, WriteSectorControl
<1>10. CASE UNCHANGED <<chan, slot>>
  BY <1>7, <1>10, BeyondAlongside
<1> QED  BY <1>9, <1>10, DataWriteIs DEF x, value

\* A completion keeps the control: its channel is not busy any more.
LEMMA CompleteControl ==
    ASSUME TypeOK, Control, NEW c \in Channels, Complete(c)
    PROVE  Control'
<1> DEFINE x == chan[c]
           d == slot.drive
<1>1. DeviceOK /\ GuestOK /\ x \in Channel
  BY TypeParts DEF DeviceOK
<1>2. d \in Disks /\ slot.first \in Sectors /\ x.buffer \in Values
  BY <1>1, CompleteIs DEF DeviceOK, Channel
<1>3. ~slot'.busy /\ UNCHANGED use /\ Running
  BY <1>1, CompleteIs DEF DeviceOK
<1>4. CASE UNCHANGED <<chan, guest>> /\ fatal' # "no"
  <2>1. StageFits'
    BY <1>4 DEF Control, StageFits, TypeOf, Selected
  <2>2. OneAtATime' /\ JobsUsed'
    BY <1>3, <1>4, HabitsStay DEF Control, OneAtATime, JobsUsed
  <2>3. CompletionAwaited'
    BY <1>3, <1>4 DEF CompletionAwaited, Running
  <2> QED  BY <2>1, <2>2, <2>3 DEF Control
<1>5. CASE /\ "BSY" \notin chan'[c].status /\ chan'[c].command = x.command
           /\ \A e \in Channels \ {c} : chan'[e] = chan[e] /\ guest'[e] = guest[e]
           /\ guest'[c].job = guest[c].job
           /\ guest'[c].stage = guest[c].stage
              \/ (guest'[c].stage \in {"poll", "interrupt"} /\ guest[c].stage # "idle")
  <2>1. StageFits'
    BY <1>5 DEF Control, StageFits, TypeOf, Selected
  <2>2. JobsUsed'
    BY <1>3, <1>5 DEF Control, JobsUsed
  <2>3. Alone' = Alone
    BY <1>3, HabitsStay
  <2>4. OneAtATime'
    BY <1>5, <2>3 DEF Control, OneAtATime
  <2>5. CompletionAwaited'
    <3>1. ASSUME Alone, NEW a \in Channels, "BSY" \in chan'[a].status
          PROVE  chan'[a].srst
      <4>1. a # c /\ chan'[a] = chan[a]
        BY <1>5, <3>1
      <4>2. slot.drive[1] = c
        BY CompleteIs
      <4> QED  BY <1>3, <3>1, <4>1, <4>2, AwaitedParts DEF Control
    <3> QED  BY <1>3, <2>3, <3>1 DEF CompletionAwaited, Alone
  <2> QED  BY <2>1, <2>2, <2>4, <2>5 DEF Control
<1>6. CASE /\ chan' = [chan EXCEPT ![c] = SectorReady(x, store[d].data[slot.first])]
           /\ UNCHANGED <<store, guest, fatal>>
  <2>1. store[d].data[slot.first] \in Values
    BY <1>1, <1>2 DEF DeviceOK
  <2> DEFINE y == SectorReady(x, store[d].data[slot.first])
  <2>2. "BSY" \notin y.status /\ y.command = x.command
    BY <1>1, <2>1, SectorReadyIs DEF SameTask
  <2> HIDE DEF y
  <2> QED  BY <1>1, <1>5, <1>6, <2>2 DEF DeviceOK, y
<1>7. CASE chan' = [chan EXCEPT ![c] = SectorWritten(x)] /\ UNCHANGED guest
  <2>1. "BSY" \notin SectorWritten(x).status /\ SectorWritten(x).command = x.command
    BY <1>1, SectorWrittenIs DEF SameTask
  <2> QED  BY <1>1, <1>5, <1>7, <2>1 DEF DeviceOK
<1>8. CASE DmaHandler(c, x)
  <2>1. CASE fatal' \in {"beyond the disk", "expected sync response"} /\ UNCHANGED <<chan, store, guest>>
    BY <1>4, <2>1
  <2>2. CASE /\ \A e \in Channels \ {c} : chan'[e] = chan[e] /\ guest'[e] = guest[e]
             /\ chan'[c].status = {"DRDY", "DSC"} /\ SameTask(x, chan'[c])
             /\ guest'[c].stage = IF guest[c].stage = "start" THEN Waiting ELSE guest[c].stage
             /\ guest'[c].job = guest[c].job
    BY <1>5, <2>2, WaitingIs DEF SameTask
  <2> QED  BY <1>1, <1>8, <2>1, <2>2, DmaHandlerIs
<1> QED  BY <1>6, <1>7, <1>8, CompleteIs

\* The other steps keep the control.
LEMMA SetUpControl ==
    ASSUME TypeOK, Control, NEW c \in Channels, NEW j \in use.jobs, SetUp(c, j)
    PROVE  Control'
<1> DEFINE x == chan[c]
           y == TaskFile(x, j)
           g == [stage |-> "command", job |-> j, data |-> <<>>, error |-> FALSE]
<1>1. DeviceOK /\ GuestOK /\ x \in Channel /\ j \in Job
  BY TypeParts, UseIs DEF DeviceOK
<1>2. /\ chan' = [chan EXCEPT ![c] = y] /\ guest' = [guest EXCEPT ![c] = g]
      /\ UNCHANGED <<slot, use>>
      /\ Type[c][j.drive] # "none"
      /\ "BSY" \in x.status => "hasty" \in use.habits
      /\ Running
      /\ "overlap" \in use.habits \/ \A e \in Channels \ {c} : guest[e].stage = "idle"
  BY SetUpIs DEF At
<1>3. /\ y.status = x.status /\ y.command = x.command /\ y.selected = j.drive /\ y.srst = x.srst
  BY <1>1, TaskFileIs
<1> HIDE DEF y
<1>4. chan'[c] = y /\ \A e \in Channels \ {c} : chan'[e] = chan[e]
  BY <1>1, <1>2 DEF DeviceOK
<1>5. guest'[c] = g /\ \A e \in Channels \ {c} : guest'[e] = guest[e]
  BY <1>1, <1>2 DEF GuestOK
<1>6. Frame(c)
  BY <1>2, <1>4, <1>5 DEF Frame
<1>7. TypeOf(Selected(c, y)) # "none"
  BY <1>2, <1>3 DEF TypeOf, Selected
<1>8. "BSY" \in x.status => ~Without({"hasty"})
  BY <1>2 DEF Without
<1>9. Alone => \A e \in Channels \ {c} : guest[e].stage = "idle"
  BY <1>2 DEF Alone, Without
<1> QED
  BY <1>2, <1>3, <1>4, <1>5, <1>6, <1>7, <1>8, <1>9, SameStep

\* So does a read of the status register.
LEMMA ReadStatusControl ==
    ASSUME TypeOK, Control, NEW c \in Channels, ReadStatus(c)
    PROVE  Control'
<1> DEFINE x == chan[c]
           answers == TypeOf(Selected(c, x)) # "none" \/ x.srst
           status  == IF answers THEN x.status ELSE {}
           due     == "DRQ" \in status /\ guest[c].job.op \in PioReads \cup PioWrites \cup {"identify"}
           y == [x EXCEPT !.irq = @ /\ ~answers]
           stage == IF "BSY" \in status THEN guest[c].stage ELSE IF due THEN "data" ELSE "over"
           error == "DRDY" \notin status \/ "ERR" \in status
           g == [guest[c] EXCEPT !.stage = stage, !.error = error]
<1>1. DeviceOK /\ GuestOK /\ x \in Channel
  BY TypeParts DEF DeviceOK
<1>2. /\ Running /\ guest[c].stage \in {"poll", "interrupt"} /\ UNCHANGED <<slot, use>>
      /\ chan' = [chan EXCEPT ![c] = y] /\ guest' = [guest EXCEPT ![c] = g]
  BY DEF ReadStatus, At
<1> HIDE DEF error, answers
<1>3. /\ y.status = x.status /\ y.command = x.command /\ y.selected = x.selected
  BY <1>1 DEF Channel
<1>4. y.srst = x.srst
  BY <1>1 DEF Channel
<1>5. g.stage = stage /\ g.job = guest[c].job
  BY <1>1 DEF GuestOK
<1> HIDE DEF y, g
<1>6. chan'[c] = y /\ \A e \in Channels \ {c} : chan'[e] = chan[e]
  BY <1>1, <1>2 DEF DeviceOK
<1>7. guest'[c] = g /\ \A e \in Channels \ {c} : guest'[e] = guest[e]
  BY <1>1, <1>2 DEF GuestOK
<1>8. Frame(c)
  BY <1>2, <1>5, <1>6, <1>7 DEF Frame, Control, JobsUsed
<1>9. CASE "BSY" \in x.status
  <2>1. answers
    BY <1>2, <1>9 DEF Control, StageFits, answers
  <2>2. stage = guest[c].stage
    BY <1>9, <2>1
  <2>3. Alone => \A e \in Channels \ {c} : guest[e].stage = "idle"
    BY <1>2 DEF Control, OneAtATime
  <2>4. TypeOf(Selected(c, y)) # "none" \/ y.srst
    BY <1>3, <1>4, <2>1 DEF Selected, answers
  <2> HIDE DEF stage
  <2> QED  BY <1>2, <1>3, <1>4, <1>5, <1>6, <1>7, <1>8, <1>9, <2>2, <2>3, <2>4, SameStep
<1>10. CASE "BSY" \notin x.status
  <2>1. stage \in {"data", "over"}
    BY <1>10
  <2> HIDE DEF stage
  <2> QED  BY <1>2, <1>3, <1>5, <1>6, <1>7, <1>8, <1>10, <2>1, FreeStep
<1> QED  BY <1>9, <1>10

\* So do the accesses that move no sector, the end of a command and software reset.
LEMMA OtherControl ==
    ASSUME TypeOK, Control, NEW c \in Channels,
           DataAccess(c) \/ Finish(c) \/ SetReset(c) \/ ClearReset(c) \/ ToggleMask(c)
    PROVE  Control'
<1> DEFINE x == chan[c]
<1>1. DeviceOK /\ GuestOK /\ x \in Channel
  BY TypeParts DEF DeviceOK
<1>2. ASSUME NEW y, chan' = [chan EXCEPT ![c] = y]
      PROVE  chan'[c] = y /\ \A e \in Channels \ {c} : chan'[e] = chan[e]
  BY <1>1, <1>2 DEF DeviceOK
<1>3. ASSUME NEW y, chan' = [chan EXCEPT ![c] = y], UNCHANGED <<slot, guest, fatal, use>>,
             y.status = x.status, y.command = x.command, y.selected = x.selected, y.srst = x.srst
      PROVE  Control'
  <2>1. chan'[c] = y /\ \A e \in Channels \ {c} : chan'[e] = chan[e]
    BY <1>2, <1>3
  <2> QED  BY <1>3, <2>1, QuietStep DEF Running
<1>4. CASE DataAccess(c)
  <2> DEFINE y == [x EXCEPT !.position = @ + 1]
  <2>1. chan' = [chan EXCEPT ![c] = y] /\ UNCHANGED <<slot, guest, fatal, use>>
    BY <1>4 DEF DataAccess
  <2>2. y.status = x.status /\ y.command = x.command /\ y.selected = x.selected
    BY <1>1 DEF Channel
  <2>3. y.srst = x.srst
    BY <1>1 DEF Channel
  <2> HIDE DEF y
  <2> QED  BY <1>3, <2>1, <2>2, <2>3
<1>5. CASE ToggleMask(c)
  <2> DEFINE y == [x EXCEPT !.nien = ~@]
  <2>1. chan' = [chan EXCEPT ![c] = y] /\ UNCHANGED <<slot, guest, fatal, use>>
    BY <1>5 DEF ToggleMask
  <2>2. y.status = x.status /\ y.command = x.command /\ y.selected = x.selected
    BY <1>1 DEF Channel
  <2>3. y.srst = x.srst
    BY <1>1 DEF Channel
  <2> HIDE DEF y
  <2> QED  BY <1>3, <2>1, <2>2, <2>3
<1>6. CASE Finish(c)
  <2>1. Running /\ guest[c].stage = "over" /\ UNCHANGED <<chan, slot, use>>
        /\ guest' = [guest EXCEPT ![c] = Free]
    BY <1>6 DEF Finish, At
  <2>2. guest'[c] = Free /\ \A e \in Channels \ {c} : guest'[e] = guest[e]
    BY <1>1, <2>1 DEF GuestOK
  <2>3. Frame(c)
    BY <2>1, <2>2 DEF Frame, Free
  <2>4. "BSY" \notin x.status
    BY <2>1 DEF Control, StageFits
  <2> QED  BY <2>1, <2>2, <2>3, <2>4, FreeStep DEF Free
<1>7. CASE SetReset(c)
  <2> DEFINE y == [x EXCEPT !.srst = TRUE, !.status = @ \cup {"BSY"}]
  <2>1. /\ Running /\ guest[c].stage # "idle" /\ chan' = [chan EXCEPT ![c] = y]
        /\ UNCHANGED <<slot, use>> /\ Then(c, "reset")
    BY <1>7 DEF SetReset
  <2>2. y.status = x.status \cup {"BSY"} /\ y.command = x.command /\ y.selected = x.selected
    BY <1>1 DEF Channel
  <2>3. y.srst
    BY <1>1 DEF Channel
  <2> HIDE DEF y
  <2>4. chan'[c] = y /\ \A e \in Channels \ {c} : chan'[e] = chan[e]
    BY <1>2, <2>1
  <2>5. /\ guest'[c].stage = "reset" /\ guest'[c].job = guest[c].job
        /\ \A e \in Channels \ {c} : guest'[e] = guest[e]
    BY <1>1, <2>1, ThenIs
  <2>6. Frame(c)
    BY <2>1, <2>4, <2>5 DEF Frame, Control, JobsUsed
  <2>7. Alone => \A e \in Channels \ {c} : guest[e].stage = "idle"
    BY <2>1 DEF Control, OneAtATime
  <2> QED  BY <2>1, <2>2, <2>3, <2>4, <2>5, <2>6, <2>7, SameStep
<1>8. CASE ClearReset(c)
  <2> DEFINE z == Signed(x, TypeOf(Selected(c, x)))
             y == [z EXCEPT !.srst = FALSE, !.status = {"DRDY"}, !.selected = 0]
  <2>1. /\ Running /\ guest[c].stage = "reset" /\ chan' = [chan EXCEPT ![c] = y]
        /\ slot' = [slot EXCEPT !.busy = FALSE]
        /\ UNCHANGED use /\ guest' = [guest EXCEPT ![c] = Free]
    BY <1>8 DEF ClearReset, At
  <2>2. y.status = {"DRDY"}
    <3>1. z \in Channel
      BY <1>1, SignedIs
    <3> HIDE DEF z
    <3> QED  BY <3>1 DEF Channel
  <2> HIDE DEF y
  <2>3. chan'[c] = y /\ \A e \in Channels \ {c} : chan'[e] = chan[e]
    BY <1>2, <2>1
  <2>4. guest'[c] = Free /\ \A e \in Channels \ {c} : guest'[e] = guest[e]
    BY <1>1, <2>1 DEF GuestOK
  <2>5. ~slot'.busy /\ Alone' = Alone
    BY <1>1, <2>1, HabitsStay DEF DeviceOK
  <2>6. Alone => \A e \in Channels : "BSY" \notin chan'[e].status
    BY <2>1, <2>2, <2>3 DEF Control, OneAtATime
  <2>7. StageFits'
    BY <2>2, <2>3, <2>4 DEF Control, StageFits, Free, TypeOf, Selected
  <2>8. OneAtATime'
    BY <2>1, <2>4, <2>5, <2>6 DEF Control, OneAtATime, Free
  <2>9. JobsUsed'
    BY <2>1, <2>4 DEF Control, JobsUsed, Free
  <2>10. CompletionAwaited'
    BY <2>5, <2>6 DEF CompletionAwaited, Alone
  <2> QED  BY <2>7, <2>8, <2>9, <2>10 DEF Control
<1> QED  BY <1>4, <1>5, <1>6, <1>7, <1>8

\* So does a reset of the machine.
LEMMA ResetControl ==
    ASSUME TypeOK, Control, Reset
    PROVE  Control'
<1>1. /\ Running /\ "machine" \in use.habits /\ UNCHANGED <<slot, use>>
      /\ chan' = [c \in Channels |-> [chan[c] EXCEPT !.selected = 0]]
      /\ guest' = [c \in Channels |-> Free]
  BY DEF Reset
<1>2. ASSUME NEW c \in Channels
      PROVE  /\ chan'[c].status = chan[c].status /\ chan'[c].command = chan[c].command
             /\ guest'[c] = Free
  <2>1. chan[c] \in Channel
    BY TypeParts DEF DeviceOK
  <2> QED  BY <1>1, <2>1 DEF Channel
<1>3. ~Alone' /\ ~Without({"machine", "hasty"})'
  BY <1>1 DEF Alone, Without
<1>4. StageFits' /\ OneAtATime' /\ JobsUsed'
  BY <1>2, <1>3 DEF StageFits, OneAtATime, JobsUsed, Free
<1>5. CompletionAwaited'
  <2>1. slot.drive[1] \in Channels /\ slot' = slot /\ Disturbed' = Disturbed
    BY <1>1, DriveOfChannel, HabitsStay
  <2> QED  BY <1>2, <1>3, <2>1, AwaitedParts DEF Control, CompletionAwaited, OpsOf, Alone
<1> QED  BY <1>4, <1>5 DEF Control

\* Every step keeps the control.
LEMMA NextControl ==
    ASSUME TypeOK, Control, [Next]_vars
    PROVE  Control'
<1>1. CASE UNCHANGED vars
  BY <1>1, QuietStep DEF vars, Running
<1>2. CASE Reset
  BY <1>2, ResetControl
<1>3. ASSUME NEW c \in Channels, GuestStep(c)
      PROVE  Control'
  BY <1>3, CommandControl, StartDmaControl, ReadStatusControl, DataReadControl, DataWriteControl,
     OtherControl DEF GuestStep
<1>4. ASSUME NEW c \in Channels,
             (\E j \in use.jobs : SetUp(c, j)) \/ Complete(c) \/ SetReset(c) \/ ToggleMask(c)
      PROVE  Control'
  BY <1>4, SetUpControl, CompleteControl, OtherControl
<1> QED  BY <1>1, <1>2, <1>3, <1>4 DEF Next

\* At first no channel is busy.
LEMMA InitControl ==
    ASSUME Init
    PROVE  Control
<1>1. \A c \in Channels : chan[c].status = {} /\ guest[c] = Free
  BY DEF Init
<1>2. ~slot.busy
  BY DEF Init
<1> QED  BY <1>1, <1>2 DEF Control, StageFits, OneAtATime, JobsUsed, CompletionAwaited, Free

\* A completion never comes upon a channel that has gone on to something else, and no channel
\* stays busy without a transfer that is pending: for every number of channels and drives.
THEOREM CompletionIsAwaited == Spec => []CompletionAwaited
<1>1. Init => TypeOK /\ Control
  BY InitTypes, InitControl
<1>2. TypeOK /\ Control /\ [Next]_vars => (TypeOK /\ Control)'
  BY NextTypes, NextControl
<1>3. TypeOK /\ Control => CompletionAwaited
  BY DEF Control
<1> QED  BY <1>1, <1>2, <1>3, PTL DEF Spec

-----------------------------------------------------------------------------
(* Where data go.                                                           *)

\* The guests look at BSY, and no READ VERIFY on one channel meets a transfer of another.
Calm == Without({"hasty"}) /\ ~Disturbed

Wide(j) == j.mode = "lba48"
Of(c, j) == <<c, j.drive>>
Holds(d) == IF d \in Disks THEN store[d].data ELSE <<>>

-----------------------------------------------------------------------------
(* The registers while a job is done.                                       *)

\* The count register counts down from the job's count.
CountIs(x, j, m) == IF Wide(j) THEN x.count = m ELSE Low(x.count) = m % Byte

\* The registers name the k-th sector of the job, counted from 0, and what is left from there.
Stands(x, j, k) ==
    /\ x.selected = j.drive /\ x.lba = (j.mode # "chs")
    /\ CountIs(x, j, j.count - k)
    /\ k < j.count => Offset(x, Wide(j)) = j.first + k

AtWork(x, j, k) == x.lba48 = Wide(j) /\ x.command = j.op /\ Stands(x, j, k)

\* The lower byte of a register that is counted down.
LEMMA CountedDown ==
    ASSUME NEW n \in Register, NEW m \in 1 .. Byte, Low(n) = m % Byte
    PROVE  Low((n - 1) % (Byte * Byte)) = (m - 1) % Byte
<1> DEFINE u == Upper(n)
           l == Low(n)
           BB == Byte * Byte
<1>1. n \in Nat /\ BB \in Nat /\ BB >= 1 /\ n < BB
  BY Constants DEF Register
<1>2. u \in Nat /\ l \in 0 .. Byte - 1 /\ n = Byte * u + l
  BY <1>1, LowIsByte
<1>3. /\ m < Byte => m % Byte = m
      /\ m = Byte => m % Byte = 0
      /\ (m - 1) % Byte = m - 1
  BY Constants
<1> HIDE DEF u, l
<1>4. CASE l >= 1
  <2>1. m = l
    BY <1>3, <1>4, Constants DEF l
  <2>2. (n - 1) % BB = n - 1
    <3> HIDE DEF BB
    <3> QED  BY <1>1, <1>2, <1>4, Constants
  <2>3. Low(Byte * u + (l - 1)) = l - 1
    <3> DEFINE r == l - 1
    <3>1. r \in 0 .. Byte - 1 /\ u \in Int
      BY <1>2, <1>4, Constants
    <3> HIDE DEF r
    <3>2. Low(Byte * u + r) = r
      BY <3>1, Constants, DivisionUnique DEF Low
    <3> QED  BY <3>2 DEF r
  <2>4. n - 1 = Byte * u + (l - 1)
    BY <1>2, Constants
  <2> QED  BY <1>3, <2>1, <2>2, <2>3, <2>4
<1>5. CASE l = 0
  <2>1. m = Byte
    BY <1>3, <1>5, Constants DEF l
  <2>2. ASSUME NEW q \in Int
        PROVE  Low(Byte * q + (Byte - 1)) = Byte - 1
    <3> DEFINE r == Byte - 1
    <3>1. r \in 0 .. Byte - 1
      BY Constants
    <3> HIDE DEF r
    <3>2. Low(Byte * q + r) = r
      BY <3>1, Constants, DivisionUnique DEF Low
    <3> QED  BY <3>2 DEF r
  <2>3. CASE u >= 1
    <3>1. n - 1 = Byte * (u - 1) + (Byte - 1)
      BY <1>2, <1>5, Constants
    <3>2. (n - 1) % BB = n - 1
      <4>1. n >= 1
        BY <1>2, <1>5, <2>3, Constants
      <4> HIDE DEF BB
      <4> QED  BY <1>1, <4>1
    <3>3. u - 1 \in Int
      BY <1>2
    <3> QED  BY <1>3, <2>1, <2>2, <3>1, <3>2, <3>3
  <2>4. CASE u = 0
    <3>1. n = 0
      BY <1>2, <1>5, <2>4, Constants
    <3>2. (BB * (-1) + (BB - 1)) % BB = BB - 1
      <4> HIDE DEF BB
      <4>1. BB - 1 \in 0 .. BB - 1 /\ -1 \in Int
        BY <1>1
      <4> QED  BY <1>1, <4>1, DivisionUnique
    <3>3. BB * (-1) + (BB - 1) = n - 1
      <4> HIDE DEF BB
      <4> QED  BY <1>1, <3>1
    <3>4. BB - 1 = Byte * (Byte - 1) + (Byte - 1)
      BY Constants
    <3>5. Byte - 1 \in Int
      BY Constants
    <3> QED  BY <1>3, <2>1, <2>2, <3>2, <3>3, <3>4, <3>5
  <2> QED  BY <1>2, <2>3, <2>4
<1> QED  BY <1>2, <1>4, <1>5

\* How many sectors the registers say are left.  (That none is left they also say of a job
\* of Byte sectors that is not begun.)
LEMMA CountLeft ==
    ASSUME NEW x \in Channel, NEW j \in Job, NEW k \in Nat, k <= j.count,
           x.lba48 = Wide(j), CountIs(x, j, j.count - k)
    PROVE  /\ k >= 1 => (SectorsLeft(x) <=> k < j.count)
           /\ k < j.count => SectorCount(x, x.lba48) = j.count - k
<1> DEFINE m == j.count - k
<1>1. m \in 0 .. Byte /\ m \in Nat /\ (m = 0 <=> ~(k < j.count)) /\ j.count \in Nat
  BY JobIs, Constants
<1>0. m = j.count - k
  OBVIOUS
<1> HIDE DEF m
<1>2. x.count \in Nat /\ x.lba48 \in BOOLEAN
  BY Constants DEF Channel, Register
<1>3. CASE Wide(j)
  BY <1>0, <1>1, <1>2, <1>3 DEF SectorsLeft, SectorCount, CountIs, m
<1>4. CASE ~Wide(j)
  <2>1. m < Byte => m % Byte = m
    BY <1>1, Constants
  <2>2. m = Byte => m % Byte = 0
    BY <1>1, Constants
  <2>3. Low(x.count) = m % Byte
    BY <1>4 DEF CountIs, m
  <2>4. Byte \in Nat /\ Byte >= 2
    BY Constants
  <2>5. m >= 1 => SectorCount(x, x.lba48) = m
    BY <1>1, <1>4, <2>1, <2>2, <2>3, <2>4 DEF SectorCount
  <2>6. ASSUME k >= 1
        PROVE  SectorsLeft(x) <=> m # 0
    <3>1. ~x.lba48
      BY <1>4
    <3>2. SectorsLeft(x) <=> Low(x.count) # 0
      BY <3>1, Zenon DEF SectorsLeft
    <3>3. m < Byte
      BY <1>0, <1>1, <2>6, JobIs, Constants
    <3>4. Low(x.count) = 0 <=> m = 0
      BY <1>1, <2>1, <2>3, <2>4, <3>3
    <3> QED  BY <3>2, <3>4, Zenon
  <2>7. (m # 0 <=> k < j.count) /\ (k < j.count => m >= 1)
    BY <1>1
  <2>8. k < j.count => SectorCount(x, x.lba48) = j.count - k
    BY <1>0, <2>5, <2>7
  <2> QED  BY <2>6, <2>7, <2>8, Zenon
<1> QED  BY <1>3, <1>4
\* A channel with the same registers stands at the same sector.
LEMMA StandsStill ==
    ASSUME NEW x, NEW y, NEW j, NEW k, SameTask(x, y), SameRegisters(x, y)
    PROVE  /\ Stands(x, j, k) => Stands(y, j, k)
           /\ AtWork(x, j, k) => AtWork(y, j, k)
<1>1. Offset(y, Wide(j)) = Offset(x, Wide(j))
  BY SamePlace
<1>2. CountIs(x, j, j.count - k) => CountIs(y, j, j.count - k)
  BY DEF SameRegisters, CountIs
<1>3. y.selected = x.selected /\ y.lba = x.lba /\ y.lba48 = x.lba48 /\ y.command = x.command
  BY DEF SameTask
<1> QED  BY <1>1, <1>2, <1>3 DEF Stands, AtWork

\* How far a mode reaches is a number.
LEMMA ReachIsNumber ==
    ASSUME NEW mode \in {"chs", "lba28", "lba48"}
    PROVE  Reach(mode) \in Nat
<1>1. /\ Byte * Byte * Heads * SectorsPerTrack \in Nat /\ 16 * Byte * Byte * Byte \in Nat
      /\ Byte * Byte * Byte \in Nat
  BY Constants
<1> QED  BY <1>1 DEF Reach

\* What a job reaches.
LEMMA JobReach ==
    ASSUME NEW x, NEW j \in Job, x.lba = (j.mode # "chs")
    PROVE  Reach(IF Wide(j) THEN "lba48" ELSE IF x.lba THEN "lba28" ELSE "chs") = Reach(j.mode)
<1>1. j.mode \in {"chs", "lba28", "lba48"}
  BY JobIs DEF Modes
<1>2. CASE j.mode = "chs"
  BY <1>2 DEF Wide
<1>3. CASE j.mode = "lba28"
  BY <1>3 DEF Wide
<1>4. CASE j.mode = "lba48"
  BY <1>4 DEF Wide
<1> QED  BY <1>1, <1>2, <1>3, <1>4

\* After a sector that is done, the registers name the next one.
LEMMA AdvancedStands ==
    ASSUME NEW x \in Channel, NEW j \in Job, NEW k \in Nat, k < j.count, AtWork(x, j, k)
    PROVE  AtWork(Advanced(x), j, k + 1)
<1> DEFINE n == (x.count - 1) % (Byte * Byte)
           y == [x EXCEPT !.count = n]
           m == j.count - k
           p == j.first + k + 1
<1>1. /\ x.lba48 = Wide(j) /\ x.command = j.op /\ x.selected = j.drive /\ x.lba = (j.mode # "chs")
      /\ CountIs(x, j, m) /\ Offset(x, Wide(j)) = j.first + k
  BY DEF AtWork, Stands
<1>2. /\ j.count \in Nat /\ j.first \in Nat /\ j.count <= Byte /\ j.first + j.count <= Reach(j.mode)
      /\ (Wide(j) => j.count < Byte)
  BY JobIs DEF Wide
<1>3. m \in 1 .. Byte /\ (Wide(j) => m < Byte) /\ m - 1 = j.count - (k + 1)
  BY <1>2, Constants
<1> HIDE DEF m
<1>4. n \in Register /\ x.count \in Register
  <2>1. x.count \in Register
    BY DEF Channel
  <2>2. x.count - 1 \in Int /\ Byte * Byte \in Nat /\ Byte * Byte >= 1
    BY <2>1, Constants DEF Register
  <2> QED  BY <2>1, <2>2, Division DEF Register
<1>5. CountIs(x, j, m) => (Wide(j) => n = m - 1) /\ (~Wide(j) => Low(n) = (m - 1) % Byte)
  <2>1. ASSUME Wide(j), x.count = m
        PROVE  n = m - 1
    <3>1. m - 1 \in 0 .. (Byte * Byte) - 1
      <4>1. Byte * Byte >= Byte
        BY Constants
      <4> QED  BY <1>3, <4>1, Constants
    <3>2. n = (m - 1) % (Byte * Byte)
      BY <2>1
    <3>3. Byte * Byte \in Nat
      BY Constants
    <3> DEFINE BB == Byte * Byte
    <3> HIDE DEF BB, n
    <3>4. (m - 1) % BB = m - 1
      BY <1>3, <3>1, <3>3 DEF BB
    <3> QED  BY <3>2, <3>4 DEF BB
  <2>2. ASSUME ~Wide(j), Low(x.count) = m % Byte
        PROVE  Low(n) = (m - 1) % Byte
    BY <1>3, <1>4, <2>2, CountedDown
  <2> QED  BY <2>1, <2>2 DEF CountIs
<1> HIDE DEF n
<1>6. y \in Channel /\ y.count = n /\ y.selected = x.selected /\ y.command = x.command
  BY <1>4 DEF Channel
<1>7. y.lba48 = x.lba48 /\ y.lba = x.lba /\ Wide(j) \in BOOLEAN
  BY DEF Channel, Wide
<1>8. Offset(y, Wide(j)) = j.first + k
  <2>1. /\ y.number = x.number /\ y.low = x.low /\ y.high = x.high /\ y.head = x.head
    BY DEF Channel
  <2>2. CASE ~Wide(j)
    BY <1>1, <1>7, <2>1, <2>2 DEF Offset
  <2>3. CASE Wide(j)
    <3>1. x.count = m /\ y.count = m - 1
      BY <1>1, <1>5, <1>6, <2>3 DEF CountIs
    <3>2. m \in 0 .. Byte - 1 /\ m - 1 \in 0 .. Byte - 1
      BY <1>3, <2>3, Constants
    <3>3. Upper(x.count) = 0 /\ Upper(y.count) = 0
      BY <3>1, <3>2, LowOfByte
    <3> HIDE DEF y
    <3> QED  BY <1>1, <1>7, <2>1, <2>3, <3>3 DEF Offset
  <2> QED  BY <2>2, <2>3
<1>9. CountIs(y, j, m - 1)
  BY <1>1, <1>5, <1>6 DEF CountIs
<1> HIDE DEF y
<1> DEFINE z == WithOffset(y, Wide(j), p)
<1>10. Advanced(x) = z
  <2>1. Advanced(x) = WithOffset(y, y.lba48, Offset(y, y.lba48) + 1)
    BY DEF Advanced, y, n
  <2>2. y.lba48 = Wide(j)
    BY <1>1, <1>7
  <2> QED  BY <1>8, <2>1, <2>2
<1>11. z \in Channel /\ SameButAddress(y, z)
  BY <1>2, <1>6, <1>7, WithOffsetKeeps
<1>12. k + 1 < j.count => Offset(z, Wide(j)) = p
  <2>1. Wide(j) => Upper(y.count) = 0
    <3>1. Wide(j) => y.count = m - 1 /\ m - 1 \in 0 .. Byte - 1
      BY <1>3, <1>9, Constants DEF CountIs
    <3> QED  BY <3>1, LowOfByte
  <2>2. Reach(IF Wide(j) THEN "lba48" ELSE IF y.lba THEN "lba28" ELSE "chs") = Reach(j.mode)
    BY <1>1, <1>7, JobReach
  <2>3. ASSUME k + 1 < j.count
        PROVE  p \in Nat /\ p < Reach(j.mode)
    <3>1. Reach(j.mode) \in Int
      <4>1. j.mode \in {"chs", "lba28", "lba48"}
        BY JobIs DEF Modes
      <4> QED  BY <4>1, ReachIsNumber
    <3> QED  BY <1>2, <2>3, <3>1
  <2> HIDE DEF p
  <2> QED  BY <1>6, <1>7, <2>1, <2>2, <2>3, OffsetStored
<1>13. CountIs(z, j, m - 1)
  BY <1>9, <1>11 DEF CountIs, SameButAddress
<1> HIDE DEF z
<1>14. z.lba48 = Wide(j) /\ z.command = j.op /\ z.selected = j.drive /\ z.lba = (j.mode # "chs")
  BY <1>1, <1>6, <1>7, <1>11 DEF SameButAddress
<1>15. p = j.first + (k + 1)
  BY <1>2
<1> HIDE DEF p
<1>16. Stands(z, j, k + 1)
  BY <1>3, <1>12, <1>13, <1>14, <1>15 DEF Stands
<1> QED  BY <1>10, <1>14, <1>16 DEF AtWork

\* The task file that the guest writes names the job's first sector.
LEMMA TaskFileStands ==
    ASSUME NEW x \in Channel, NEW j \in Job
    PROVE  Stands(TaskFile(x, j), j, 0)
<1> DEFINE to == Encoded(j.mode, j.first)
           y  == TaskFile(x, j)
           p  == j.first
           z  == WithOffset(y, Wide(j), p)
<1>1. /\ y \in Channel
      /\ y.selected = j.drive /\ y.lba = (j.mode # "chs") /\ y.head = to.head
      /\ y.number = Put(Wide(j), x.number, to.number) /\ y.low = Put(Wide(j), x.low, to.low)
      /\ y.high = Put(Wide(j), x.high, to.high)
      /\ y.count = Put(Wide(j), x.count, j.count % (Byte * Byte))
  BY TaskFileIs DEF Wide
<1>2. /\ j.count \in Nat /\ j.count >= 1 /\ p \in Nat /\ j.count <= Byte
      /\ p + j.count <= Reach(j.mode) /\ (Wide(j) => j.count < Byte)
      /\ j.mode \in {"chs", "lba28", "lba48"}
  BY JobIs DEF Wide, Modes
<1> HIDE DEF y, p
<1>3. j.count % (Byte * Byte) = j.count
  <2> DEFINE BB == Byte * Byte
  <2>1. BB \in Nat /\ BB >= 2 * Byte /\ Byte >= 2
    BY Constants
  <2> HIDE DEF BB
  <2>2. j.count < BB
    BY <1>2, <2>1, Constants
  <2> QED  BY <1>2, <2>1, <2>2 DEF BB
<1>4. \A old \in Register, new \in Nat :
         /\ Low(Put(FALSE, old, new)) = Low(new)
         /\ Put(TRUE, old, new) = new
  <2> TAKE old \in Register, new \in Nat
  <2>1. Low(old) \in 0 .. Byte - 1 /\ Low(new) \in 0 .. Byte - 1
    BY LowIsByte, Constants DEF Register
  <2> QED  BY <2>1, TwoBytes DEF Put
<1>5. x.number \in Register /\ x.low \in Register /\ x.high \in Register /\ x.count \in Register
  BY DEF Channel
<1>6. to.number \in Nat /\ to.low \in Nat /\ to.high \in Nat
  <2>1. j.mode \in Modes /\ j.first \in Nat
    BY JobIs
  <2>2. to.number \in Register /\ to.low \in Register /\ to.high \in Register
    BY <2>1, EncodedTypes
  <2> QED  BY <2>2, Constants DEF Register
<1>7. CountIs(y, j, j.count)
  <2>1. CASE Wide(j)
    BY <1>1, <1>2, <1>3, <1>4, <1>5, <2>1 DEF CountIs
  <2>2. CASE ~Wide(j)
    <3>1. Low(y.count) = Low(j.count)
      <4>1. y.count = Put(Wide(j), x.count, j.count)
        BY <1>1, <1>3
      <4>2. Low(Put(FALSE, x.count, j.count)) = Low(j.count)
        BY <1>2, <1>4, <1>5
      <4> QED  BY <2>2, <4>1, <4>2 DEF Put, Wide
    <3> QED  BY <2>2, <3>1 DEF CountIs, Low
  <2> QED  BY <2>1, <2>2
<1>8. Offset(z, Wide(j)) = p
  <2>1. Wide(j) => Upper(y.count) = 0
    <3>1. Wide(j) => y.count = j.count /\ j.count \in 0 .. Byte - 1
      BY <1>2, <1>7, Constants DEF CountIs
    <3> QED  BY <3>1, LowOfByte
  <2>2. Reach(IF Wide(j) THEN "lba48" ELSE IF y.lba THEN "lba28" ELSE "chs") = Reach(j.mode)
    BY <1>1, JobReach
  <2>3. p < Reach(j.mode)
    BY <1>2, ReachIsNumber
  <2>4. Wide(j) \in BOOLEAN
    BY DEF Wide
  <2> QED  BY <1>1, <1>2, <2>1, <2>2, <2>3, <2>4, OffsetStored
<1>9. Offset(y, Wide(j)) = Offset(z, Wide(j))
  <2>1. /\ z.lba = y.lba /\ z.count = y.count
    <3>1. Wide(j) \in BOOLEAN /\ p \in Int
      BY <1>2 DEF Wide
    <3>2. SameButAddress(y, z)
      BY <1>1, <3>1, WithOffsetKeeps
    <3> QED  BY <3>2 DEF SameButAddress
  <2>2. \A i \in 0 .. 5 : Digit(p, i) \in 0 .. Byte - 1
    <3>1. p \in Int
      BY <1>2
    <3> QED  BY <3>1, DigitType
  <2>3. CASE j.mode = "lba48"
    <3>1. /\ z.number = Digit(p, 0) + Digit(p, 3) * Byte
          /\ z.low = Digit(p, 1) + Digit(p, 4) * Byte
          /\ z.high = Digit(p, 2) + Digit(p, 5) * Byte
      BY <1>1, <2>3 DEF WithOffset, Channel, Wide
    <3>2. /\ to.number = Digit(p, 3) * Byte + Digit(p, 0)
          /\ to.low = Digit(p, 4) * Byte + Digit(p, 1)
          /\ to.high = Digit(p, 5) * Byte + Digit(p, 2)
      BY <2>3 DEF Encoded, p
    <3>3. y.number = to.number /\ y.low = to.low /\ y.high = to.high
      BY <1>1, <1>4, <1>5, <1>6, <2>3 DEF Wide
    <3>4. y.number = z.number /\ y.low = z.low /\ y.high = z.high
      BY <2>2, <3>1, <3>2, <3>3, Constants
    <3> HIDE DEF z, to
    <3> QED  BY <2>1, <2>3, <3>4 DEF Offset, Wide
  <2>4. CASE j.mode = "lba28"
    <3>1. /\ z.number = Digit(p, 0) /\ z.low = Digit(p, 1) /\ z.high = Digit(p, 2)
          /\ z.head = Shifted(p, 3) % 16
      BY <1>1, <2>4 DEF WithOffset, Channel, Wide
    <3>2. /\ to.number = Digit(p, 0) /\ to.low = Digit(p, 1) /\ to.high = Digit(p, 2)
          /\ to.head = Shifted(p, 3) % 16
      BY <2>4 DEF Encoded, p
    <3>3. /\ Low(y.number) = Low(to.number) /\ Low(y.low) = Low(to.low)
          /\ Low(y.high) = Low(to.high)
      BY <1>1, <1>4, <1>5, <1>6, <2>4 DEF Wide
    <3>4. /\ Low(y.number) = Low(z.number) /\ Low(y.low) = Low(z.low)
          /\ Low(y.high) = Low(z.high) /\ y.head = z.head
      BY <1>1, <3>1, <3>2, <3>3
    <3> HIDE DEF z, to
    <3> QED  BY <1>1, <2>1, <2>4, <3>4 DEF Offset, Wide
  <2>5. CASE j.mode = "chs"
    <3> DEFINE cylinder == p \div (Heads * SectorsPerTrack)
               head == (p \div SectorsPerTrack) % Heads
    <3>1. /\ z.number = (p % SectorsPerTrack) + 1 /\ z.low = Digit(cylinder, 0)
          /\ z.high = Digit(cylinder, 1) /\ z.head = head % 16
      BY <1>1, <2>5 DEF WithOffset, Channel, Wide
    <3>2. /\ to.number = (p % SectorsPerTrack) + 1 /\ to.low = Digit(cylinder, 0)
          /\ to.high = Digit(cylinder, 1) /\ to.head = head
      BY <2>5 DEF Encoded, p
    <3>3. head % 16 = head
      <4>1. p \div SectorsPerTrack \in Int
        BY <1>2, Constants, Division
      <4>2. head \in 0 .. Heads - 1
        BY <4>1, Constants, Division
      <4> HIDE DEF head
      <4> QED  BY <4>2, Constants
    <3> HIDE DEF cylinder, head
    <3>4. /\ Low(y.number) = Low(to.number) /\ Low(y.low) = Low(to.low)
          /\ Low(y.high) = Low(to.high)
      BY ZenonT(40), <1>1, <1>4, <1>5, <1>6, <2>5 DEF Wide
    <3>5. /\ Low(y.number) = Low(z.number) /\ Low(y.low) = Low(z.low)
          /\ Low(y.high) = Low(z.high) /\ y.head = z.head
      BY <1>1, <3>1, <3>2, <3>3, <3>4
    <3> HIDE DEF z, to
    <3> QED  BY <1>1, <2>1, <2>5, <3>5 DEF Offset, Wide
  <2> QED  BY <1>2, <2>3, <2>4, <2>5
<1>10. j.count - 0 = j.count /\ p + 0 = p
  BY <1>2
<1> QED  BY <1>1, <1>7, <1>8, <1>9, <1>10 DEF Stands, y, p

-----------------------------------------------------------------------------
(* What is moved while a job is done.                                       *)

\* A job's sector is one of its drive's.
LEMMA PlaceIs ==
    ASSUME NEW c \in Channels, NEW x \in Channel, NEW j \in Job, NEW k \in Nat, k < j.count,
           AtWork(x, j, k)
    PROVE  /\ Selected(c, x) = Of(c, j) /\ Of(c, j) \in Drives
           /\ Offset(x, x.lba48) = j.first + k
           /\ j.first + k \in Sectors
<1>1. Selected(c, x) = Of(c, j)
  BY DEF Selected, Of, AtWork, Stands
<1>2. Of(c, j) \in Drives
  BY JobIs DEF Of, Drives
<1>3. Offset(x, x.lba48) = j.first + k
  BY DEF AtWork, Stands
<1>4. j.first + k \in Sectors
  BY JobIs, Constants DEF Sectors
<1> QED  BY <1>1, <1>2, <1>3, <1>4

\* A sector that was read is delivered as the job's next.
LEMMA SectorReadyStands ==
    ASSUME NEW x \in Channel, NEW j \in Job, NEW k \in Nat, k < j.count, AtWork(x, j, k),
           NEW v \in Values
    PROVE  LET y == SectorReady(x, v) IN
           /\ y \in Channel /\ y.status = {"DRDY", "DSC", "DRQ"} /\ y.buffer = v
           /\ y.command = x.command /\ AtWork(y, j, k + 1)
<1> DEFINE y == SectorReady(x, v)
<1>1. /\ y \in Channel /\ y.status = {"DRDY", "DSC", "DRQ"} /\ y.buffer = v
      /\ SameTask(x, y) /\ SameRegisters(Advanced(x), y)
  BY SectorReadyIs
<1>2. AtWork(Advanced(x), j, k + 1) /\ SameTask(x, Advanced(x))
  BY AdvancedStands, AdvancedTask
<1> HIDE DEF y
<1>3. SameTask(Advanced(x), y) /\ y.command = x.command
  BY <1>1, <1>2 DEF SameTask
<1>4. AtWork(y, j, k + 1)
  BY <1>1, <1>2, <1>3, StandsStill
<1> QED  BY <1>1, <1>3, <1>4 DEF y

\* A sector that was written is followed by the job's next, if there is one.
LEMMA SectorWrittenStands ==
    ASSUME NEW x \in Channel, NEW j \in Job, NEW k \in Nat, k < j.count, AtWork(x, j, k)
    PROVE  LET y == SectorWritten(x) IN
           /\ y \in Channel /\ y.command = x.command /\ AtWork(y, j, k + 1)
           /\ y.status = IF k + 1 < j.count THEN {"DRDY", "DSC", "DRQ"} ELSE {"DRDY", "DSC"}
<1> DEFINE y == SectorWritten(x)
<1>1. /\ y \in Channel /\ SameTask(x, y) /\ SameRegisters(Advanced(x), y)
      /\ y.status = IF SectorsLeft(Advanced(x)) THEN {"DRDY", "DSC", "DRQ"} ELSE {"DRDY", "DSC"}
  BY SectorWrittenIs
<1>2. AtWork(Advanced(x), j, k + 1) /\ SameTask(x, Advanced(x)) /\ Advanced(x) \in Channel
  BY AdvancedStands, AdvancedTask, AdvancedKeeps
<1>3. SectorsLeft(Advanced(x)) <=> k + 1 < j.count
  <2>1. k + 1 \in Nat /\ k + 1 <= j.count /\ k + 1 >= 1
    BY JobIs
  <2> QED  BY <1>2, <2>1, CountLeft DEF AtWork, Stands
<1> HIDE DEF y
<1>4. SameTask(Advanced(x), y) /\ y.command = x.command
  BY <1>1, <1>2 DEF SameTask
<1>5. AtWork(y, j, k + 1)
  BY <1>1, <1>2, <1>4, StandsStill
<1>6. y.status = IF k + 1 < j.count THEN {"DRDY", "DSC", "DRQ"} ELSE {"DRDY", "DSC"}
  <2>1. CASE k + 1 < j.count
    BY <1>1, <1>3, <2>1, Zenon
  <2>2. CASE ~(k + 1 < j.count)
    BY <1>1, <1>3, <2>2, Zenon
  <2> QED  BY <2>1, <2>2, Zenon
<1> QED  BY <1>1, <1>4, <1>5, <1>6 DEF y

\* ide_read_sectors() delivers the job's next sector, or waits for it.
LEMMA ReadSectorsMoves ==
    ASSUME TypeOK, NEW c \in Channels, NEW x \in Channel, NEW j \in Job, NEW k \in Nat,
           k < j.count, AtWork(x, j, k), Of(c, j) \in Disks, ReadSectors(c, x)
    PROVE  LET y == chan'[c] IN
           /\ fatal' = fatal /\ \A e \in Channels \ {c} : chan'[e] = chan[e]
           /\ \A d \in Disks : /\ store'[d].data = store[d].data
                               /\ store[d].cached \subseteq store'[d].cached
           /\ y \in Channel /\ y.command = x.command
           /\ \/ /\ y.status = {"DRDY", "DSC", "DRQ"} /\ slot' = slot
                 /\ AtWork(y, j, k + 1) /\ y.buffer = store[Of(c, j)].data[j.first + k]
              \/ /\ y.status = {"DRDY", "DSC", "BSY"}
                 /\ AtWork(y, j, k)
                 /\ slot'.busy /\ slot'.op = "read" /\ slot'.drive = Of(c, j)
                 /\ slot'.first = Offset(y, y.lba48)
<1> DEFINE d == Of(c, j)
           s == j.first + k
<1>1. /\ Selected(c, x) = d /\ d \in Drives /\ Offset(x, x.lba48) = s /\ s \in Sectors
  BY PlaceIs
<1>2. DeviceOK
  BY TypeParts
<1> HIDE DEF d, s
<1>3. Reaches(d, {s})
  BY <1>1 DEF Reaches, d
<1>4. CASE /\ chan' = [chan EXCEPT ![c] = SectorReady(x, store[d].data[s])]
           /\ UNCHANGED <<store, slot, fatal>>
  <2> DEFINE v == store[d].data[s]
             y == SectorReady(x, v)
  <2>1. v \in Values
    BY ZenonT(40), <1>1, <1>2 DEF DeviceOK, d
  <2> HIDE DEF v
  <2>2. /\ y \in Channel /\ y.status = {"DRDY", "DSC", "DRQ"} /\ y.buffer = v
        /\ y.command = x.command /\ AtWork(y, j, k + 1)
    BY <2>1, SectorReadyStands
  <2> HIDE DEF y
  <2>3. chan'[c] = y /\ \A e \in Channels \ {c} : chan'[e] = chan[e]
    BY <1>2, <1>4 DEF DeviceOK, y, v
  <2> QED  BY <1>4, <2>2, <2>3 DEF v, d, s
<1>5. CASE /\ Pending(c, "read", x, {s})
           /\ chan' = [chan EXCEPT ![c] = Awaiting(x)]
  <2> DEFINE y == Awaiting(x)
  <2>1. /\ y \in Channel /\ y.status = {"DRDY", "DSC", "BSY"}
        /\ SameTask(x, y) /\ SameRegisters(x, y)
    BY AwaitingIs
  <2> HIDE DEF y
  <2>2. AtWork(y, j, k) /\ Offset(y, y.lba48) = s /\ y.command = x.command
    BY <1>1, <2>1, StandsStill, SamePlace DEF SameTask
  <2>3. chan'[c] = y /\ \A e \in Channels \ {c} : chan'[e] = chan[e]
    BY <1>2, <1>5 DEF DeviceOK, y
  <2>4. {s} \in SUBSET Sectors /\ d \in Disks
    BY <1>1 DEF d
  <2>5. /\ slot'.busy /\ slot'.op = "read" /\ slot'.drive = d /\ slot'.first = s
        /\ fatal' = fatal
        /\ \A e \in Disks : /\ store'[e].data = store[e].data
                            /\ store[e].cached \subseteq store'[e].cached
    BY <1>1, <1>2, <1>5, <2>4, PendingTypes
  <2> QED  BY <2>1, <2>2, <2>3, <2>5 DEF d
<1> QED  BY <1>1, <1>3, <1>4, <1>5 DEF ReadSectors

\* The end of ide_pio_write_callback() stores the job's next sector, or waits for its block.
LEMMA WriteSectorMoves ==
    ASSUME TypeOK, NEW c \in Channels, NEW x \in Channel, NEW j \in Job, NEW k \in Nat,
           k < j.count, AtWork(x, j, k), Of(c, j) \in Disks, WriteSector(c, x)
    PROVE  LET y == chan'[c] IN
           /\ fatal' = fatal /\ \A e \in Channels \ {c} : chan'[e] = chan[e]
           /\ \A d \in Disks : store[d].cached \subseteq store'[d].cached
           /\ \A d \in Disks \ {Of(c, j)} : store'[d].data = store[d].data
           /\ y \in Channel /\ y.command = x.command
           /\ \/ /\ y.status = IF k + 1 < j.count THEN {"DRDY", "DSC", "DRQ"} ELSE {"DRDY", "DSC"}
                 /\ slot' = slot /\ AtWork(y, j, k + 1)
                 /\ store'[Of(c, j)].data = [store[Of(c, j)].data EXCEPT ![j.first + k] = x.buffer]
              \/ /\ y.status = {"DRDY", "DSC", "BSY"}
                 /\ AtWork(y, j, k) /\ y.buffer = x.buffer
                 /\ slot'.busy /\ slot'.op = "write" /\ slot'.drive = Of(c, j)
                 /\ slot'.first = Offset(y, y.lba48)
                 /\ store'[Of(c, j)].data = store[Of(c, j)].data
<1> DEFINE d == Of(c, j)
           s == j.first + k
<1>1. /\ Selected(c, x) = d /\ d \in Drives /\ Offset(x, x.lba48) = s /\ s \in Sectors
  BY PlaceIs
<1>2. DeviceOK /\ x.buffer \in Values /\ d \in Disks
  BY TypeParts DEF Channel
<1> HIDE DEF d, s
<1>3. Reaches(d, {s})
  BY <1>1 DEF Reaches, d
<1>4. CASE /\ store' = [store EXCEPT ![d].data[s] = x.buffer]
           /\ chan' = [chan EXCEPT ![c] = SectorWritten(x)]
           /\ UNCHANGED <<slot, fatal>>
  <2> DEFINE y == SectorWritten(x)
  <2>1. /\ y \in Channel /\ y.command = x.command /\ AtWork(y, j, k + 1)
        /\ y.status = IF k + 1 < j.count THEN {"DRDY", "DSC", "DRQ"} ELSE {"DRDY", "DSC"}
    BY SectorWrittenStands
  <2>2. chan'[c] = y /\ \A e \in Channels \ {c} : chan'[e] = chan[e]
    BY <1>2, <1>4 DEF DeviceOK
  <2> HIDE DEF y
  <2>3. store \in [Disks -> [data : [Sectors -> Values], cached : SUBSET Blocks]]
    BY <1>2 DEF DeviceOK
  <2>4. /\ \A e \in Disks : store'[e].cached = store[e].cached
        /\ \A e \in Disks \ {d} : store'[e].data = store[e].data
        /\ store'[d].data = [store[d].data EXCEPT ![s] = x.buffer]
    BY <1>1, <1>2, <1>4, <2>3, StoreWritten
  <2> QED  BY <1>4, <2>1, <2>2, <2>4 DEF d, s
<1>5. CASE /\ Pending(c, "write", x, {s})
           /\ chan' = [chan EXCEPT ![c] = Awaiting(x)]
  <2> DEFINE y == Awaiting(x)
  <2>1. /\ y \in Channel /\ y.status = {"DRDY", "DSC", "BSY"} /\ y.buffer = x.buffer
        /\ SameTask(x, y) /\ SameRegisters(x, y)
    BY AwaitingIs
  <2> HIDE DEF y
  <2>2. AtWork(y, j, k) /\ Offset(y, y.lba48) = s /\ y.command = x.command
    BY <1>1, <2>1, StandsStill, SamePlace DEF SameTask
  <2>3. chan'[c] = y /\ \A e \in Channels \ {c} : chan'[e] = chan[e]
    BY <1>2, <1>5 DEF DeviceOK, y
  <2>4. {s} \in SUBSET Sectors /\ d \in Disks
    BY <1>1 DEF d
  <2>5. /\ slot'.busy /\ slot'.op = "write" /\ slot'.drive = d /\ slot'.first = s
        /\ fatal' = fatal
        /\ \A e \in Disks : /\ store'[e].data = store[e].data
                            /\ store[e].cached \subseteq store'[e].cached
    BY <1>1, <1>2, <1>5, <2>4, PendingTypes
  <2> QED  BY <2>1, <2>2, <2>3, <2>4, <2>5 DEF d
<1> QED  BY <1>1, <1>3, <1>4, <1>5 DEF WriteSector

\* DMA changes the data of the selected drive only, and loads no block.
LEMMA DmaHandlerStores ==
    ASSUME TypeOK, NEW c \in Channels, NEW x \in Channel, DmaHandler(c, x)
    PROVE  /\ \A d \in Disks \ {Selected(c, x)} : store'[d].data = store[d].data
           /\ \A d \in Disks : store'[d].cached = store[d].cached
<1> DEFINE d == Selected(c, x)
           S == DmaRange(x)
           from == Offset(x, x.lba48)
           written == [s \in Sectors |-> IF s \in S THEN InMemory(x, s - from)
                                         ELSE store[d].data[s]]
<1>1. store \in [Disks -> [data : [Sectors -> Values], cached : SUBSET Blocks]]
  BY DEF TypeOK
<1>2. UNCHANGED store \/ (d \in Disks /\ store' = [store EXCEPT ![d].data = written])
  BY <1>1 DEF DmaHandler, Reaches
<1> HIDE DEF written, d
<1>3. CASE d \in Disks /\ store' = [store EXCEPT ![d].data = written]
  <2>1. \A e \in Disks \ {d} : store'[e] = store[e]
    BY <1>1, <1>3
  <2>2. store'[d].cached = store[d].cached
    BY <1>1, <1>3
  <2> QED  BY <2>1, <2>2 DEF d
<1> QED  BY <1>2, <1>3 DEF d

\* What a job's DMA moves.  The table describes the job's memory, so that every sector moves
\* from or to where it belongs; or a block that is not loaded ends the program.
LEMMA DmaHandlerMoves ==
    ASSUME TypeOK, NEW c \in Channels, NEW x \in Channel, NEW j \in Job,
           AtWork(x, j, 0), Of(c, j) \in Disks, DmaHandler(c, x),
           x.table.drive = Of(c, j), x.table.first = j.first,
           x.table.sizes[1] + x.table.sizes[2] = j.count
    PROVE  LET d == Of(c, j) IN
           \/ /\ fatal' = "expected sync response" /\ UNCHANGED <<chan, store, guest>>
              /\ \E s \in Sectors : /\ j.first <= s /\ s < j.first + j.count
                                    /\ BlockOf(s) \notin store[d].cached
           \/ /\ fatal' = fatal
              /\ Len(guest'[c].data) = j.count
              /\ \A k \in 1 .. j.count : guest'[c].data[k] = store'[d].data[j.first + k - 1]
              /\ \A s \in Sectors : store'[d].data[s] \in {store[d].data[s], Written(d, s)}
<1> DEFINE d == Of(c, j)
           p == j.first
           m == j.count
           S == DmaRange(x)
           wr == x.command = "write dma"
           data == [k \in 1 .. Cardinality(S) |-> IF wr THEN InMemory(x, k - 1)
                                                  ELSE store[d].data[Offset(x, x.lba48) + k - 1]]
           written == [s \in Sectors |-> IF s \in S THEN InMemory(x, s - Offset(x, x.lba48))
                                         ELSE store[d].data[s]]
<1>1. p \in Nat /\ m \in Nat /\ m >= 1 /\ p + m <= NumSectors
  BY JobIs
<1>2. Selected(c, x) = d /\ Offset(x, x.lba48) = p
  <2>1. 0 < m /\ p + 0 = p
    BY <1>1
  <2>2. /\ Selected(c, x) = d /\ Offset(x, x.lba48) = p + 0
    BY <2>1, PlaceIs
  <2> QED  BY <2>1, <2>2
<1>3. SectorCount(x, x.lba48) = m
  <2>1. 0 < m /\ m - 0 = m /\ 0 <= m
    BY <1>1
  <2> QED  BY <2>1, CountLeft DEF AtWork, Stands
<1>4. Cardinality(S) = m /\ S = p .. p + m - 1
  BY <1>2, <1>3, DmaRangeIs
<1>5. S \subseteq Sectors /\ d \in Disks
  BY <1>1, <1>4, Constants DEF Sectors
<1>6. /\ store \in [Disks -> [data : [Sectors -> Values], cached : SUBSET Blocks]]
      /\ guest \in [Channels -> [stage : Stages, job : Job \cup {NoJob},
                                 data : Seq(Values), error : BOOLEAN]]
  BY DEF TypeOK
<1>7. \A k \in Nat : InMemory(x, k) = Written(d, p + k)
  BY DEF InMemory
<1>8. \/ /\ fatal' = "expected sync response" /\ UNCHANGED <<chan, store, guest>>
         /\ ~Cached(d, S)
      \/ /\ fatal' = fatal
         /\ IF wr THEN store' = [store EXCEPT ![d].data = written] ELSE UNCHANGED store
         /\ guest' = [guest EXCEPT ![c].stage = IF @ = "start" THEN Waiting ELSE @,
                                   ![c].data = data]
  <2>1. Reaches(Selected(c, x), S)
    BY <1>2, <1>5 DEF Reaches
  <2> HIDE DEF d, data
  <2> QED  BY <1>2, <1>6, <2>1 DEF DmaHandler, data
<1> HIDE DEF d, p, m, S, data, written
<1>9. CASE /\ fatal' = "expected sync response" /\ UNCHANGED <<chan, store, guest>>
           /\ ~Cached(d, S)
  <2>1. PICK s \in S : BlockOf(s) \notin store[d].cached
    BY <1>9 DEF Cached
  <2>2. s \in Sectors /\ p <= s /\ s < p + m
    BY <1>1, <1>4, <1>5, <2>1
  <2> QED  BY <1>9, <2>1, <2>2 DEF d, p, m
<1>10. CASE /\ fatal' = fatal
            /\ IF wr THEN store' = [store EXCEPT ![d].data = written] ELSE UNCHANGED store
            /\ guest' = [guest EXCEPT ![c].stage = IF @ = "start" THEN Waiting ELSE @,
                                      ![c].data = data]
  <2>1. guest'[c].data = data
    BY <1>6, <1>10
  <2>2. Len(data) = m /\ \A k \in 1 .. m : data[k] = IF wr THEN InMemory(x, k - 1)
                                                     ELSE store[d].data[p + k - 1]
    <3>1. data = [k \in 1 .. m |-> IF wr THEN InMemory(x, k - 1) ELSE store[d].data[p + k - 1]]
      BY <1>2, <1>4, Zenon DEF data
    <3> HIDE DEF wr
    <3> QED  BY <1>1, <3>1
  <2>3. CASE wr
    <3>1. store'[d].data = written
      BY <1>5, <1>6, <1>10, <2>3
    <3>2. \A s \in Sectors : /\ s \in S => written[s] = InMemory(x, s - p)
                             /\ s \notin S => written[s] = store[d].data[s]
      BY <1>2 DEF written
    <3>3. ASSUME NEW s \in Sectors
          PROVE  store'[d].data[s] \in {store[d].data[s], Written(d, s)}
      <4>1. CASE s \in S
        <5>1. s - p \in Nat /\ p + (s - p) = s
          BY <1>1, <1>4, <4>1
        <5> QED  BY <1>7, <3>1, <3>2, <4>1, <5>1
      <4> QED  BY <3>1, <3>2, <4>1
    <3>4. ASSUME NEW k \in 1 .. m
          PROVE  data[k] = store'[d].data[p + k - 1]
      <4>1. p + k - 1 \in S /\ p + k - 1 \in Sectors /\ (p + k - 1) - p = k - 1
        BY <1>1, <1>4, <1>5
      <4> QED  BY <2>2, <2>3, <3>1, <3>2, <4>1
    <3> QED  BY <1>10, <2>1, <2>2, <3>3, <3>4 DEF d, p, m
  <2>4. CASE ~wr
    <3>1. store' = store
      BY <1>10, <2>4
    <3> HIDE DEF wr
    <3> QED  BY <1>10, <2>1, <2>2, <2>4, <3>1 DEF d, p, m
  <2> QED  BY <2>3, <2>4
<1> QED  BY <1>8, <1>9, <1>10

-----------------------------------------------------------------------------
(* The invariant.  D is what the job's drive d holds.                       *)

Failed == {"DRDY", "DSC", "ERR"}

\* A guest that reads has the job's first sectors.  The registers name the next one while it
\* is waited for, and the one after it when its data are due.
Reading(x, g, D) ==
    LET j == g.job
        n == Len(g.data)
    IN  /\ n <= j.count
        /\ \A k \in 1 .. n : g.data[k] = D[j.first + k - 1]
        /\ "BSY" \in x.status => n < j.count /\ AtWork(x, j, n)
        /\ "BSY" \notin x.status /\ "DRQ" \in x.status =>
              n < j.count /\ AtWork(x, j, n + 1) /\ x.buffer = D[j.first + n]
        /\ "BSY" \notin x.status /\ "DRQ" \notin x.status => n = j.count

Stored(g, D, m) == \A k \in 1 .. m : D[g.job.first + k - 1] = g.data[k]

\* What a guest wrote is on the disk but for the sector that is waited for; the registers
\* name this one, or the next one to be written.
Writing(d, x, g, D) ==
    LET j == g.job
        n == Len(g.data)
    IN  /\ n <= j.count
        /\ \A k \in 1 .. n : g.data[k] = Written(d, j.first + k - 1)
        /\ "BSY" \in x.status => n >= 1 /\ AtWork(x, j, n - 1) /\ Stored(g, D, n - 1)
        /\ "BSY" \notin x.status => Stored(g, D, n)
        /\ "BSY" \notin x.status /\ "DRQ" \in x.status => n < j.count /\ AtWork(x, j, n)
        /\ "BSY" \notin x.status /\ "DRQ" \notin x.status => n = j.count

Moved(g, D) ==
    /\ Len(g.data) = g.job.count
    /\ \A k \in 1 .. g.job.count : g.data[k] = D[g.job.first + k - 1]

\* How far a job has come, at every stage of its guest.
Progress(d, x, g, D) ==
    LET j == g.job IN
    /\ g.stage \in {"command", "start"} =>
          g.data = <<>> /\ Stands(x, j, 0) /\ (j.op \in DmaOps => d \in Disks)
    /\ g.stage = "start" => j.op \in DmaOps /\ AtWork(x, j, 0)
    /\ g.stage = "data" => "DRQ" \in x.status
    /\ g.stage \in {"poll", "interrupt", "data"} =>
          /\ j.op \in PioReads  => x.status = Failed \/ (d \in Disks /\ Reading(x, g, D))
          /\ j.op \in PioWrites => x.status = Failed \/ (d \in Disks /\ Writing(d, x, g, D))
          /\ j.op \in DmaOps    => d \in Disks /\ ("BSY" \notin x.status => Moved(g, D))
    /\ g.stage = "over" /\ ~g.error /\ j.op \in PioReads \cup PioWrites \cup DmaOps =>
          d \in Disks /\ Moved(g, D)

OnCourse(c) ==
    Progress(Of(c, guest[c].job), chan[c], guest[c], Holds(Of(c, guest[c].job)))

\* The channel still does what its guest asked for, unless the guest writes the task file
\* without looking at BSY.
Heeds(x, g) ==
    /\ g.stage = "command" => "BSY" \notin x.status
    /\ g.stage \in {"start", "poll", "interrupt", "data"} => x.command = g.job.op

\* The transfer s that is pending goes where the registers say, and what it will write is
\* what belongs there.  If its guest has not gone, it is the guest's; and the first block
\* of a DMA transfer is loaded.
Fits(s, x, g, cached) ==
    /\ s.first = Offset(x, x.lba48)
    /\ s.op = "write" => x.buffer = Written(s.drive, s.first)
    /\ g.stage # "idle" =>
          /\ s.drive[2] = g.job.drive
          /\ s.op = "prefetch" =>
                /\ g.job.op \in DmaOps /\ AtWork(x, g.job, 0) /\ g.data = <<>>
                /\ x.table.drive = s.drive /\ x.table.first = s.first
                /\ x.table.sizes[1] + x.table.sizes[2] = g.job.count
                /\ BlockOf(s.first) \in cached

PendingFits ==
    LET c == slot.drive[1] IN
    slot.busy =>
        /\ Without({"machine"}) => guest[c].stage # "idle"
        /\ Fits(slot, chan[c], guest[c], store[slot.drive].cached)

UsedOps == {j.op : j \in use.jobs} \cup {"none"}

Data ==
    /\ \A c \in Channels : chan[c].command \in UsedOps
    /\ Running /\ Without({"hasty"}) => \A c \in Channels : Heeds(chan[c], guest[c])
    /\ Calm => (\A c \in Channels : OnCourse(c)) /\ PendingFits

\* The kinds of commands exclude each other.
LEMMA Kinds ==
    /\ PioReads \cap PioWrites = {} /\ PioReads \cap DmaOps = {} /\ PioWrites \cap DmaOps = {}
    /\ "identify" \notin PioReads \cup PioWrites \cup DmaOps
    /\ \A op \in NonData : op \notin PioReads \cup PioWrites \cup DmaOps
  BY DEF PioReads, PioWrites, DmaOps, NonData

\* Which progress a guest has to show, by its stage and its job.
LEMMA ProgressBegun ==
    ASSUME NEW d, NEW x, NEW g, NEW D, g.stage = "command", g.data = <<>>,
           Stands(x, g.job, 0), g.job.op \in DmaOps => d \in Disks
    PROVE  Progress(d, x, g, D)
  BY DEF Progress

\* What a guest has to show that is about to start the bus master.
LEMMA ProgressStarting ==
    ASSUME NEW d, NEW x, NEW g, NEW D, g.stage = "start", g.data = <<>>, d \in Disks,
           AtWork(x, g.job, 0), g.job.op \in DmaOps
    PROVE  Progress(d, x, g, D)
  BY DEF Progress, AtWork

\* A guest whose command is given up or has failed has nothing to show.
LEMMA ProgressGone ==
    ASSUME NEW d, NEW x, NEW g, NEW D, g.stage \in {"idle", "reset"} \/ (g.stage = "over" /\ g.error)
    PROVE  Progress(d, x, g, D)
  BY DEF Progress

\* What it has to show of a command that is over.
LEMMA ProgressOver ==
    ASSUME NEW d, NEW x, NEW g, NEW D, g.stage = "over",
           g.job.op \in PioReads \cup PioWrites \cup DmaOps => d \in Disks /\ Moved(g, D)
    PROVE  Progress(d, x, g, D)
  BY DEF Progress

\* What it has to show of a read.
LEMMA ProgressReading ==
    ASSUME NEW d, NEW x, NEW g, NEW D, g.stage \in {"poll", "interrupt", "data"},
           g.stage = "data" => "DRQ" \in x.status, g.job.op \in PioReads,
           x.status = Failed \/ (d \in Disks /\ Reading(x, g, D))
    PROVE  Progress(d, x, g, D)
  BY Kinds DEF Progress

\* What it has to show of a write.
LEMMA ProgressWriting ==
    ASSUME NEW d, NEW x, NEW g, NEW D, g.stage \in {"poll", "interrupt", "data"},
           g.stage = "data" => "DRQ" \in x.status, g.job.op \in PioWrites,
           x.status = Failed \/ (d \in Disks /\ Writing(d, x, g, D))
    PROVE  Progress(d, x, g, D)
  BY Kinds DEF Progress

\* What it has to show of a DMA transfer.
LEMMA ProgressDma ==
    ASSUME NEW d, NEW x, NEW g, NEW D, g.stage \in {"poll", "interrupt", "data"},
           g.stage = "data" => "DRQ" \in x.status, g.job.op \in DmaOps, d \in Disks,
           "BSY" \notin x.status => Moved(g, D)
    PROVE  Progress(d, x, g, D)
  BY Kinds DEF Progress

\* Of a command without sectors it has nothing to show.
LEMMA ProgressElse ==
    ASSUME NEW d, NEW x, NEW g, NEW D, g.stage \in {"poll", "interrupt", "data"},
           g.stage = "data" => "DRQ" \in x.status,
           g.job.op \notin PioReads \cup PioWrites \cup DmaOps
    PROVE  Progress(d, x, g, D)
  BY DEF Progress

\* What a guest has to show does not depend on the other parts of a channel's state.
SameWork(x, y) ==
    /\ SameRegisters(x, y)
    /\ y.selected = x.selected /\ y.lba = x.lba /\ y.lba48 = x.lba48
    /\ y.command = x.command /\ y.table = x.table /\ y.buffer = x.buffer

\* The registers then name the same sectors.
LEMMA SameWorkStands ==
    ASSUME NEW x, NEW y, SameWork(x, y)
    PROVE  /\ Offset(y, y.lba48) = Offset(x, x.lba48)
           /\ \A j, k : /\ Stands(y, j, k) <=> Stands(x, j, k)
                        /\ AtWork(y, j, k) <=> AtWork(x, j, k)
<1>1. \A l : Offset(y, l) = Offset(x, l)
  BY DEF SameWork, SameRegisters, Offset
<1>2. y.selected = x.selected /\ y.lba = x.lba /\ y.lba48 = x.lba48 /\ y.command = x.command
  BY DEF SameWork
<1>3. \A j, m : CountIs(y, j, m) <=> CountIs(x, j, m)
  BY DEF SameWork, SameRegisters, CountIs
<1>4. \A j, k : Stands(y, j, k) <=> Stands(x, j, k)
  BY <1>1, <1>2, <1>3 DEF Stands
<1> QED  BY <1>1, <1>2, <1>4 DEF AtWork

\* The guest has got as far.
LEMMA SameProgress ==
    ASSUME NEW d, NEW x, NEW y, NEW g, NEW D, SameWork(x, y), y.status = x.status,
           Progress(d, x, g, D)
    PROVE  Progress(d, y, g, D)
<1>1. \A j, k : /\ Stands(y, j, k) <=> Stands(x, j, k)
                /\ AtWork(y, j, k) <=> AtWork(x, j, k)
  BY SameWorkStands
<1>2. y.buffer = x.buffer
  BY DEF SameWork
<1>3. Reading(x, g, D) => Reading(y, g, D)
  BY <1>1, <1>2 DEF Reading
<1>4. Writing(d, x, g, D) => Writing(d, y, g, D)
  BY <1>1 DEF Writing
<1> QED  BY <1>1, <1>3, <1>4 DEF Progress

\* And a transfer that is pending goes where it went.
LEMMA SameFits ==
    ASSUME NEW s, NEW x, NEW y, NEW g, NEW h, NEW cached, NEW more, SameWork(x, y),
           h.stage # "idle" => g.stage # "idle", h.job = g.job, h.data = g.data,
           cached \subseteq more,
           Fits(s, x, g, cached)
    PROVE  Fits(s, y, h, more)
<1>1. \A j, k : AtWork(y, j, k) <=> AtWork(x, j, k)
  BY SameWorkStands
<1>2. Offset(y, y.lba48) = Offset(x, x.lba48)
  BY SameWorkStands
<1>3. y.buffer = x.buffer /\ y.table = x.table
  BY DEF SameWork
<1> QED  BY <1>1, <1>2, <1>3 DEF Fits

-----------------------------------------------------------------------------
(* Every step keeps it.                                                     *)

\* A step of one channel, its guest and its transfer leaves the others on their course.
Local(c) ==
    /\ UNCHANGED use /\ Running
    /\ \A e \in Channels \ {c} : guest'[e] = guest[e] /\ chan'[e] = chan[e]
    /\ Calm => \A d \in Disks : /\ d[1] # c => store'[d].data = store[d].data
                                /\ store[d].cached \subseteq store'[d].cached

\* What has to be shown of such a step.
LEMMA LocalStep ==
    ASSUME TypeOK, TypeOK', Data, NEW c \in Channels, Local(c),
           chan'[c].command \in UsedOps,
           Running' /\ Without({"hasty"}) => Heeds(chan'[c], guest'[c]),
           Calm => OnCourse(c)',
           Calm /\ slot'.busy =>
              \/ slot' = slot /\ slot.drive[1] # c
              \/ /\ slot'.drive[1] = c
                 /\ Without({"machine"}) => guest'[c].stage # "idle"
                 /\ Fits(slot', chan'[c], guest'[c], store'[slot'.drive].cached)
    PROVE  Data'
<1>1. /\ Calm' = Calm /\ Without({"hasty"})' = Without({"hasty"})
      /\ Without({"machine"})' = Without({"machine"})
  BY HabitsStay DEF Local, Calm
<1>2. UsedOps' = UsedOps
  BY DEF Local, UsedOps
<1>3. \A e \in Channels : (chan[e].command \in UsedOps)'
  BY <1>2 DEF Data, Local
<1>4. ASSUME Running', Without({"hasty"})
      PROVE  \A e \in Channels : Heeds(chan'[e], guest'[e])
  BY <1>4 DEF Data, Local
<1>5. ASSUME Calm, NEW e \in Channels
      PROVE  OnCourse(e)'
  <2>1. CASE e # c
    <3> DEFINE d == Of(e, guest[e].job)
    <3>1. OnCourse(e) /\ guest'[e] = guest[e] /\ chan'[e] = chan[e]
      BY <1>5, <2>1 DEF Data, Local
    <3>2. d[1] = e
      BY DEF Of
    <3>3. Holds(d)' = Holds(d)
      BY <1>5, <2>1, <3>2 DEF Holds, Local
    <3> QED  BY <3>1, <3>3 DEF OnCourse
  <2> QED  BY <1>5, <2>1
<1>6. ASSUME Calm
      PROVE  PendingFits'
  <2>1. ASSUME slot'.busy, slot' = slot, slot.drive[1] # c
        PROVE  PendingFits'
    <3> DEFINE e == slot.drive[1]
    <3>1. e \in Channels /\ slot.drive \in Disks
      BY <2>1, DriveOfChannel, TypeParts DEF DeviceOK
    <3>2. chan'[e] = chan[e] /\ guest'[e] = guest[e]
      BY <2>1, <3>1 DEF Local
    <3>3. store[slot.drive].cached \subseteq store'[slot.drive].cached
      BY <1>6, <3>1 DEF Local
    <3>4. /\ Without({"machine"}) => guest[e].stage # "idle"
          /\ Fits(slot, chan[e], guest[e], store[slot.drive].cached)
      BY <1>6, <2>1 DEF Data, PendingFits
    <3>5. Fits(slot, chan[e], guest[e], store'[slot.drive].cached)
      BY <3>3, <3>4 DEF Fits
    <3> QED  BY <1>1, <2>1, <3>2, <3>4, <3>5 DEF PendingFits
  <2>2. ASSUME slot'.busy, slot'.drive[1] = c, Without({"machine"}) => guest'[c].stage # "idle",
               Fits(slot', chan'[c], guest'[c], store'[slot'.drive].cached)
        PROVE  PendingFits'
    BY <1>1, <2>2 DEF PendingFits
  <2>3. ~slot'.busy => PendingFits'
    BY DEF PendingFits
  <2> QED  BY <1>6, <2>1, <2>2, <2>3
<1> QED  BY <1>1, <1>3, <1>4, <1>5, <1>6 DEF Data

\* No transfer is pending for a channel that is not busy.
LEMMA NonePending ==
    ASSUME CompletionAwaited, Calm, NEW c \in Channels, "BSY" \notin chan[c].status, slot.busy
    PROVE  slot.drive[1] # c
  BY AwaitedParts DEF Calm

\* A step of a guest whose channel is not busy, in which no transfer becomes pending.
LEMMA FreeLocalStep ==
    ASSUME TypeOK, TypeOK', CompletionAwaited, Data, NEW c \in Channels, Local(c),
           "BSY" \notin chan[c].status, slot' = slot,
           chan'[c].command \in UsedOps,
           Running' /\ Without({"hasty"}) => Heeds(chan'[c], guest'[c]),
           Calm => OnCourse(c)'
    PROVE  Data'
<1>1. Calm /\ slot'.busy => slot' = slot /\ slot.drive[1] # c
  BY NonePending
<1> QED  BY <1>1, LocalStep

\* A step that changes neither a channel, a guest nor what the disks hold.
LEMMA StillStep ==
    ASSUME Data, UNCHANGED <<chan, guest, use, store>>, Running' => Running,
           slot' = slot \/ ~slot'.busy
    PROVE  Data'
<1>1. /\ Calm' = Calm /\ Without({"hasty"})' = Without({"hasty"})
      /\ Without({"machine"})' = Without({"machine"})
  BY HabitsStay DEF Calm
<1>2. \A c \in Channels : OnCourse(c) => OnCourse(c)'
  BY DEF OnCourse, Holds
<1>3. PendingFits => PendingFits'
  BY <1>1 DEF PendingFits
<1>4. UsedOps' = UsedOps
  BY DEF UsedOps
<1> QED  BY <1>1, <1>2, <1>3, <1>4 DEF Data

\* The guest writes the task file.
LEMMA SetUpData ==
    ASSUME TypeOK, TypeOK', Control, Data, NEW c \in Channels, NEW j \in use.jobs, SetUp(c, j)
    PROVE  Data'
<1> DEFINE x == chan[c]
           y == TaskFile(x, j)
           h == [stage |-> "command", job |-> j, data |-> <<>>, error |-> FALSE]
<1>1. DeviceOK /\ GuestOK /\ x \in Channel /\ j \in Job
  <2>1. DeviceOK /\ GuestOK /\ j \in Job
    BY TypeParts, UseIs
  <2> QED  BY <2>1 DEF DeviceOK
<1>2. /\ chan' = [chan EXCEPT ![c] = y] /\ guest' = [guest EXCEPT ![c] = h]
      /\ UNCHANGED <<store, slot, use>> /\ Running
      /\ Type[c][j.drive] = "disk" \/ (Type[c][j.drive] = "cdrom" /\ j.op \notin DmaOps)
      /\ "BSY" \in x.status => "hasty" \in use.habits
  BY SetUpIs DEF At
<1>3. y.status = x.status /\ y.command = x.command /\ Stands(y, j, 0)
  BY <1>1, TaskFileIs, TaskFileStands
<1> HIDE DEF y
<1>4. /\ chan'[c] = y /\ guest'[c] = h
      /\ \A e \in Channels \ {c} : chan'[e] = chan[e] /\ guest'[e] = guest[e]
  BY <1>1, <1>2 DEF DeviceOK, GuestOK
<1>5. Local(c)
  BY <1>2, <1>4 DEF Local
<1>6. Without({"hasty"}) => "BSY" \notin x.status
  BY <1>2 DEF Without
<1>7. Without({"hasty"}) => Heeds(chan'[c], guest'[c])
  BY <1>3, <1>4, <1>6 DEF Heeds
<1>8. OnCourse(c)'
  <2>1. j.op \in DmaOps => Of(c, j) \in Disks
    <3>1. j.drive \in {0, 1}
      BY <1>1, JobIs
    <3> QED  BY <1>2, <3>1 DEF Of, Disks, Drives, TypeOf
  <2> QED  BY <1>3, <1>4, <2>1, ProgressBegun DEF OnCourse
<1>9. Calm /\ slot'.busy => slot' = slot /\ slot.drive[1] # c
  BY <1>2, <1>6, NonePending DEF Calm, Control
<1>10. chan'[c].command \in UsedOps
  BY <1>3, <1>4 DEF Data
<1> QED  BY <1>5, <1>7, <1>8, <1>9, <1>10, LocalStep

\* A guest's job is one of the declared ones.
LEMMA JobIsUsed ==
    ASSUME TypeOK, Control, NEW c \in Channels
    PROVE  /\ guest[c].job.op \in UsedOps
           /\ guest[c].job.op \in Ops => guest[c].job \in Job
<1>1. guest[c].job \in use.jobs \cup {NoJob} /\ guest[c].job \in Job \cup {NoJob}
  BY DEF Control, JobsUsed, TypeOK
<1>2. NoJob.op = "none" /\ "none" \notin Ops
  BY DEF NoJob, Ops, PioReads, PioWrites, DmaOps, NonData
<1> QED  BY <1>1, <1>2 DEF UsedOps

\* What is so when a command is given.
LEMMA CommandedIs ==
    ASSUME TypeOK, Control, Data, NEW c \in Channels, NEW ops \in SUBSET Ops, Commanded(c, ops)
    PROVE  LET j == guest[c].job
               a == Accepted(c)
               w == Widened(a, Wide(j))
           IN  /\ UNCHANGED use /\ Running
               /\ guest[c].stage = "command" /\ "BSY" \notin chan[c].status
               /\ j \in Job /\ j.op \in ops /\ j.op \in UsedOps
               /\ a \in Channel /\ a.command = j.op /\ a.selected = chan[c].selected
               /\ a.status = chan[c].status \ {"ERR"}
               /\ w \in Channel /\ w.command = j.op /\ w.status = a.status
               /\ w.selected = chan[c].selected
               /\ Calm => /\ guest[c].data = <<>>
                          /\ AtWork(w, j, 0) /\ Selected(c, chan[c]) = Of(c, j)
                          /\ j.op \in DmaOps => Of(c, j) \in Disks
<1> DEFINE x == chan[c]
           j == guest[c].job
           a == Accepted(c)
           w == Widened(a, Wide(j))
<1>1. UNCHANGED use /\ guest[c].stage = "command" /\ "BSY" \notin x.status /\ j.op \in ops
      /\ Running
  BY DEF Commanded, At
<1>2. j \in Job /\ j.op \in UsedOps
  BY <1>1, JobIsUsed
<1>3. /\ a \in Channel /\ SameRegisters(x, a) /\ a.selected = x.selected /\ a.lba = x.lba
      /\ a.status = x.status \ {"ERR"} /\ a.command = j.op
  BY <1>1, AcceptedIs
<1> HIDE DEF a
<1>4. Wide(j) \in BOOLEAN
  BY DEF Wide
<1>5. /\ w \in Channel /\ SameRegisters(a, w) /\ w.lba48 = Wide(j)
      /\ w.selected = a.selected /\ w.lba = a.lba /\ w.command = a.command
      /\ w.status = a.status
  BY <1>3, <1>4, WidenedIs
<1> HIDE DEF w
<1>6. ASSUME Calm
      PROVE  guest[c].data = <<>> /\ Stands(x, j, 0) /\ (j.op \in DmaOps => Of(c, j) \in Disks)
  BY <1>1, <1>6 DEF Data, OnCourse, Progress
<1>7. ASSUME Calm
      PROVE  AtWork(w, j, 0) /\ Selected(c, x) = Of(c, j)
  <2>1. Stands(x, j, 0)
    BY <1>6, <1>7
  <2>2. SameRegisters(x, w)
    BY <1>3, <1>5 DEF SameRegisters
  <2>3. Offset(w, Wide(j)) = Offset(x, Wide(j))
    BY <1>3, <1>5, <2>2 DEF Offset, SameRegisters
  <2>4. CountIs(w, j, j.count - 0) <=> CountIs(x, j, j.count - 0)
    BY <2>2 DEF CountIs, SameRegisters
  <2>5. Stands(w, j, 0)
    BY <1>3, <1>5, <2>1, <2>3, <2>4 DEF Stands
  <2> QED  BY <1>3, <1>5, <2>1, <2>5 DEF AtWork, Stands, Selected, Of
<1> QED  BY <1>1, <1>2, <1>3, <1>5, <1>6, <1>7 DEF a, w

\* A guest that is at another stage.
Staged(g, stage) == [g EXCEPT !.stage = stage]

\* What Then() makes of the guests.
LEMMA StagedIs ==
    ASSUME GuestOK, NEW c \in Channels, NEW stage, Then(c, stage)
    PROVE  /\ guest'[c] = Staged(guest[c], stage)
           /\ Staged(guest[c], stage).stage = stage
           /\ Staged(guest[c], stage).job = guest[c].job
           /\ Staged(guest[c], stage).data = guest[c].data
           /\ \A e \in Channels \ {c} : guest'[e] = guest[e]
  BY DEF GuestOK, Then, Staged

\* A command that needs no block that is not loaded.
LEMMA FreeCommand ==
    ASSUME TypeOK, TypeOK', Control, Data, NEW c \in Channels, NEW ops \in SUBSET Ops,
           Commanded(c, ops), NEW stage \in {"start", "poll", "interrupt"}, Then(c, stage),
           NEW y, chan' = [chan EXCEPT ![c] = y], UNCHANGED <<store, slot>>,
           y.command = guest[c].job.op,
           Calm => LET d == Of(c, guest[c].job)
                   IN  Progress(d, y, Staged(guest[c], stage), Holds(d))
    PROVE  Data'
<1> DEFINE j == guest[c].job
           h == Staged(guest[c], stage)
<1>1. DeviceOK /\ GuestOK
  BY TypeParts
<1>2. UNCHANGED use /\ Running /\ "BSY" \notin chan[c].status /\ j.op \in UsedOps
  BY CommandedIs
<1>3. /\ guest'[c] = h /\ h.stage = stage /\ h.job = j
      /\ \A e \in Channels \ {c} : guest'[e] = guest[e]
  BY <1>1, StagedIs
<1>4. chan'[c] = y /\ \A e \in Channels \ {c} : chan'[e] = chan[e]
  BY <1>1 DEF DeviceOK
<1>5. Local(c)
  BY <1>2, <1>3, <1>4 DEF Local
<1>6. Heeds(chan'[c], guest'[c])
  BY <1>3, <1>4 DEF Heeds
<1>7. Calm => OnCourse(c)'
  BY <1>3, <1>4 DEF OnCourse, Holds
<1> QED  BY <1>2, <1>4, <1>5, <1>6, <1>7, FreeLocalStep DEF Control

\* Drives of which a channel has selected one that is a disk.
LEMMA NotRejected ==
    ASSUME TypeOK, NEW c \in Channels, NEW op, ~Rejects(c, op)
    PROVE  Selected(c, chan[c]) \in Disks
<1>1. Selected(c, chan[c]) \in Drives
  BY Drivable DEF TypeOK
<1> QED  BY <1>1 DEF Rejects, Disks

\* A step of a guest that begins or goes on reading.
LEMMA ReadingStep ==
    ASSUME TypeOK, TypeOK', Control, Data, NEW c \in Channels, NEW x \in Channel,
           ReadSectors(c, x), Calm, Running,
           NEW k \in Nat, k < guest[c].job.count, guest[c].job \in Job,
           guest[c].job.op \in PioReads, AtWork(x, guest[c].job, k), Of(c, guest[c].job) \in Disks,
           NEW g, guest'[c] = g, g.job = guest[c].job, g.stage \in {"poll", "interrupt"},
           \A e \in Channels \ {c} : guest'[e] = guest[e], UNCHANGED use,
           Len(g.data) = k,
           \A i \in 1 .. k : g.data[i] = store[Of(c, g.job)].data[g.job.first + i - 1],
           slot.busy => slot.drive[1] # c
    PROVE  Data' /\ fatal' = fatal /\ \A d \in Disks : store'[d].data = store[d].data
<1> DEFINE j == guest[c].job
           d == Of(c, j)
           y == chan'[c]
           D == store[d].data
<1>1. /\ fatal' = fatal /\ \A e \in Channels \ {c} : chan'[e] = chan[e]
      /\ \A e \in Disks : /\ store'[e].data = store[e].data
                          /\ store[e].cached \subseteq store'[e].cached
      /\ y \in Channel /\ y.command = x.command
      /\ \/ /\ y.status = {"DRDY", "DSC", "DRQ"} /\ slot' = slot
            /\ AtWork(y, j, k + 1) /\ y.buffer = D[j.first + k]
         \/ /\ y.status = {"DRDY", "DSC", "BSY"}
            /\ AtWork(y, j, k)
            /\ slot'.busy /\ slot'.op = "read" /\ slot'.drive = d
            /\ slot'.first = Offset(y, y.lba48)
  BY ReadSectorsMoves
<1> HIDE DEF y
<1>2. x.command = j.op
  BY DEF AtWork
<1>3. Local(c)
  BY <1>1 DEF Local
<1>4. y.command \in UsedOps /\ Heeds(y, g)
  <2>1. j.op \in UsedOps
    BY JobIsUsed
  <2> QED  BY <1>1, <1>2, <2>1 DEF Heeds
<1>5. Holds(d)' = D
  BY <1>1 DEF Holds
<1>6. Reading(y, g, D)
  <2>1. k <= j.count /\ g.job = j /\ \A i \in 1 .. k : g.data[i] = D[j.first + i - 1]
    BY JobIs
  <2> HIDE DEF j, D
  <2>2. CASE /\ y.status = {"DRDY", "DSC", "DRQ"}
             /\ AtWork(y, j, k + 1) /\ y.buffer = D[j.first + k]
    <3>1. k < j.count /\ "BSY" \notin y.status /\ "DRQ" \in y.status
      BY <2>2 DEF j
    <3> QED  BY <2>1, <2>2, <3>1 DEF Reading
  <2>3. CASE y.status = {"DRDY", "DSC", "BSY"} /\ AtWork(y, j, k)
    <3>1. k < j.count /\ "BSY" \in y.status
      BY <2>3 DEF j
    <3> QED  BY <2>1, <2>3, <3>1 DEF Reading
  <2> QED  BY <1>1, <2>2, <2>3
<1>7. OnCourse(c)'
  BY <1>5, <1>6, ProgressReading DEF OnCourse, y
<1>8. slot'.busy => \/ slot' = slot /\ slot.drive[1] # c
                    \/ /\ slot'.drive[1] = c /\ guest'[c].stage # "idle"
                       /\ Fits(slot', chan'[c], guest'[c], store'[slot'.drive].cached)
  BY <1>1 DEF Fits, Of, y
<1> QED  BY <1>1, <1>3, <1>4, <1>7, <1>8, LocalStep DEF y

\* Where the blocks of a transfer go does not matter to what the channel heeds.
LEMMA ReadSectorsCommand ==
    ASSUME TypeOK, NEW c \in Channels, NEW x \in Channel, ReadSectors(c, x)
    PROVE  /\ \A e \in Channels \ {c} : chan'[e] = chan[e]
           /\ chan'[c].command = x.command \/ (UNCHANGED chan /\ ~Running')
<1>1. DeviceOK
  BY TypeParts
<1>2. CASE GoBeyond
  BY <1>2 DEF GoBeyond, Running
<1>3. ASSUME NEW y, chan' = [chan EXCEPT ![c] = y], y.command = x.command
      PROVE  chan'[c].command = x.command /\ \A e \in Channels \ {c} : chan'[e] = chan[e]
  BY <1>1, <1>3 DEF DeviceOK
<1>4. ASSUME NEW v
      PROVE  SectorReady(x, v).command = x.command
  <2>1. Advanced(x) \in Channel /\ Advanced(x).command = x.command
    BY AdvancedKeeps, AdvancedTask DEF SameTask
  <2> QED  BY <2>1 DEF SectorReady, Channel
<1>5. Awaiting(x).command = x.command
  BY AwaitingIs DEF SameTask
<1> QED  BY <1>2, <1>3, <1>4, <1>5 DEF ReadSectors

\* The same of the end of ide_pio_write_callback().
LEMMA WriteSectorCommand ==
    ASSUME TypeOK, NEW c \in Channels, NEW x \in Channel, WriteSector(c, x)
    PROVE  /\ \A e \in Channels \ {c} : chan'[e] = chan[e]
           /\ chan'[c].command = x.command \/ (UNCHANGED chan /\ ~Running')
<1>1. DeviceOK
  BY TypeParts
<1>2. CASE GoBeyond
  BY <1>2 DEF GoBeyond, Running
<1>3. ASSUME NEW y, chan' = [chan EXCEPT ![c] = y], y.command = x.command
      PROVE  chan'[c].command = x.command /\ \A e \in Channels \ {c} : chan'[e] = chan[e]
  BY <1>1, <1>3 DEF DeviceOK
<1>4. SectorWritten(x).command = x.command /\ Awaiting(x).command = x.command
  BY SectorWrittenIs, AwaitingIs DEF SameTask
<1> QED  BY <1>2, <1>3, <1>4 DEF WriteSector

\* A step of a guest that is not calm.
LEMMA StrayStep ==
    ASSUME TypeOK, TypeOK', Data, NEW c \in Channels, ~Calm, UNCHANGED use, Running,
           \A e \in Channels \ {c} : guest'[e] = guest[e] /\ chan'[e] = chan[e],
           chan'[c].command \in UsedOps,
           Running' /\ Without({"hasty"}) => Heeds(chan'[c], guest'[c])
    PROVE  Data'
  BY LocalStep DEF Local

\* READ SECTORS and READ MULTIPLE: the first sector is delivered or waited for.
LEMMA CommandReadData ==
    ASSUME TypeOK, TypeOK', Control, Data, NEW c \in Channels, CommandRead(c)
    PROVE  /\ Data'
           /\ Calm => fatal' = fatal /\ \A d \in Disks : store'[d].data = store[d].data
<1> DEFINE j == guest[c].job
           a == Accepted(c)
           w == Widened(a, Wide(j))
           g == Staged(guest[c], Waiting)
<1>1. /\ Commanded(c, PioReads) /\ Then(c, Waiting)
      /\ \/ /\ chan' = [chan EXCEPT ![c] = Aborted(a)] /\ UNCHANGED <<store, slot, fatal>>
         \/ ReadSectors(c, w) /\ ~Rejects(c, j.op)
  BY DEF CommandRead, Widened, Wide
<1>2. PioReads \in SUBSET Ops /\ Waiting \in {"start", "poll", "interrupt"}
  BY WaitingIs DEF Ops
<1>3. /\ UNCHANGED use /\ Running /\ "BSY" \notin chan[c].status
      /\ j \in Job /\ j.op \in PioReads
      /\ a \in Channel /\ a.command = j.op
      /\ w \in Channel /\ w.command = j.op
      /\ Calm => guest[c].data = <<>> /\ AtWork(w, j, 0) /\ Selected(c, chan[c]) = Of(c, j)
  BY <1>1, <1>2, CommandedIs
<1>4. DeviceOK /\ GuestOK
  BY TypeParts
<1> HIDE DEF a
<1>5. /\ guest'[c] = g /\ g.stage = Waiting /\ g.job = j /\ g.data = guest[c].data
      /\ \A e \in Channels \ {c} : guest'[e] = guest[e]
  BY <1>1, <1>4, StagedIs
<1>6. CASE chan' = [chan EXCEPT ![c] = Aborted(a)] /\ UNCHANGED <<store, slot, fatal>>
  <2> DEFINE y == Aborted(a)
  <2>1. y.command = j.op /\ y.status = Failed
    BY <1>3, AbortedIs DEF SameTask, Failed
  <2> HIDE DEF y, g
  <2>2. Progress(Of(c, j), y, g, Holds(Of(c, j)))
    BY <1>3, <1>5, <2>1, WaitingIs, ProgressReading DEF Failed
  <2>3. chan' = [chan EXCEPT ![c] = y]
    BY <1>6 DEF y
  <2> QED  BY <1>1, <1>2, <1>6, <2>1, <2>2, <2>3, FreeCommand DEF g
<1>7. CASE ReadSectors(c, w) /\ ~Rejects(c, j.op) /\ Calm
  <2>1. Of(c, j) \in Disks
    BY <1>3, <1>7, NotRejected
  <2>2. 0 < j.count /\ Len(g.data) = 0
    BY <1>3, <1>5, <1>7, JobIs
  <2>3. slot.busy => slot.drive[1] # c
    BY <1>3, <1>7, NonePending DEF Control
  <2> HIDE DEF g, w
  <2> QED  BY <1>3, <1>5, <1>7, <2>1, <2>2, <2>3, WaitingIs, ReadingStep
<1>8. CASE ReadSectors(c, w) /\ ~Calm
  <2>1. /\ \A e \in Channels \ {c} : chan'[e] = chan[e]
        /\ chan'[c].command = j.op \/ (UNCHANGED chan /\ ~Running')
    BY <1>3, <1>8, ReadSectorsCommand
  <2> HIDE DEF g
  <2>2. /\ chan[c].command \in UsedOps /\ j.op \in UsedOps /\ Running
        /\ g.stage \in {"poll", "interrupt"}
    BY <1>1, <1>5, JobIsUsed, WaitingIs DEF Data, Commanded, At
  <2>3. Running' => Heeds(chan'[c], guest'[c])
    BY <1>5, <2>1, <2>2 DEF Heeds
  <2>4. chan'[c].command \in UsedOps
    BY <2>1, <2>2
  <2> QED  BY <1>3, <1>5, <1>8, <2>1, <2>2, <2>3, <2>4, StrayStep
<1> QED  BY <1>1, <1>6, <1>7, <1>8

\* WRITE SECTORS and WRITE MULTIPLE, which wait for the first sector.
LEMMA CommandWriteData ==
    ASSUME TypeOK, TypeOK', Control, Data, NEW c \in Channels, CommandWrite(c)
    PROVE  Data'
<1> DEFINE j == guest[c].job
           a == Accepted(c)
           w == Widened(a, Wide(j))
           g == Staged(guest[c], "poll")
           y == IF Rejects(c, j.op) THEN Aborted(a) ELSE SectorAwaited(w)
<1>1. /\ Commanded(c, PioWrites) /\ Then(c, "poll")
      /\ chan' = [chan EXCEPT ![c] = y] /\ UNCHANGED <<store, slot>>
  BY DEF CommandWrite, Widened, Wide
<1>2. PioWrites \in SUBSET Ops
  BY DEF Ops
<1>3. /\ j \in Job /\ j.op \in PioWrites
      /\ a \in Channel /\ a.command = j.op
      /\ w \in Channel /\ w.command = j.op
      /\ Calm => guest[c].data = <<>> /\ AtWork(w, j, 0) /\ Selected(c, chan[c]) = Of(c, j)
  BY <1>1, <1>2, CommandedIs
<1>4. g.stage = "poll" /\ g.job = j /\ g.data = guest[c].data
  BY <1>1, TypeParts, StagedIs
<1> HIDE DEF a, w, g
<1>5. Aborted(a).command = j.op /\ Aborted(a).status = Failed
  BY <1>3, AbortedIs DEF SameTask, Failed
<1>6. /\ SectorAwaited(w).command = j.op /\ SectorAwaited(w).status = {"DRDY", "DSC", "DRQ"}
      /\ \A k : AtWork(w, j, k) => AtWork(SectorAwaited(w), j, k)
  BY <1>3, SectorAwaitedIs, StandsStill DEF SameTask
<1>7. y.command = j.op
  BY <1>5, <1>6
<1>8. ASSUME Calm
      PROVE  Progress(Of(c, j), y, g, Holds(Of(c, j)))
  <2>1. CASE Rejects(c, j.op)
    BY <1>3, <1>4, <1>5, <2>1, ProgressWriting DEF Failed
  <2>2. CASE ~Rejects(c, j.op)
    <3>1. Of(c, j) \in Disks
      BY <1>3, <1>8, <2>2, NotRejected
    <3>2. Len(g.data) = 0 /\ j.count \in Nat /\ 0 < j.count
      BY <1>3, <1>4, <1>8, JobIs
    <3>3. "BSY" \notin y.status /\ "DRQ" \in y.status /\ AtWork(y, j, 0)
      BY <1>3, <1>6, <1>8, <2>2
    <3> HIDE DEF y, j
    <3>4. Writing(Of(c, j), y, g, Holds(Of(c, j)))
      BY <1>4, <3>2, <3>3 DEF Writing, Stored
    <3> QED  BY <1>3, <1>4, <3>1, <3>3, <3>4, ProgressWriting
  <2> QED  BY <2>1, <2>2
<1> HIDE DEF y
<1> QED  BY <1>1, <1>2, <1>7, <1>8, FreeCommand DEF g

\* READ DMA and WRITE DMA, which wait for the bus master.
LEMMA CommandDmaData ==
    ASSUME TypeOK, TypeOK', Control, Data, NEW c \in Channels, CommandDma(c)
    PROVE  Data'
<1> DEFINE j == guest[c].job
           a == Accepted(c)
           w == Widened(a, Wide(j))
           g == Staged(guest[c], "start")
           y == [w EXCEPT !.status = {"DSC", "DRQ", "DRDY"}]
<1>1. /\ Commanded(c, DmaOps) /\ Then(c, "start")
      /\ chan' = [chan EXCEPT ![c] = y] /\ UNCHANGED <<store, slot>>
  BY DEF CommandDma, Widened, Wide
<1>2. DmaOps \in SUBSET Ops
  BY DEF Ops
<1>3. /\ j \in Job /\ j.op \in DmaOps /\ w \in Channel /\ w.command = j.op
      /\ Calm => guest[c].data = <<>> /\ AtWork(w, j, 0) /\ Of(c, j) \in Disks
  BY <1>1, <1>2, CommandedIs
<1>4. g.stage = "start" /\ g.job = j /\ g.data = guest[c].data
  BY <1>1, TypeParts, StagedIs
<1> HIDE DEF a, w, g
<1>5. SameWork(w, y)
  <2>1. y.lba = w.lba /\ y.lba48 = w.lba48
    BY <1>3 DEF Channel
  <2>2. /\ SameRegisters(w, y) /\ y.selected = w.selected /\ y.command = w.command
        /\ y.table = w.table /\ y.buffer = w.buffer
    BY <1>3 DEF Channel, SameRegisters
  <2> HIDE DEF y
  <2> QED  BY <2>1, <2>2 DEF SameWork
<1> HIDE DEF y
<1>6. y.command = j.op /\ (AtWork(w, j, 0) => AtWork(y, j, 0))
  BY <1>3, <1>5, SameWorkStands DEF SameWork
<1>7. ASSUME Calm
      PROVE  Progress(Of(c, j), y, g, Holds(Of(c, j)))
  BY <1>3, <1>4, <1>6, <1>7, ProgressStarting
<1> QED  BY <1>1, <1>2, <1>6, <1>7, FreeCommand DEF g

\* IDENTIFY DEVICE, whose data are not the disk's.
LEMMA CommandIdentifyData ==
    ASSUME TypeOK, TypeOK', Control, Data, NEW c \in Channels, CommandIdentify(c)
    PROVE  Data'
<1> DEFINE j == guest[c].job
           a == Accepted(c)
           type == TypeOf(Selected(c, a))
           z == [a EXCEPT !.status = {"DRDY", "DRQ", "DSC"}, !.buffer = Junk, !.irq = TRUE,
                          !.length = SectorAccesses, !.position = 0]
           y == IF type = "disk" THEN z ELSE Aborted(Signed(a, type))
           g == Staged(guest[c], Waiting)
<1>1. /\ Commanded(c, {"identify"}) /\ Then(c, Waiting)
      /\ chan' = [chan EXCEPT ![c] = y] /\ UNCHANGED <<store, slot>>
  BY DEF CommandIdentify
<1>2. {"identify"} \in SUBSET Ops /\ Waiting \in {"start", "poll", "interrupt"}
  BY WaitingIs DEF Ops
<1>3. j.op = "identify" /\ a \in Channel /\ a.command = j.op
  BY <1>1, <1>2, CommandedIs
<1>4. g.stage = Waiting /\ g.job = j
  BY <1>1, TypeParts, StagedIs
<1> HIDE DEF a, g
<1>5. z.command = j.op /\ Aborted(Signed(a, type)).command = j.op
  <2>1. z.command = a.command
    BY <1>3 DEF Channel
  <2> QED  BY <1>3, <2>1, SignedIs, AbortedIs DEF SameTask
<1> HIDE DEF z
<1>6. y.command = j.op
  BY <1>5
<1> HIDE DEF y
<1>7. Progress(Of(c, j), y, g, Holds(Of(c, j)))
  BY <1>3, <1>4, Kinds, WaitingIs, ProgressElse
<1> QED  BY <1>1, <1>2, <1>6, <1>7, FreeCommand DEF g

\* The commands without data, but READ VERIFY.
LEMMA CommandNonDataData ==
    ASSUME TypeOK, TypeOK', Control, Data, NEW c \in Channels, CommandNonData(c)
    PROVE  Data'
<1> DEFINE j == guest[c].job
           a == Accepted(c)
           y == Performed(a, TypeOf(Selected(c, a)), j.op)
           stage == IF j.op = "read max" THEN "poll" ELSE Waiting
           g == Staged(guest[c], stage)
<1>1. /\ Commanded(c, NonData \ {"verify"}) /\ Then(c, stage)
      /\ chan' = [chan EXCEPT ![c] = y] /\ UNCHANGED <<store, slot>>
  BY DEF CommandNonData
<1>2. NonData \ {"verify"} \in SUBSET Ops /\ stage \in {"poll", "interrupt"}
  BY WaitingIs DEF Ops
<1>3. /\ j.op \in NonData \ {"verify"} /\ a \in Channel /\ a.command = j.op
      /\ "BSY" \notin a.status
  BY <1>1, <1>2, CommandedIs
<1> HIDE DEF stage
<1>4. g.stage = stage /\ g.job = j
  BY <1>1, TypeParts, StagedIs
<1> HIDE DEF a, g
<1>5. y.command = j.op
  BY <1>3, PerformedIs
<1> HIDE DEF y
<1>6. Progress(Of(c, j), y, g, Holds(Of(c, j)))
  BY <1>2, <1>3, <1>4, Kinds, ProgressElse
<1> QED  BY <1>1, <1>2, <1>5, <1>6, FreeCommand DEF g

\* READ VERIFY SECTORS, which reports on the primary channel: where guests are calm, no
\* transfer is pending then, and the guests of the other channels are idle.
LEMMA CommandVerifyData ==
    ASSUME TypeOK, TypeOK', Control, Data, NEW c \in Channels, CommandVerify(c)
    PROVE  Data'
<1> DEFINE j == guest[c].job
           a == Accepted(c)
           wide == Wide(j)
           o == Offset(a, wide) + Low(a.count) - 1
           w == WithOffset(a, wide, o)
           y == Raised(w)
           g == Staged(guest[c], Waiting)
<1>1. /\ Commanded(c, {"verify"}) /\ Then(c, Waiting) /\ UNCHANGED <<store, slot>>
      /\ \/ chan' = [chan EXCEPT ![c] = Aborted(a)]
         \/ chan' = [[chan EXCEPT ![c] = y] EXCEPT ![Primary].status = {"DRDY"}]
  BY DEF CommandVerify, Wide
<1>2. {"verify"} \in SUBSET Ops /\ Waiting \in {"poll", "interrupt"}
  BY WaitingIs DEF Ops, NonData
<1>3. /\ UNCHANGED use /\ Running /\ "BSY" \notin chan[c].status /\ guest[c].stage = "command"
      /\ j.op = "verify" /\ j.op \in UsedOps /\ a \in Channel /\ a.command = j.op
  BY <1>1, <1>2, CommandedIs
<1>4. /\ guest'[c] = g /\ g.stage = Waiting /\ g.job = j
      /\ \A e \in Channels \ {c} : guest'[e] = guest[e]
  BY <1>1, TypeParts, StagedIs
<1> HIDE DEF a, g
<1>5. \A x : Progress(Of(c, j), x, g, Holds(Of(c, j)))
  <2>1. j.op \in NonData
    BY <1>3 DEF NonData
  <2> QED  BY <1>2, <1>4, <2>1, Kinds, ProgressElse
<1>6. CASE chan' = [chan EXCEPT ![c] = Aborted(a)]
  <2>1. Aborted(a).command = j.op
    BY <1>3, AbortedIs DEF SameTask
  <2> QED  BY <1>1, <1>2, <1>5, <1>6, <2>1, FreeCommand DEF g
<1>7. CASE chan' = [[chan EXCEPT ![c] = y] EXCEPT ![Primary].status = {"DRDY"}]
  <2>1. y \in Channel /\ y.command = j.op
    <3>1. wide \in BOOLEAN
      BY DEF Wide
    <3>2. o \in Int
      <4> HIDE DEF wide
      <4>1. a.count \in Int
        BY <1>3, Constants DEF Channel, Register
      <4>2. Offset(a, wide) \in Int /\ Low(a.count) \in Int
        BY <1>3, <3>1, <4>1, OffsetIsNumber, LowIsByte
      <4> QED  BY <4>2
    <3> HIDE DEF o, wide
    <3>3. w \in Channel /\ SameButAddress(a, w)
      BY <1>3, <3>1, <3>2, WithOffsetKeeps
    <3> HIDE DEF w
    <3> QED  BY <1>3, <3>3, RaisedIs DEF SameTask, SameButAddress
  <2> HIDE DEF y
  <2> DEFINE m == [chan EXCEPT ![c] = y]
             p == [m[Primary] EXCEPT !.status = {"DRDY"}]
  <2>2. m \in [Channels -> Channel] /\ m[c] = y /\ \A e \in Channels \ {c} : m[e] = chan[e]
    BY <2>1 DEF TypeOK
  <2>3. chan' = [m EXCEPT ![Primary] = p]
    BY <1>7
  <2> HIDE DEF m
  <2>4. p.command = m[Primary].command /\ p.status = {"DRDY"} /\ Primary \in Channels
    BY <2>2, IdeAssumption DEF Channel
  <2> HIDE DEF p
  <2>5. chan'[Primary] = p /\ \A e \in Channels \ {Primary} : chan'[e] = m[e]
    BY <2>2, <2>3, <2>4
  <2>6. chan'[c].command = j.op /\ \A e \in Channels \ {c} : chan'[e].command = chan[e].command
    BY <2>1, <2>2, <2>4, <2>5
  <2>7. \A e \in Channels \ {c} : "BSY" \in chan'[e].status => "BSY" \in chan[e].status
    BY <2>2, <2>4, <2>5
  <2>8. /\ Calm' = Calm /\ Without({"hasty"})' = Without({"hasty"}) /\ UsedOps' = UsedOps
    BY <1>3, HabitsStay DEF Calm, UsedOps
  <2>9. ASSUME NEW e \in Channels
        PROVE  /\ chan'[e].command \in UsedOps
               /\ Running' /\ Without({"hasty"}) => Heeds(chan'[e], guest'[e])
    <3>1. CASE e = c
      BY <1>2, <1>3, <1>4, <2>6, <3>1 DEF Heeds
    <3>2. CASE e # c
      <4>1. chan[e].command \in UsedOps /\ (Without({"hasty"}) => Heeds(chan[e], guest[e]))
        BY <1>3 DEF Data
      <4> QED  BY <1>4, <2>6, <2>7, <3>2, <4>1 DEF Heeds
    <3> QED  BY <3>1, <3>2
  <2>10. ASSUME Calm
         PROVE  (\A e \in Channels : OnCourse(e)') /\ PendingFits'
    <3>1. Alone
      <4>1. j \in use.jobs
        BY <1>3 DEF Control, JobsUsed, NoJob
      <4> QED  BY <1>3, <2>10, <4>1 DEF Calm, Disturbed, Alone
    <3>2. \A e \in Channels \ {c} : guest[e].stage = "idle" /\ "BSY" \notin chan[e].status
      BY <1>3, <3>1 DEF Control, OneAtATime
    <3>3. ~slot'.busy
      <4>1. slot.busy => "BSY" \in chan[slot.drive[1]].status
        BY <2>10, AwaitedParts DEF Calm, Control
      <4> QED  BY <1>1, <1>3, <3>2, <4>1, DriveOfChannel
    <3>4. ASSUME NEW e \in Channels \ {c}
          PROVE  OnCourse(e)'
      BY <1>4, <3>2, ProgressGone DEF OnCourse
    <3>5. OnCourse(c)'
      <4>1. \A d : Holds(d)' = Holds(d)
        BY <1>1 DEF Holds
      <4>2. Progress(Of(c, guest'[c].job), chan'[c], guest'[c], Holds(Of(c, guest'[c].job)))
        BY <1>4, <1>5
      <4> QED  BY <4>1, <4>2 DEF OnCourse, Holds
    <3> QED  BY <3>3, <3>4, <3>5 DEF PendingFits
  <2> QED  BY <2>8, <2>9, <2>10 DEF Data
<1> QED  BY <1>1, <1>6, <1>7

\* A command that is lost is given by a hasty guest.
LEMMA CommandIgnoredData ==
    ASSUME TypeOK, TypeOK', Control, Data, NEW c \in Channels, CommandIgnored(c)
    PROVE  Data'
<1> DEFINE y == [chan[c] EXCEPT !.irq = FALSE]
<1>1. /\ Running /\ guest[c].stage = "command" /\ "BSY" \in chan[c].status
      /\ chan' = [chan EXCEPT ![c] = y] /\ Then(c, Waiting) /\ UNCHANGED use
  BY DEF CommandIgnored, At
<1>2. ~Without({"hasty"}) /\ ~Calm
  BY <1>1 DEF Data, Heeds, Calm
<1>3. y.command = chan[c].command
  <2>1. chan[c] \in Channel
    BY DEF TypeOK
  <2> QED  BY <2>1 DEF Channel
<1> HIDE DEF y
<1>4. chan'[c] = y /\ \A e \in Channels \ {c} : chan'[e] = chan[e]
  BY <1>1 DEF TypeOK
<1>5. \A e \in Channels \ {c} : guest'[e] = guest[e]
  BY <1>1, TypeParts, ThenIs
<1>6. chan'[c].command \in UsedOps
  BY <1>3, <1>4 DEF Data
<1> QED  BY <1>1, <1>2, <1>4, <1>5, <1>6, StrayStep

\* All of them.
LEMMA CommandData ==
    ASSUME TypeOK, TypeOK', Control, Data, NEW c \in Channels, Command(c)
    PROVE  Data'
  BY CommandIgnoredData, CommandReadData, CommandWriteData, CommandDmaData,
     CommandIdentifyData, CommandNonDataData, CommandVerifyData DEF Command

-----------------------------------------------------------------------------
(* The steps that move data.                                                *)

\* A step writes to a sector nothing but what belongs to it.
InPlaceStep ==
    \A d \in Disks, s \in Sectors : store'[d].data[s] \in {store[d].data[s], Written(d, s)}

\* A step that ends the program does so for a guest whose job crosses a block.
Crosses(j) == j.op \in DmaOps /\ BlockOf(j.first) # BlockOf(j.first + j.count - 1)
FatalStep(c) ==
    fatal' = fatal \/ (fatal' = "expected sync response" /\ Crosses(guest'[c].job))

\* Sectors between two of a block are of that block.
LEMMA Between ==
    ASSUME NEW p \in Nat, NEW s \in Nat, NEW q \in Nat, p <= s, s <= q, BlockOf(p) = BlockOf(q)
    PROVE  BlockOf(s) = BlockOf(p)
<1> DEFINE b == BlockSectors
<1>1. b \in Nat /\ b >= 1
  BY Constants
<1> HIDE DEF b
<1>2. ASSUME NEW m \in Nat, NEW n \in Nat, m <= n
      PROVE  m \div b <= n \div b
  <2>1. /\ m = b * (m \div b) + (m % b) /\ n = b * (n \div b) + (n % b)
        /\ m % b \in 0 .. b - 1 /\ n % b \in 0 .. b - 1
        /\ m \div b \in Int /\ n \div b \in Int
    BY <1>1, Division
  <2> DEFINE u == m \div b
             v == n \div b
  <2>2. u \in Int /\ v \in Int /\ b * u <= n /\ n < b * (v + 1)
    BY <1>1, <1>2, <2>1
  <2> HIDE DEF u, v
  <2>3. b * u < b * (v + 1)
    BY <1>1, <2>2
  <2>4. u < v + 1
    BY <1>1, <2>2, <2>3
  <2> QED  BY <2>2, <2>4 DEF u, v
<1>3. p \div b <= s \div b /\ s \div b <= q \div b
  BY <1>2
<1>4. p \in Int /\ s \in Int
  OBVIOUS
<1>5. p \div b \in Int /\ s \div b \in Int
  BY <1>1, <1>4, Division
<1> QED  BY <1>3, <1>5 DEF BlockOf, b

\* A job with a sector that is in another block than its first crosses a block.
LEMMA CrossesBlock ==
    ASSUME NEW j \in Job, j.op \in DmaOps, NEW s \in Sectors, j.first <= s, s < j.first + j.count,
           NEW cached, BlockOf(j.first) \in cached, BlockOf(s) \notin cached
    PROVE  Crosses(j)
<1>1. /\ j.first \in Nat /\ s \in Nat /\ j.first + j.count - 1 \in Nat
      /\ s <= j.first + j.count - 1
  BY JobIs, Constants DEF Sectors
<1>2. BlockOf(s) # BlockOf(j.first)
  OBVIOUS
<1> QED  BY <1>1, <1>2, Between DEF Crosses

\* The bus master is started.
LEMMA StartDmaData ==
    ASSUME TypeOK, TypeOK', Control, Data, NEW c \in Channels, NEW table \in Tables(c),
           StartDma(c, table)
    PROVE  Data' /\ (Calm => InPlaceStep /\ FatalStep(c))
<1> DEFINE x == WithTable(chan[c], table)
           S == Prefetched(x)
           j == guest[c].job
           d == Of(c, j)
<1>1. DeviceOK /\ GuestOK /\ chan[c] \in Channel
  BY TypeParts DEF DeviceOK
<1>2. /\ At(c, "start") /\ UNCHANGED use
      /\ \/ GoBeyond /\ UNCHANGED guest /\ ~Reaches(Selected(c, x), S)
         \/ /\ Reaches(Selected(c, x), S) /\ Cached(Selected(c, x), S)
            /\ DmaHandler(c, x)
            /\ UNCHANGED slot
         \/ /\ Reaches(Selected(c, x), S)
            /\ Pending(c, "prefetch", x, S)
            /\ chan' = [chan EXCEPT ![c] = [x EXCEPT !.status = @ \cup {"BSY"}]]
            /\ Then(c, Waiting)
  BY StartDmaIs
<1>3. /\ table \in Table /\ table.drive = d /\ table.first = j.first
      /\ table.sizes[1] + table.sizes[2] = j.count
  BY <1>1, TablesAre DEF GuestOK, Of
<1>4. /\ x \in Channel /\ SameRegisters(chan[c], x) /\ x.table = table
      /\ x.selected = chan[c].selected /\ x.lba = chan[c].lba /\ x.lba48 = chan[c].lba48
      /\ x.command = chan[c].command /\ x.srst = chan[c].srst /\ x.buffer = chan[c].buffer
      /\ x.status = chan[c].status
  BY <1>1, <1>3, WithTableIs
<1>5. /\ Running /\ guest[c].stage = "start" /\ "BSY" \notin chan[c].status
      /\ chan[c].command \in UsedOps /\ (Without({"hasty"}) => chan[c].command = j.op)
  BY <1>2 DEF At, Control, StageFits, Data, Heeds
<1> HIDE DEF x, S
<1>6. ASSUME Calm
      PROVE  /\ j \in Job /\ j.op \in DmaOps /\ d \in Disks /\ guest[c].data = <<>>
             /\ AtWork(x, j, 0) /\ Selected(c, x) = d /\ Offset(x, x.lba48) = j.first
             /\ j.first \in Sectors
             /\ (slot.busy => slot.drive[1] # c)
  <2>1. /\ j.op \in DmaOps /\ d \in Disks /\ guest[c].data = <<>> /\ AtWork(chan[c], j, 0)
    BY <1>5, <1>6 DEF Data, OnCourse, Progress
  <2>2. j \in Job
    BY <2>1, JobIsUsed DEF Ops
  <2>3. AtWork(x, j, 0)
    <3>1. Offset(x, Wide(j)) = Offset(chan[c], Wide(j))
      BY <1>4 DEF Offset, SameRegisters
    <3>2. CountIs(chan[c], j, j.count - 0) => CountIs(x, j, j.count - 0)
      BY <1>4 DEF CountIs, SameRegisters
    <3>3. AtWork(chan[c], j, 0)
      BY <2>1
    <3> HIDE DEF j
    <3> QED  BY <1>4, <3>1, <3>2, <3>3 DEF AtWork, Stands
  <2>4. 0 < j.count /\ j.first + 0 = j.first
    BY <2>2, JobIs
  <2>5. /\ Selected(c, x) = d /\ Offset(x, x.lba48) = j.first + 0 /\ j.first + 0 \in Sectors
    BY <1>4, <2>2, <2>3, <2>4, PlaceIs
  <2>6. slot.busy => slot.drive[1] # c
    BY <1>5, <1>6, NonePending DEF Control
  <2> QED  BY <2>1, <2>2, <2>3, <2>4, <2>5, <2>6
<1>7. CASE GoBeyond /\ UNCHANGED guest /\ ~Reaches(Selected(c, x), S)
  <2>1. Data'
    BY <1>2, <1>5, <1>7, StillStep DEF GoBeyond
  <2>2. ASSUME Calm
        PROVE  FALSE
    <3> DEFINE n == (SectorCount(x, x.lba48) - 1) \div SectorSize
    <3>1. j \in Job /\ AtWork(x, j, 0) /\ Selected(c, x) = d /\ d \in Disks
          /\ Offset(x, x.lba48) = j.first
      BY <1>6, <2>2
    <3>2. j.count \in Nat /\ j.count >= 1 /\ j.first \in Nat /\ j.first + j.count <= NumSectors
      BY <3>1, JobIs
    <3>3. SectorCount(x, x.lba48) = j.count
      BY <1>4, <3>1, <3>2, CountLeft DEF AtWork, Stands
    <3>4. n \in Nat /\ n < j.count
      <4> DEFINE b == SectorSize
                 m == j.count - 1
      <4>1. m \in Nat /\ b \in Nat /\ b >= 1 /\ m < j.count
        BY <3>2, Constants
      <4> HIDE DEF b, m
      <4>2. m \div b \in Int /\ m \div b >= 0 /\ m = b * (m \div b) + (m % b) /\ m % b \in 0 .. b - 1
        <5>1. m \in Int /\ m >= 0
          BY <4>1
        <5> QED  BY <4>1, <5>1, Division
      <4>3. m \div b <= b * (m \div b)
        BY <4>1, <4>2
      <4>4. m \div b <= m /\ m \div b \in Nat
        <5> DEFINE u == m \div b
                   v == m % b
        <5>1. u \in Int /\ u >= 0 /\ m = b * u + v /\ v >= 0 /\ u <= b * u /\ v \in Int /\ b * u \in Int
          BY <4>1, <4>2, <4>3
        <5> HIDE DEF u, v
        <5>2. u <= m
          BY <4>1, <5>1
        <5> QED  BY <5>1, <5>2 DEF u
      <4>5. n = m \div b
        BY <3>3 DEF m, b
      <4> QED  BY <3>2, <4>1, <4>4, <4>5
    <3> HIDE DEF n
    <3>5. j.first .. j.first + n \subseteq Sectors
      BY <3>2, <3>4, Constants DEF Sectors
    <3>6. S = j.first .. j.first + n
      BY <3>1 DEF S, Prefetched, n
    <3> QED  BY <1>7, <3>1, <3>5, <3>6 DEF Reaches
  <2> QED  BY <2>1, <2>2
<1>8. CASE Cached(Selected(c, x), S) /\ DmaHandler(c, x) /\ UNCHANGED slot
  <2>1. CASE UNCHANGED <<chan, store, guest>> /\ ~Running'
    <3>1. Data'
      BY <1>2, <1>5, <1>8, <2>1, StillStep
    <3>2. ASSUME Calm
          PROVE  FatalStep(c)
      <4>1. /\ j \in Job /\ AtWork(x, j, 0) /\ d \in Disks /\ Selected(c, x) = d
            /\ Offset(x, x.lba48) = j.first
        BY <1>6, <3>2
      <4>2. x.table.drive = d /\ x.table.first = j.first
            /\ x.table.sizes[1] + x.table.sizes[2] = j.count
        BY <1>3, <1>4
      <4> HIDE DEF d, j
      <4>3. \/ fatal' = fatal
            \/ /\ fatal' = "expected sync response"
               /\ \E s \in Sectors : /\ j.first <= s /\ s < j.first + j.count
                                     /\ BlockOf(s) \notin store[d].cached
        BY <1>4, <1>8, <4>1, <4>2, DmaHandlerMoves DEF d
      <4>4. BlockOf(j.first) \in store[d].cached
        BY <1>4, <1>8, <4>1, PrefetchedIs DEF Cached, S
      <4>5. j.op \in DmaOps
        BY <1>6, <3>2 DEF j
      <4>6. guest'[c].job = j
        BY <2>1 DEF j
      <4> QED  BY <4>1, <4>3, <4>4, <4>5, <4>6, CrossesBlock DEF FatalStep
    <3> QED  BY <2>1, <3>1, <3>2 DEF InPlaceStep
  <2>2. CASE /\ UNCHANGED fatal
             /\ \A e \in Channels \ {c} : chan'[e] = chan[e] /\ guest'[e] = guest[e]
             /\ chan'[c].status = {"DRDY", "DSC"} /\ SameTask(x, chan'[c])
             /\ guest'[c].stage = Waiting
             /\ guest'[c].job = j
    <3>1. /\ chan'[c].command \in UsedOps
          /\ Running' /\ Without({"hasty"}) => Heeds(chan'[c], guest'[c])
      BY <1>4, <1>5, <2>2, WaitingIs DEF SameTask, Heeds
    <3>2. CASE ~Calm
      BY <1>2, <1>5, <2>2, <3>1, <3>2, StrayStep
    <3>3. CASE Calm
      <4>1. /\ j \in Job /\ AtWork(x, j, 0) /\ d \in Disks /\ Selected(c, x) = d /\ j.op \in DmaOps
        BY <1>6, <3>3
      <4>2. x.table.drive = d /\ x.table.first = j.first
            /\ x.table.sizes[1] + x.table.sizes[2] = j.count
        BY <1>3, <1>4
      <4>3. fatal' # "expected sync response"
        BY <1>5, <2>2 DEF Running
      <4> DEFINE D == store'[d].data
                 g == guest'[c]
      <4>4. /\ Len(g.data) = j.count
            /\ \A k \in 1 .. j.count : g.data[k] = D[j.first + k - 1]
            /\ \A s \in Sectors : D[s] \in {store[d].data[s], Written(d, s)}
        BY <1>4, <1>8, <4>1, <4>2, <4>3, DmaHandlerMoves
      <4>5. /\ \A e \in Disks \ {d} : store'[e].data = store[e].data
            /\ \A e \in Disks : store'[e].cached = store[e].cached
        BY <1>4, <1>8, <4>1, DmaHandlerStores
      <4>6. Local(c)
        BY <1>2, <1>5, <2>2, <4>5 DEF Local, Of
      <4>7. Moved(g, D)
        BY <2>2, <4>4 DEF Moved
      <4>8. OnCourse(c)'
        <5>1. g.job = j /\ g.stage \in {"poll", "interrupt"}
          BY <2>2, WaitingIs
        <5> HIDE DEF g, D, d, j
        <5>2. Progress(d, chan'[c], g, D)
          BY <4>1, <4>7, <5>1, ProgressDma
        <5> QED  BY <4>1, <5>1, <5>2 DEF OnCourse, Holds, g, D, d
      <4>9. InPlaceStep
        BY <4>4, <4>5 DEF InPlaceStep
      <4> QED  BY <1>5, <1>8, <2>2, <3>1, <4>6, <4>8, <4>9, FreeLocalStep DEF FatalStep, Control
    <3> QED  BY <3>2, <3>3
  <2> QED  BY <1>4, <1>5, <1>8, <2>1, <2>2, DmaHandlerIs DEF Running
<1>9. CASE /\ Reaches(Selected(c, x), S)
           /\ Pending(c, "prefetch", x, S)
           /\ chan' = [chan EXCEPT ![c] = [x EXCEPT !.status = @ \cup {"BSY"}]]
           /\ Then(c, Waiting)
  <2> DEFINE y == [x EXCEPT !.status = @ \cup {"BSY"}]
             g == guest'[c]
  <2>1. SameWork(x, y) /\ "BSY" \in y.status
    <3>1. y.lba = x.lba /\ y.lba48 = x.lba48
      BY <1>4 DEF Channel
    <3>2. /\ SameRegisters(x, y) /\ y.selected = x.selected /\ y.command = x.command
          /\ y.table = x.table /\ y.buffer = x.buffer /\ "BSY" \in y.status
      BY <1>4 DEF Channel, SameRegisters
    <3> HIDE DEF y
    <3> QED  BY <3>1, <3>2 DEF SameWork
  <2> HIDE DEF y
  <2>2. chan'[c] = y /\ \A e \in Channels \ {c} : chan'[e] = chan[e]
    BY <1>1, <1>9 DEF y, DeviceOK
  <2>3. /\ g.stage = Waiting /\ g.job = j /\ g.data = guest[c].data
        /\ \A e \in Channels \ {c} : guest'[e] = guest[e]
    BY <1>1, <1>9, ThenIs
  <2>4. /\ chan'[c].command \in UsedOps
        /\ Running' /\ Without({"hasty"}) => Heeds(chan'[c], g)
    BY <1>4, <1>5, <2>1, <2>2, <2>3, WaitingIs DEF SameWork, Heeds
  <2>5. CASE ~Calm
    BY <1>2, <1>5, <2>2, <2>3, <2>4, <2>5, StrayStep
  <2>6. CASE Calm
    <3>1. /\ j \in Job /\ AtWork(x, j, 0) /\ d \in Disks /\ Selected(c, x) = d /\ j.op \in DmaOps
          /\ Offset(x, x.lba48) = j.first /\ guest[c].data = <<>> /\ j.first \in Sectors
      BY <1>6, <2>6
    <3>2. S \in SUBSET Sectors
      BY <1>9 DEF Reaches
    <3>3. /\ slot'.busy /\ slot'.op = "prefetch" /\ slot'.drive = d /\ slot'.first = j.first
          /\ fatal' = fatal
          /\ \A e \in Disks : store'[e].data = store[e].data /\ store[e].cached \subseteq store'[e].cached
          /\ {BlockOf(s) : s \in S} \subseteq store'[d].cached
      BY <1>1, <1>4, <1>9, <3>1, <3>2, PendingTypes
    <3>4. BlockOf(j.first) \in store'[d].cached
      BY <1>4, <3>1, <3>3, PrefetchedIs DEF S
    <3>5. Local(c)
      BY <1>2, <1>5, <2>2, <2>3, <3>3 DEF Local
    <3>6. AtWork(y, j, 0) /\ Offset(y, y.lba48) = j.first /\ y.table = table
      BY <1>4, <2>1, <3>1, SameWorkStands DEF SameWork
    <3>7. Fits(slot', chan'[c], g, store'[slot'.drive].cached)
      BY <1>3, <2>2, <2>3, <3>1, <3>3, <3>4, <3>6 DEF Fits, Of
    <3>8. OnCourse(c)'
      BY <2>1, <2>2, <2>3, <3>1, WaitingIs, ProgressDma DEF OnCourse
    <3>9. slot'.drive[1] = c /\ g.stage # "idle"
      BY <2>3, <3>3, WaitingIs DEF Of
    <3> QED  BY <2>4, <3>3, <3>5, <3>7, <3>8, <3>9, LocalStep DEF InPlaceStep, FatalStep
  <2>7. Calm \/ ~Calm
    OBVIOUS
  <2> QED  BY <2>5, <2>6, <2>7
<1> QED  BY <1>2, <1>7, <1>8, <1>9

-----------------------------------------------------------------------------
(* The other steps.                                                         *)

\* A step of a guest whose channel still does the same.
LEMMA SameWorkStep ==
    ASSUME TypeOK, TypeOK', Control, Data, NEW c \in Channels, Running,
           UNCHANGED <<store, slot, use>>,
           \A e \in Channels \ {c} : chan'[e] = chan[e] /\ guest'[e] = guest[e],
           SameWork(chan[c], chan'[c]),
           guest'[c].job = guest[c].job, guest'[c].data = guest[c].data,
           guest'[c].stage = "idle" <=> guest[c].stage = "idle",
           Running' /\ Without({"hasty"}) => Heeds(chan'[c], guest'[c]),
           Calm => OnCourse(c)'
    PROVE  Data'
<1> DEFINE x == chan[c]
           y == chan'[c]
<1>1. Local(c)
  BY DEF Local
<1>2. y.command \in UsedOps
  BY DEF SameWork, Data
<1>3. ASSUME Calm, slot.busy, slot.drive[1] = c
      PROVE  /\ Without({"machine"}) => guest'[c].stage # "idle"
             /\ Fits(slot, y, guest'[c], store[slot.drive].cached)
  <2>1. /\ Without({"machine"}) => guest[c].stage # "idle"
        /\ Fits(slot, x, guest[c], store[slot.drive].cached)
    BY <1>3 DEF Data, PendingFits
  <2> QED  BY <2>1, SameFits
<1> HIDE DEF x, y
<1> QED  BY <1>1, <1>2, <1>3, LocalStep DEF y

\* A status that is read: what the guest sees is what has become of its job.
LEMMA ReadStatusData ==
    ASSUME TypeOK, TypeOK', Control, Data, NEW c \in Channels, ReadStatus(c)
    PROVE  Data'
<1> DEFINE x == chan[c]
           j == guest[c].job
           answers == TypeOf(Selected(c, x)) # "none" \/ x.srst
           status == IF answers THEN x.status ELSE {}
           due == "DRQ" \in status /\ j.op \in PioReads \cup PioWrites \cup {"identify"}
           y == [x EXCEPT !.irq = @ /\ ~answers]
           g == [guest[c] EXCEPT
                    !.stage = IF "BSY" \in status THEN @ ELSE IF due THEN "data" ELSE "over",
                    !.error = "DRDY" \notin status \/ "ERR" \in status]
           d == Of(c, j)
           D == Holds(d)
<1>1. /\ Running /\ guest[c].stage \in {"poll", "interrupt"}
      /\ chan' = [chan EXCEPT ![c] = y] /\ guest' = [guest EXCEPT ![c] = g]
      /\ UNCHANGED <<store, slot, use>>
  BY DEF ReadStatus, At
<1>2. GuestOK /\ DeviceOK /\ x \in Channel
  BY TypeParts DEF DeviceOK
<1> HIDE DEF answers
<1>3. SameWork(x, y) /\ y.status = x.status
  <2>1. y.lba = x.lba /\ y.lba48 = x.lba48
    BY <1>2 DEF Channel
  <2>2. /\ SameRegisters(x, y) /\ y.selected = x.selected /\ y.command = x.command
        /\ y.table = x.table /\ y.buffer = x.buffer /\ y.status = x.status
    BY <1>2 DEF Channel, SameRegisters
  <2> HIDE DEF y
  <2> QED  BY <2>1, <2>2 DEF SameWork
<1> HIDE DEF y, status, due
<1>4. /\ g.job = j /\ g.data = guest[c].data
      /\ g.stage = IF "BSY" \in status THEN guest[c].stage ELSE IF due THEN "data" ELSE "over"
      /\ g.error <=> ("DRDY" \notin status \/ "ERR" \in status)
  <2>1. g.job = j /\ g.data = guest[c].data
    BY <1>2 DEF GuestOK
  <2>2. g.stage = IF "BSY" \in status THEN guest[c].stage ELSE IF due THEN "data" ELSE "over"
    BY <1>2 DEF GuestOK
  <2>3. g.error <=> ("DRDY" \notin status \/ "ERR" \in status)
    BY <1>2 DEF GuestOK
  <2> QED  BY <2>1, <2>2, <2>3, Zenon
<1> HIDE DEF g
<1>5. /\ chan'[c] = y /\ guest'[c] = g
      /\ \A e \in Channels \ {c} : chan'[e] = chan[e] /\ guest'[e] = guest[e]
  BY <1>1, <1>2 DEF DeviceOK, GuestOK
<1>6. g.stage # "idle" /\ guest[c].stage # "idle"
  BY <1>1, <1>4
<1>7. Running' /\ Without({"hasty"}) => Heeds(y, g)
  <2>1. Without({"hasty"}) => x.command = j.op
    BY <1>1 DEF Data, Heeds
  <2> QED  BY <1>1, <1>3, <1>4, <2>1 DEF Heeds, SameWork
<1>8. ASSUME Calm
      PROVE  Progress(d, y, g, D)
  <2>1. /\ j.op \in PioReads  => x.status = Failed \/ (d \in Disks /\ Reading(x, guest[c], D))
        /\ j.op \in PioWrites => x.status = Failed \/ (d \in Disks /\ Writing(d, x, guest[c], D))
        /\ j.op \in DmaOps    => d \in Disks /\ ("BSY" \notin x.status => Moved(guest[c], D))
    BY <1>1, <1>8 DEF Data, OnCourse, Progress
  <2> HIDE DEF d, D, j
  <2>2. /\ Reading(x, guest[c], D) => Reading(x, g, D)
        /\ Writing(d, x, guest[c], D) => Writing(d, x, g, D)
        /\ Moved(guest[c], D) => Moved(g, D)
    BY <1>4 DEF Reading, Writing, Stored, Moved, j
  <2>3. Progress(d, x, g, D)
    <3>1. CASE g.stage = "over" /\ ~g.error
      <4>1. status = x.status /\ "DRDY" \in x.status /\ "ERR" \notin x.status
        BY <1>4, <3>1 DEF status
      <4>2. "BSY" \notin x.status /\ ~due
        BY <1>1, <1>4, <3>1, <4>1
      <4>3. x.status # Failed
        BY <4>1 DEF Failed
      <4>4. CASE j.op \in PioReads \cup PioWrites
        <5>1. "DRQ" \notin x.status
          BY <4>1, <4>2, <4>4 DEF due, j
        <5>2. j.op \in PioReads => d \in Disks /\ Moved(g, D)
          <6>1. j.op \in PioReads => d \in Disks /\ Reading(x, g, D)
            BY <2>1, <2>2, <4>3
          <6> QED  BY <1>4, <4>2, <5>1, <6>1 DEF Reading, Moved
        <5>3. j.op \in PioWrites => d \in Disks /\ Moved(g, D)
          <6>1. j.op \in PioWrites => d \in Disks /\ Writing(d, x, g, D)
            BY <2>1, <2>2, <4>3
          <6> QED  BY <1>4, <4>2, <5>1, <6>1 DEF Writing, Stored, Moved
        <5> QED  BY <1>4, <3>1, <4>4, <5>2, <5>3, ProgressOver
      <4>5. CASE j.op \notin PioReads \cup PioWrites
        BY <1>4, <2>1, <2>2, <3>1, <4>2, <4>5, ProgressOver
      <4> QED  BY <4>4, <4>5
    <3>2. CASE g.stage = "over" /\ g.error
      BY <3>2, ProgressGone
    <3>3. CASE g.stage # "over"
      <4>1. g.stage \in {"poll", "interrupt", "data"}
        BY <1>1, <1>4, <3>3
      <4>2. g.stage = "data" => "DRQ" \in x.status
        BY <1>1, <1>4 DEF due, status
      <4>3. CASE j.op \in PioReads
        BY <1>4, <2>1, <2>2, <4>1, <4>2, <4>3, ProgressReading
      <4>4. CASE j.op \in PioWrites
        BY <1>4, <2>1, <2>2, <4>1, <4>2, <4>4, ProgressWriting
      <4>5. CASE j.op \in DmaOps
        BY <1>4, <2>1, <2>2, <4>1, <4>2, <4>5, ProgressDma
      <4>6. CASE j.op \notin PioReads \cup PioWrites \cup DmaOps
        BY <1>4, <4>1, <4>2, <4>6, ProgressElse
      <4> QED  BY <4>3, <4>4, <4>5, <4>6
    <3> QED  BY <3>1, <3>2, <3>3
  <2> QED  BY <1>3, <2>3, SameProgress
<1>9. Calm => OnCourse(c)'
  <2>1. \A e : Holds(e)' = Holds(e)
    BY <1>1 DEF Holds
  <2>2. Of(c, guest'[c].job) = d
    BY <1>4, <1>5
  <2> QED  BY <1>5, <1>8, <2>1, <2>2 DEF OnCourse, Holds
<1> QED  BY <1>1, <1>3, <1>4, <1>5, <1>6, <1>7, <1>9, SameWorkStep

\* An access to the data port that is not the last of a sector, and nIEN.
LEMMA QuietData ==
    ASSUME TypeOK, TypeOK', Control, Data, NEW c \in Channels, DataAccess(c) \/ ToggleMask(c)
    PROVE  Data'
<1> DEFINE x == chan[c]
           y == chan'[c]
<1>1. /\ Running /\ UNCHANGED <<store, slot, guest, fatal, use>>
      /\ \/ chan' = [chan EXCEPT ![c] = [x EXCEPT !.position = @ + 1]]
         \/ chan' = [chan EXCEPT ![c] = [x EXCEPT !.nien = ~@]]
  BY DEF DataAccess, ToggleMask, At
<1>2. x \in Channel /\ chan \in [Channels -> Channel]
  BY DEF TypeOK
<1>3. SameWork(x, y) /\ y.status = x.status /\ \A e \in Channels \ {c} : chan'[e] = chan[e]
  <2>1. ASSUME NEW z, z \in {[x EXCEPT !.position = @ + 1], [x EXCEPT !.nien = ~@]}
        PROVE  SameWork(x, z) /\ z.status = x.status
    <3>1. z.lba = x.lba /\ z.lba48 = x.lba48
      BY <1>2, <2>1 DEF Channel
    <3>2. /\ SameRegisters(x, z) /\ z.selected = x.selected /\ z.command = x.command
          /\ z.table = x.table /\ z.buffer = x.buffer /\ z.status = x.status
      BY <1>2, <2>1 DEF Channel, SameRegisters
    <3> QED  BY <3>1, <3>2 DEF SameWork
  <2>2. /\ y \in {[x EXCEPT !.position = @ + 1], [x EXCEPT !.nien = ~@]}
        /\ \A e \in Channels \ {c} : chan'[e] = chan[e]
    BY <1>1, <1>2
  <2> QED  BY <2>1, <2>2
<1> HIDE DEF x, y
<1>4. Without({"hasty"}) => Heeds(y, guest'[c])
  <2>1. Without({"hasty"}) => Heeds(x, guest[c])
    BY <1>1 DEF Data, x
  <2> QED  BY <1>1, <1>3, <2>1 DEF Heeds, SameWork
<1>5. Calm => OnCourse(c)'
  <2>1. ASSUME Calm
        PROVE  OnCourse(c)
    BY <2>1 DEF Data
  <2>2. ASSUME OnCourse(c)
        PROVE  Progress(Of(c, guest[c].job), y, guest[c], Holds(Of(c, guest[c].job)))
    BY <1>3, <2>2, SameProgress DEF OnCourse, x
  <2> QED  BY <1>1, <2>1, <2>2 DEF OnCourse, Holds, y
<1> QED  BY <1>1, <1>3, <1>4, <1>5, SameWorkStep DEF x, y

\* A command that is over leaves no transfer.
LEMMA FinishData ==
    ASSUME TypeOK, TypeOK', Control, Data, NEW c \in Channels, Finish(c)
    PROVE  Data'
<1>1. /\ Running /\ guest[c].stage = "over" /\ guest' = [guest EXCEPT ![c] = Free]
      /\ UNCHANGED <<chan, store, slot, use>>
  BY DEF Finish, At
<1>2. guest'[c] = Free /\ \A e \in Channels \ {c} : guest'[e] = guest[e]
  BY <1>1 DEF TypeOK
<1>3. "BSY" \notin chan[c].status
  BY <1>1 DEF Control, StageFits
<1>4. Free.stage = "idle"
  BY DEF Free
<1>5. Heeds(chan'[c], guest'[c]) /\ OnCourse(c)'
  BY <1>2, <1>4, ProgressGone DEF Heeds, OnCourse
<1>6. Local(c) /\ chan'[c].command \in UsedOps
  BY <1>1, <1>2 DEF Local, Data
<1> QED  BY <1>1, <1>3, <1>5, <1>6, FreeLocalStep DEF Control

\* A software reset: until it ends, the transfer that is pending is still the guest's.
LEMMA SetResetData ==
    ASSUME TypeOK, TypeOK', Control, Data, NEW c \in Channels, SetReset(c)
    PROVE  Data'
<1> DEFINE x == chan[c]
           y == [x EXCEPT !.srst = TRUE, !.status = @ \cup {"BSY"}]
<1>1. /\ Running /\ guest[c].stage # "idle" /\ Then(c, "reset")
      /\ chan' = [chan EXCEPT ![c] = y] /\ UNCHANGED <<store, slot, use>>
  BY DEF SetReset
<1>2. x \in Channel /\ DeviceOK /\ GuestOK
  BY TypeParts DEF DeviceOK
<1>3. SameWork(x, y)
  <2>1. y.lba = x.lba /\ y.lba48 = x.lba48
    BY <1>2 DEF Channel
  <2>2. /\ SameRegisters(x, y) /\ y.selected = x.selected /\ y.command = x.command
        /\ y.table = x.table /\ y.buffer = x.buffer
    BY <1>2 DEF Channel, SameRegisters
  <2> HIDE DEF y
  <2> QED  BY <2>1, <2>2 DEF SameWork
<1> HIDE DEF y
<1>4. chan'[c] = y /\ \A e \in Channels \ {c} : chan'[e] = chan[e]
  BY <1>1, <1>2 DEF DeviceOK
<1>5. /\ guest'[c].stage = "reset" /\ guest'[c].job = guest[c].job /\ guest'[c].data = guest[c].data
      /\ \A e \in Channels \ {c} : guest'[e] = guest[e]
  BY <1>1, <1>2, ThenIs
<1>6. Heeds(chan'[c], guest'[c]) /\ OnCourse(c)'
  BY <1>5, ProgressGone DEF Heeds, OnCourse
<1> HIDE DEF x
<1> QED  BY <1>1, <1>3, <1>4, <1>5, <1>6, SameWorkStep DEF x

\* When the reset ends, no transfer is pending.
LEMMA ClearResetData ==
    ASSUME TypeOK, TypeOK', Control, Data, NEW c \in Channels, ClearReset(c)
    PROVE  Data'
<1> DEFINE x == chan[c]
           z == Signed(x, TypeOf(Selected(c, x)))
           y == [z EXCEPT !.srst = FALSE, !.status = {"DRDY"}, !.selected = 0]
<1>1. /\ Running /\ guest' = [guest EXCEPT ![c] = Free]
      /\ chan' = [chan EXCEPT ![c] = y] /\ slot' = [slot EXCEPT !.busy = FALSE]
      /\ UNCHANGED <<store, use>>
  BY DEF ClearReset, At
<1>2. x \in Channel /\ DeviceOK /\ GuestOK
  BY TypeParts DEF DeviceOK
<1>3. y.command = x.command
  <2>1. z \in Channel /\ z.command = x.command
    BY <1>2, SignedIs DEF SameTask
  <2> HIDE DEF z
  <2> QED  BY <2>1 DEF Channel
<1> HIDE DEF y
<1>4. chan'[c] = y /\ \A e \in Channels \ {c} : chan'[e] = chan[e]
  BY <1>1, <1>2 DEF DeviceOK
<1>5. guest'[c] = Free /\ \A e \in Channels \ {c} : guest'[e] = guest[e]
  BY <1>1, <1>2 DEF GuestOK
<1>6. Heeds(chan'[c], guest'[c]) /\ OnCourse(c)'
  BY <1>5, ProgressGone DEF Heeds, OnCourse, Free
<1>7. ~slot'.busy
  BY <1>1, <1>2 DEF DeviceOK
<1>8. Local(c) /\ chan'[c].command \in UsedOps
  BY <1>1, <1>3, <1>4, <1>5 DEF Local, Data
<1> QED  BY <1>6, <1>7, <1>8, LocalStep

\* A reset of the machine: the transfer that is pending is nobody's.
LEMMA ResetData ==
    ASSUME TypeOK, TypeOK', Control, Data, Reset
    PROVE  Data'
<1>1. /\ "machine" \in use.habits /\ UNCHANGED <<store, slot, fatal, use>>
      /\ chan' = [c \in Channels |-> [chan[c] EXCEPT !.selected = 0]]
      /\ guest' = [c \in Channels |-> Free]
  BY DEF Reset
<1>2. ASSUME NEW c \in Channels
      PROVE  /\ guest'[c].stage = "idle"
             /\ chan'[c].command = chan[c].command /\ chan'[c].buffer = chan[c].buffer
             /\ Offset(chan'[c], chan'[c].lba48) = Offset(chan[c], chan[c].lba48)
  <2> DEFINE x == chan[c]
             y == [x EXCEPT !.selected = 0]
  <2>1. x \in Channel /\ chan'[c] = y /\ guest'[c] = Free
    BY <1>1 DEF TypeOK
  <2>2. y.lba = x.lba /\ y.lba48 = x.lba48
    BY <2>1 DEF Channel
  <2>3. SameRegisters(x, y) /\ y.command = x.command /\ y.buffer = x.buffer
    BY <2>1 DEF Channel, SameRegisters
  <2> HIDE DEF y
  <2>4. Offset(y, y.lba48) = Offset(x, x.lba48)
    BY <2>2, <2>3 DEF Offset, SameRegisters
  <2> QED  BY <2>1, <2>3, <2>4 DEF Free
<1>3. /\ Calm' = Calm /\ Without({"hasty"})' = Without({"hasty"}) /\ UsedOps' = UsedOps
      /\ ~Without({"machine"})'
  BY <1>1, HabitsStay DEF Calm, UsedOps, Without
<1>4. \A c \in Channels : Heeds(chan'[c], guest'[c]) /\ OnCourse(c)'
  BY <1>2, ProgressGone DEF Heeds, OnCourse
<1>5. ASSUME Calm
      PROVE  PendingFits'
  <2>1. slot.drive[1] \in Channels
    BY DriveOfChannel
  <2> QED  BY <1>1, <1>2, <1>3, <1>5, <2>1 DEF Data, PendingFits, Fits
<1>6. \A c \in Channels : chan'[c].command \in UsedOps
  BY <1>2 DEF Data
<1> QED  BY <1>3, <1>4, <1>5, <1>6 DEF Data

\* At first no command is under way.
LEMMA InitData ==
    ASSUME Init
    PROVE  Data
<1>1. \A c \in Channels : chan[c].command = "none" /\ guest[c].stage = "idle"
  BY DEF Init, Free
<1>2. \A c \in Channels : Heeds(chan[c], guest[c]) /\ OnCourse(c)
  BY <1>1, ProgressGone DEF Heeds, OnCourse
<1>3. ~slot.busy
  BY DEF Init
<1> QED  BY <1>1, <1>2, <1>3 DEF Data, PendingFits, UsedOps

\* The last access to the data of a sector that was read.
LEMMA DataReadData ==
    ASSUME TypeOK, TypeOK', Control, Data, NEW c \in Channels, DataRead(c)
    PROVE  Data' /\ (Calm => InPlaceStep /\ FatalStep(c))
<1> DEFINE x == Emptied(chan[c])
           j == guest[c].job
           v == chan[c].buffer
           d == Of(c, j)
           D == store[d].data
           n == Len(guest[c].data)
           g == guest'[c]
           z == [Raised(x) EXCEPT !.status = {"DRDY", "DSC"}]
           stage == IF x.command = "identify" THEN "poll" ELSE Waiting
           h == [guest[c] EXCEPT !.data = Append(@, x.buffer), !.stage = stage]
<1>1. DeviceOK /\ GuestOK /\ chan[c] \in Channel
  BY TypeParts DEF DeviceOK
<1>2. /\ At(c, "data") /\ j.op \in PioReads \cup {"identify"} /\ UNCHANGED use
      /\ guest' = [guest EXCEPT ![c] = h]
      /\ \/ /\ x.command = "identify"
            /\ chan' = [chan EXCEPT ![c] = x]
            /\ UNCHANGED <<store, slot, fatal>>
         \/ x.command \in PioReads /\ SectorsLeft(x) /\ ReadSectors(c, Raised(x))
         \/ /\ x.command \in PioReads /\ ~SectorsLeft(x)
            /\ chan' = [chan EXCEPT ![c] = z]
            /\ UNCHANGED <<store, slot, fatal>>
         \/ /\ x.command \notin PioReads \cup {"identify"}
            /\ fatal' = "unknown command"
            /\ UNCHANGED <<chan, store, slot>>
  BY ZenonT(40), DataReadIs
<1>3. /\ x \in Channel /\ SameTask(chan[c], x) /\ SameRegisters(chan[c], x)
      /\ x.status = chan[c].status \ {"DRQ"} /\ x.buffer = v
  BY <1>1, EmptiedIs
<1> HIDE DEF x
<1>4. /\ Raised(x) \in Channel /\ SameTask(x, Raised(x)) /\ SameRegisters(x, Raised(x))
      /\ Raised(x).status = x.status /\ Raised(x).buffer = x.buffer
  BY <1>3, RaisedIs
<1>5. /\ Running /\ guest[c].stage = "data" /\ "BSY" \notin chan[c].status
      /\ chan[c].command \in UsedOps /\ x.command = chan[c].command
      /\ (Without({"hasty"}) => x.command = j.op)
  BY <1>2, <1>3 DEF At, Control, StageFits, Data, Heeds, SameTask
<1>6. /\ g.stage \in {"poll", "interrupt"} /\ g.job = j /\ g.data = Append(guest[c].data, v)
      /\ \A e \in Channels \ {c} : guest'[e] = guest[e]
      /\ guest[c].data \in Seq(Values)
  <2> HIDE DEF stage
  <2>1. h.stage = stage /\ h.job = j /\ h.data = Append(guest[c].data, v)
    BY <1>1, <1>3 DEF GuestOK
  <2>2. stage \in {"poll", "interrupt"}
    BY WaitingIs DEF stage
  <2> HIDE DEF h
  <2> QED  BY <1>1, <1>2, <2>1, <2>2 DEF GuestOK
<1> HIDE DEF h, stage
<1>7. ASSUME NEW y, chan' = [chan EXCEPT ![c] = y]
      PROVE  chan'[c] = y /\ \A e \in Channels \ {c} : chan'[e] = chan[e]
  BY <1>1, <1>7 DEF DeviceOK
<1>8. n \in Nat /\ Len(g.data) = n + 1 /\ g.data[n + 1] = v
      /\ \A k \in 1 .. n : g.data[k] = guest[c].data[k]
  BY <1>6, AppendProperties
<1>9. ASSUME Calm, j.op \in PioReads
      PROVE  /\ j \in Job /\ d \in Disks /\ n < j.count /\ AtWork(x, j, n + 1)
             /\ \A k \in 1 .. n + 1 : g.data[k] = D[j.first + k - 1]
             /\ (SectorsLeft(x) <=> n + 1 < j.count)
  <2>1. j \in Job
    BY <1>9, JobIsUsed DEF Ops
  <2>2. "DRQ" \in chan[c].status /\ d \in Disks /\ Reading(chan[c], guest[c], Holds(d))
    <3>1. OnCourse(c)
      BY <1>9 DEF Data
    <3> QED  BY <1>5, <1>9, <3>1 DEF OnCourse, Progress, Failed
  <2>3. Holds(d) = D
    BY <2>2 DEF Holds
  <2> HIDE DEF D
  <2>4. /\ n < j.count /\ AtWork(chan[c], j, n + 1) /\ v = D[j.first + n]
        /\ \A k \in 1 .. n : guest[c].data[k] = D[j.first + k - 1]
    BY <1>5, <2>2, <2>3 DEF Reading
  <2>5. AtWork(x, j, n + 1)
    BY <1>3, <2>4, StandsStill
  <2>6. \A k \in 1 .. n + 1 : g.data[k] = D[j.first + k - 1]
    <3> SUFFICES ASSUME NEW k \in 1 .. n + 1
                 PROVE  g.data[k] = D[j.first + k - 1]
      OBVIOUS
    <3>1. CASE k \in 1 .. n
      BY <1>8, <2>4, <3>1
    <3>2. CASE k = n + 1
      <4>1. j.first + (n + 1) - 1 = j.first + n
        BY <1>8, <2>1, JobIs
      <4> QED  BY <1>8, <2>4, <3>2, <4>1
    <3> HIDE DEF n
    <3> QED  BY <1>8, <3>1, <3>2
  <2>7. SectorsLeft(x) <=> n + 1 < j.count
    <3>1. n + 1 \in Nat /\ n + 1 <= j.count /\ n + 1 >= 1
      BY <1>8, <2>1, <2>4, JobIs
    <3>2. x.lba48 = Wide(j) /\ CountIs(x, j, j.count - (n + 1))
      BY <2>5 DEF AtWork, Stands
    <3> QED  BY <1>3, <2>1, <3>1, <3>2, CountLeft
  <2> QED  BY <2>1, <2>2, <2>4, <2>5, <2>6, <2>7
<1> HIDE DEF n, D
<1>10. CASE /\ x.command = "identify"
            /\ chan' = [chan EXCEPT ![c] = x] /\ UNCHANGED <<store, slot, fatal>>
  <2>1. Without({"hasty"}) => Heeds(chan'[c], g)
    BY <1>5, <1>6, <1>7, <1>10 DEF Heeds
  <2>2. Calm => OnCourse(c)'
    <3>1. ASSUME Calm
          PROVE  j.op \notin PioReads \cup PioWrites \cup DmaOps
      BY <1>5, <1>10, <3>1, Kinds DEF Calm
    <3> QED  BY <1>6, <3>1, ProgressElse DEF OnCourse
  <2>3. Local(c)
    BY <1>2, <1>5, <1>6, <1>7, <1>10 DEF Local
  <2> QED  BY <1>5, <1>7, <1>10, <2>1, <2>2, <2>3, FreeLocalStep
           DEF InPlaceStep, FatalStep, Control
<1>11. CASE x.command \in PioReads /\ SectorsLeft(x) /\ ReadSectors(c, Raised(x))
  <2>1. CASE ~Calm
    <3>1. /\ \A e \in Channels \ {c} : chan'[e] = chan[e]
          /\ chan'[c].command = x.command \/ (UNCHANGED chan /\ ~Running')
      BY <1>4, <1>11, ReadSectorsCommand DEF SameTask
    <3>2. chan'[c].command \in UsedOps /\ (Running' /\ Without({"hasty"}) => Heeds(chan'[c], g))
      BY <1>5, <1>6, <3>1 DEF Heeds
    <3> QED  BY <1>2, <1>5, <1>6, <2>1, <3>1, <3>2, StrayStep
  <2>2. CASE Calm
    <3>1. j.op \in PioReads
      BY <1>5, <1>11, <2>2 DEF Calm
    <3>2. /\ j \in Job /\ d \in Disks /\ AtWork(x, j, n + 1) /\ n + 1 < j.count
          /\ \A k \in 1 .. n + 1 : g.data[k] = D[j.first + k - 1]
      BY <1>9, <1>11, <2>2, <3>1
    <3> DEFINE m == n + 1
    <3>3. m \in Nat /\ m < j.count /\ Len(g.data) = m
      BY <1>8, <3>2
    <3>4. slot.busy => slot.drive[1] # c
      BY <1>5, <2>2, NonePending DEF Control
    <3>5. AtWork(Raised(x), j, m)
      BY <1>4, <3>2, StandsStill
    <3>6. \A k \in 1 .. m : g.data[k] = store[Of(c, g.job)].data[g.job.first + k - 1]
      BY <1>6, <3>2 DEF D
    <3>7. Raised(x) \in Channel /\ ReadSectors(c, Raised(x))
      BY <1>4, <1>11
    <3> HIDE DEF m, g
    <3>8. /\ guest'[c] = g /\ g.job = guest[c].job /\ g.stage \in {"poll", "interrupt"}
          /\ \A e \in Channels \ {c} : guest'[e] = guest[e]
      BY <1>6 DEF g
    <3>9. Data' /\ fatal' = fatal /\ \A e \in Disks : store'[e].data = store[e].data
      <4>1. /\ j \in Job /\ j.op \in PioReads /\ d \in Disks /\ UNCHANGED use /\ Running
        BY <1>2, <1>5, <3>1, <3>2
      <4> QED  BY <2>2, <3>3, <3>4, <3>5, <3>6, <3>7, <3>8, <4>1, ReadingStep
    <3> QED  BY <3>9 DEF InPlaceStep, FatalStep
  <2> QED  BY <2>1, <2>2
<1>12. CASE /\ x.command \in PioReads /\ ~SectorsLeft(x)
            /\ chan' = [chan EXCEPT ![c] = z] /\ UNCHANGED <<store, slot, fatal>>
  <2>1. z.command = x.command /\ z.status = {"DRDY", "DSC"}
    <3> DEFINE y == Raised(x)
    <3>1. y \in Channel /\ y.command = x.command
      BY <1>4 DEF SameTask
    <3> HIDE DEF y
    <3> QED  BY <3>1 DEF Channel, y
  <2> HIDE DEF z
  <2>2. Without({"hasty"}) => Heeds(chan'[c], g)
    BY <1>5, <1>6, <1>7, <1>12, <2>1 DEF Heeds
  <2>3. ASSUME Calm
        PROVE  OnCourse(c)'
    <3>1. j.op \in PioReads
      BY <1>5, <1>12, <2>3 DEF Calm
    <3>2. /\ j \in Job /\ d \in Disks /\ n < j.count /\ ~(n + 1 < j.count)
          /\ \A k \in 1 .. n + 1 : g.data[k] = D[j.first + k - 1]
      BY <1>9, <1>12, <2>3, <3>1
    <3>3. n + 1 = j.count /\ j.count \in Nat
      BY <1>8, <3>2, JobIs
    <3>4. Reading(z, g, D)
      <4>1. g.job = j /\ Len(g.data) = n + 1
        BY <1>6, <1>8
      <4>2. "BSY" \notin z.status /\ "DRQ" \notin z.status
        BY <2>1
      <4>3. n + 1 <= j.count
        BY <3>3
      <4> HIDE DEF g, j, n, D
      <4> QED  BY <3>2, <3>3, <4>1, <4>2, <4>3 DEF Reading
    <3>5. /\ \A e : Holds(e)' = Holds(e)
          /\ Holds(d) = D
      BY <1>12, <3>2 DEF Holds, D
    <3>6. g.job = j /\ g.stage \in {"poll", "interrupt"}
      BY <1>6
    <3> HIDE DEF d, j
    <3>7. Progress(d, z, g, D)
      BY <3>1, <3>2, <3>4, <3>6, ProgressReading
    <3>8. chan'[c] = z /\ Of(c, guest'[c].job) = d
      BY <1>7, <1>12, <3>6 DEF d
    <3> QED  BY <3>5, <3>7, <3>8 DEF OnCourse, Holds
  <2>4. Local(c)
    BY <1>2, <1>5, <1>6, <1>7, <1>12 DEF Local
  <2> QED  BY <1>5, <1>7, <1>12, <2>1, <2>2, <2>3, <2>4, FreeLocalStep
           DEF InPlaceStep, FatalStep, Control
<1>13. CASE /\ x.command \notin PioReads \cup {"identify"}
            /\ fatal' = "unknown command" /\ UNCHANGED <<chan, store, slot>>
  <2>1. ~Without({"hasty"}) /\ ~Calm
    BY <1>2, <1>5, <1>13 DEF Calm
  <2> QED  BY <1>2, <1>5, <1>6, <1>13, <2>1, StrayStep
<1> QED  BY <1>2, <1>10, <1>11, <1>12, <1>13


\* A sector that is stored where it belongs is one more that is.
LEMMA StoredMore ==
    ASSUME NEW g, g.job \in Job, NEW D \in [Sectors -> Values], NEW k \in Nat, k < g.job.count,
           Stored(g, D, k)
    PROVE  Stored(g, [D EXCEPT ![g.job.first + k] = g.data[k + 1]], k + 1)
<1> DEFINE p == g.job.first
           E == [D EXCEPT ![p + k] = g.data[k + 1]]
<1>1. /\ p \in Nat /\ p + k \in Sectors
      /\ \A i \in 1 .. k + 1 : p + i - 1 \in Sectors
  <2> DEFINE m == g.job.count
  <2>1. p \in Nat /\ m \in Nat /\ p + m <= NumSectors
    BY JobIs
  <2>2. k < m
    OBVIOUS
  <2> HIDE DEF p, m
  <2> QED  BY <2>1, <2>2, Constants DEF Sectors
<1> HIDE DEF p
<1>2. /\ \A s \in Sectors : s # p + k => E[s] = D[s]
      /\ E[p + k] = g.data[k + 1]
  BY <1>1
<1> HIDE DEF E
<1>3. ASSUME NEW i \in 1 .. k + 1
      PROVE  E[p + i - 1] = g.data[i]
  <2>1. CASE i = k + 1
    <3>1. p + i - 1 = p + k
      BY <1>1, <2>1
    <3> QED  BY <1>2, <2>1, <3>1
  <2>2. CASE i # k + 1
    <3>1. i \in 1 .. k /\ p + i - 1 # p + k /\ p + i - 1 \in Sectors
      BY <1>1, <2>2
    <3>2. D[p + i - 1] = g.data[i]
      BY <3>1 DEF Stored, p
    <3> QED  BY <1>2, <3>1, <3>2
  <2> QED  BY <2>1, <2>2
<1> QED  BY <1>3 DEF Stored, p, E

\* How a job that writes has got on when its next sector is stored, or waits for its block.
LEMMA WritingOn ==
    ASSUME NEW d, NEW y, NEW g, g.job \in Job, NEW D, NEW k \in Nat, k < g.job.count,
           Len(g.data) = k + 1,
           \A i \in 1 .. k + 1 : g.data[i] = Written(d, g.job.first + i - 1),
           \/ /\ y.status = IF k + 1 < g.job.count THEN {"DRDY", "DSC", "DRQ"} ELSE {"DRDY", "DSC"}
              /\ AtWork(y, g.job, k + 1) /\ Stored(g, D, k + 1)
           \/ y.status = {"DRDY", "DSC", "BSY"} /\ AtWork(y, g.job, k) /\ Stored(g, D, k)
    PROVE  Writing(d, y, g, D)
<1> DEFINE j == g.job
           n == k + 1
<1>1. n \in Nat /\ n >= 1 /\ n - 1 = k /\ n <= j.count /\ Len(g.data) = n /\ j.count \in Nat
  BY JobIs
<1>2. \A i \in 1 .. n : g.data[i] = Written(d, j.first + i - 1)
  OBVIOUS
<1>3. CASE /\ y.status = IF n < j.count THEN {"DRDY", "DSC", "DRQ"} ELSE {"DRDY", "DSC"}
           /\ AtWork(y, j, n) /\ Stored(g, D, n)
  <2>1. "BSY" \notin y.status /\ ("DRQ" \in y.status <=> n < j.count)
    BY <1>3
  <2> HIDE DEF n
  <2> QED  BY <1>1, <1>2, <1>3, <2>1 DEF Writing
<1>4. CASE y.status = {"DRDY", "DSC", "BSY"} /\ AtWork(y, j, k) /\ Stored(g, D, k)
  <2>1. "BSY" \in y.status
    BY <1>4
  <2> HIDE DEF n
  <2> QED  BY <1>1, <1>2, <1>4, <2>1 DEF Writing
<1> QED  BY <1>3, <1>4

\* The last access to the data of a sector that is written.
LEMMA DataWriteData ==
    ASSUME TypeOK, TypeOK', Control, Data, NEW c \in Channels, DataWrite(c)
    PROVE  Data' /\ (Calm => InPlaceStep /\ FatalStep(c))
<1> DEFINE j == guest[c].job
           d == Of(c, j)
           n == Len(guest[c].data)
           v == Written(d, j.first + n)
           x == Filled(chan[c], v)
           r == Raised(x)
           y == chan'[c]
           g == guest'[c]
           h == [guest[c] EXCEPT !.data = Append(@, v), !.stage = Waiting]
<1>1. DeviceOK /\ GuestOK /\ chan[c] \in Channel
  BY TypeParts DEF DeviceOK
<1>2. /\ At(c, "data") /\ j.op \in PioWrites /\ UNCHANGED use
      /\ guest' = [guest EXCEPT ![c] = h]
      /\ \/ x.command \in PioWrites /\ WriteSector(c, r)
         \/ /\ x.command \notin PioWrites
            /\ fatal' = "unknown command"
            /\ UNCHANGED <<chan, store, slot>>
  BY ZenonT(40), DataWriteIs DEF Of
<1>3. /\ Running /\ guest[c].stage = "data" /\ "BSY" \notin chan[c].status
      /\ j.op \in PioWrites /\ UNCHANGED use
      /\ chan[c].command \in UsedOps /\ (Without({"hasty"}) => chan[c].command = j.op)
  BY <1>2 DEF At, Control, StageFits, Data, Heeds
<1>4. j \in Job /\ n \in Nat
  <2>1. j \in Job
    BY <1>2, JobIsUsed DEF Ops
  <2>2. guest[c].data \in Seq(Values)
    BY <1>1 DEF GuestOK
  <2> QED  BY <2>1, <2>2
<1>5. v \in Values
  BY <1>4, JobIs, WrittenIsData DEF Of, Drives
<1> HIDE DEF v
<1>6. /\ x \in Channel /\ SameTask(chan[c], x) /\ SameRegisters(chan[c], x)
      /\ x.status = chan[c].status /\ x.buffer = v
  BY <1>1, <1>5, FilledIs
<1> HIDE DEF x
<1>7. /\ r \in Channel /\ SameTask(x, r) /\ SameRegisters(x, r)
      /\ r.status = x.status /\ r.buffer = v
  BY <1>6, RaisedIs
<1> HIDE DEF r
<1>8. /\ g.stage \in {"poll", "interrupt"} /\ g.job = j /\ g.data = Append(guest[c].data, v)
      /\ \A e \in Channels \ {c} : guest'[e] = guest[e]
      /\ guest[c].data \in Seq(Values)
  <2>1. h.stage = Waiting /\ h.job = j /\ h.data = Append(guest[c].data, v)
    BY <1>1 DEF GuestOK
  <2> HIDE DEF h
  <2> QED  BY <1>1, <1>2, <2>1, WaitingIs DEF GuestOK
<1> HIDE DEF h
<1>9. /\ Len(g.data) = n + 1 /\ g.data[n + 1] = v
      /\ \A k \in 1 .. n : g.data[k] = guest[c].data[k]
  BY <1>5, <1>8, AppendProperties
<1>10. CASE Calm
  <2>1. /\ x.command = j.op /\ WriteSector(c, r)
    <3>1. Without({"hasty"})
      BY <1>10 DEF Calm
    <3> QED  BY <1>2, <1>3, <1>6, <3>1 DEF SameTask
  <2>2. "DRQ" \in chan[c].status /\ d \in Disks /\ Writing(d, chan[c], guest[c], Holds(d))
    <3>1. OnCourse(c)
      BY <1>10 DEF Data
    <3> QED  BY <1>3, <3>1 DEF OnCourse, Progress, Failed
  <2> DEFINE D == store[d].data
             E == store'[d].data
  <2>3. D \in [Sectors -> Values] /\ Holds(d) = D
    BY <1>1, <2>2 DEF DeviceOK, Holds
  <2> HIDE DEF D, d, j, n
  <2>4. /\ n < j.count /\ AtWork(chan[c], j, n) /\ Stored(guest[c], D, n)
        /\ \A k \in 1 .. n : guest[c].data[k] = Written(d, j.first + k - 1)
    BY <1>3, <2>2, <2>3 DEF Writing, j, n
  <2>5. AtWork(r, j, n)
    BY <1>6, <1>7, <2>4, StandsStill
  <2>6. /\ fatal' = fatal /\ \A e \in Channels \ {c} : chan'[e] = chan[e]
        /\ \A e \in Disks : store[e].cached \subseteq store'[e].cached
        /\ \A e \in Disks \ {d} : store'[e].data = store[e].data
        /\ y \in Channel /\ y.command = r.command
        /\ \/ /\ y.status = IF n + 1 < j.count THEN {"DRDY", "DSC", "DRQ"} ELSE {"DRDY", "DSC"}
              /\ slot' = slot /\ AtWork(y, j, n + 1)
              /\ E = [D EXCEPT ![j.first + n] = r.buffer]
           \/ /\ y.status = {"DRDY", "DSC", "BSY"}
              /\ AtWork(y, j, n) /\ y.buffer = r.buffer
              /\ slot'.busy /\ slot'.op = "write" /\ slot'.drive = d
              /\ slot'.first = Offset(y, y.lba48)
              /\ E = D
    BY <1>4, <1>7, <2>1, <2>2, <2>4, <2>5, WriteSectorMoves DEF d, D
  <2> HIDE DEF y, E, g
  <2>7. Stored(g, D, n)
    BY <1>4, <1>8, <1>9, <2>4 DEF Stored, j
  <2>8. E = [D EXCEPT ![j.first + n] = v] => Stored(g, E, n + 1)
    <3>1. g.job = j /\ g.data[n + 1] = v
      BY <1>8, <1>9 DEF j
    <3>2. Stored(g, [D EXCEPT ![g.job.first + n] = g.data[n + 1]], n + 1)
      BY <1>4, <2>3, <2>4, <2>7, <3>1, StoredMore
    <3> QED  BY <3>1, <3>2
  <2>9. \A k \in 1 .. n + 1 : g.data[k] = Written(d, j.first + k - 1)
    <3> SUFFICES ASSUME NEW k \in 1 .. n + 1
                 PROVE  g.data[k] = Written(d, j.first + k - 1)
      OBVIOUS
    <3>1. CASE k \in 1 .. n
      BY <1>9, <2>4, <3>1
    <3>2. CASE k = n + 1
      <4>1. j.first + k - 1 = j.first + n
        BY <1>4, <3>2, JobIs
      <4> QED  BY <1>9, <3>2, <4>1 DEF v
    <3> QED  BY <1>4, <3>1, <3>2
  <2>10. Writing(d, y, g, E)
    <3>1. g.job = j
      BY <1>8 DEF j
    <3>2. \/ /\ y.status = IF n + 1 < j.count THEN {"DRDY", "DSC", "DRQ"} ELSE {"DRDY", "DSC"}
             /\ AtWork(y, j, n + 1) /\ Stored(g, E, n + 1)
          \/ y.status = {"DRDY", "DSC", "BSY"} /\ AtWork(y, j, n) /\ Stored(g, E, n)
      BY <1>7, <2>6, <2>7, <2>8
    <3> QED  BY <1>4, <1>9, <2>4, <2>9, <3>1, <3>2, WritingOn
  <2>11. OnCourse(c)'
    <3>1. g.job = j /\ g.job.op \in PioWrites /\ g.stage \in {"poll", "interrupt"}
      BY <1>3, <1>8 DEF j
    <3>2. Progress(d, y, g, E)
      BY <2>2, <2>10, <3>1, ProgressWriting
    <3> QED  BY <2>2, <3>1, <3>2 DEF OnCourse, Holds, y, g, E, d
  <2>12. Local(c)
    <3>1. d[1] = c
      BY DEF d, Of
    <3> QED  BY <1>3, <1>8, <2>6, <3>1 DEF Local
  <2>13. y.command \in UsedOps /\ Heeds(y, g)
    BY <1>3, <1>6, <1>7, <1>8, <2>1, <2>6 DEF SameTask, Heeds
  <2>14. slot'.busy => \/ slot' = slot /\ slot.drive[1] # c
                       \/ /\ slot'.drive[1] = c /\ g.stage # "idle"
                          /\ Fits(slot', y, g, store'[slot'.drive].cached)
    <3>1. CASE slot' = slot
      BY <1>3, <1>10, <3>1, NonePending DEF Control
    <3>2. CASE /\ AtWork(y, j, n) /\ y.buffer = r.buffer
               /\ slot'.busy /\ slot'.op = "write" /\ slot'.drive = d
               /\ slot'.first = Offset(y, y.lba48)
      <4>1. Offset(y, y.lba48) = j.first + n
        BY <2>4, <3>2 DEF AtWork, Stands
      <4>2. d[1] = c /\ d[2] = j.drive
        BY DEF d, Of
      <4> QED  BY <1>7, <1>8, <3>2, <4>1, <4>2 DEF Fits, v
    <3> QED  BY <2>6, <3>1, <3>2
  <2>15. Data'
    BY <2>11, <2>12, <2>13, <2>14, LocalStep DEF y, g
  <2>16. InPlaceStep
    <3>1. \A s \in Sectors : E[s] \in {D[s], Written(d, s)}
      BY <1>4, <1>7, <2>3, <2>6 DEF v
    <3> QED  BY <2>6, <3>1 DEF InPlaceStep, D, E
  <2> QED  BY <2>6, <2>15, <2>16 DEF FatalStep
<1>11. CASE ~Calm
  <2>1. /\ \A e \in Channels \ {c} : chan'[e] = chan[e]
        /\ y.command = chan[c].command \/ (UNCHANGED chan /\ ~Running')
    <3>1. CASE WriteSector(c, r)
      <4>1. r.command = chan[c].command
        BY <1>6, <1>7 DEF SameTask
      <4> QED  BY <1>7, <3>1, <4>1, WriteSectorCommand
    <3>2. CASE UNCHANGED chan
      BY <3>2
    <3> QED  BY <1>2, <3>1, <3>2
  <2>2. y.command \in UsedOps /\ (Running' /\ Without({"hasty"}) => Heeds(y, g))
    BY <1>3, <1>8, <2>1 DEF Heeds
  <2> QED  BY <1>2, <1>3, <1>8, <1>11, <2>1, <2>2, StrayStep
<1> QED  BY <1>10, <1>11


\* What is so when a transfer is completed.
LEMMA CompletingIs ==
    ASSUME TypeOK, Control, Data, NEW c \in Channels, Complete(c), Calm
    PROVE  LET x == chan[c]
               g == guest[c]
               d == slot.drive
           IN  /\ "BSY" \in x.status /\ x.command \in OpsOf(slot.op)
               /\ g.stage \in {"idle", "poll", "interrupt", "reset"}
               /\ slot.first = Offset(x, x.lba48)
               /\ slot.op = "write" => x.buffer = Written(d, slot.first)
               /\ g.stage \in {"poll", "interrupt"} => x.command = g.job.op /\ g.job \in Job
               /\ g.stage # "idle" => d = Of(c, g.job)
               /\ g.stage # "idle" /\ slot.op = "prefetch" =>
                     /\ g.job \in Job /\ g.job.op \in DmaOps /\ AtWork(x, g.job, 0)
                     /\ x.table.drive = d /\ x.table.first = g.job.first
                     /\ x.table.sizes[1] + x.table.sizes[2] = g.job.count
                     /\ BlockOf(g.job.first) \in store[d].cached
               /\ slot.op = "prefetch" /\ ~Misdirected => g.stage # "idle"
<1> DEFINE x == chan[c]
           g == guest[c]
           d == slot.drive
<1>1. Running /\ slot.busy /\ d[1] = c /\ d \in Channels \X {0, 1} /\ slot.op \in {"read", "write", "prefetch"}
  BY CompleteIs DEF TypeOK, Drives
<1>2. "BSY" \in x.status /\ x.command \in OpsOf(slot.op)
  BY <1>1, AwaitedParts DEF Control, Calm
<1>3. Heeds(x, g) /\ (Without({"machine"}) => g.stage # "idle") /\ Fits(slot, x, g, store[d].cached)
  BY <1>1 DEF Data, Calm, PendingFits
<1>4. g.stage \in Stages /\ OpsOf(slot.op) \in SUBSET Ops
  <2>1. OpsOf(slot.op) \in {PioReads, PioWrites, DmaOps}
    BY <1>1 DEF OpsOf
  <2>2. g.stage \in Stages
    BY DEF TypeOK
  <2> QED  BY <2>1, <2>2 DEF Ops
<1>5. g.stage \in {"idle", "poll", "interrupt", "reset"}
  <2>1. g.stage \notin {"start", "data", "over"}
    BY <1>2 DEF Control, StageFits
  <2> QED  BY <1>2, <1>3, <1>4, <2>1 DEF Heeds, Stages
<1>6. g.stage \in {"poll", "interrupt"} => x.command = g.job.op /\ g.job \in Job
  <2>1. g.stage \in {"poll", "interrupt"} => x.command = g.job.op
    BY <1>3 DEF Heeds
  <2> QED  BY <1>2, <1>4, <2>1, JobIsUsed
<1>7. g.stage # "idle" => d = Of(c, g.job)
  <2>1. g.stage # "idle" => d[2] = g.job.drive
    BY <1>3 DEF Fits
  <2> QED  BY <1>1, <2>1 DEF Of
<1>8. g.job.op \in DmaOps => g.job \in Job
  BY JobIsUsed DEF Ops
<1>9. slot.op = "prefetch" /\ ~Misdirected => g.stage # "idle"
  <2>1. ASSUME slot.op = "prefetch"
        PROVE  \E j \in use.jobs : j.op \in DmaOps
    <3>1. x.command \in DmaOps
      BY <1>2, <2>1 DEF OpsOf
    <3>2. x.command \in UsedOps
      BY DEF Data
    <3> QED  BY <3>1, <3>2 DEF UsedOps, DmaOps
  <2> QED  BY <1>3, <2>1 DEF Misdirected
<1>10. /\ slot.first = Offset(x, x.lba48)
       /\ slot.op = "write" => x.buffer = Written(d, slot.first)
  BY <1>3 DEF Fits
<1>11. ASSUME g.stage # "idle", slot.op = "prefetch"
       PROVE  /\ g.job \in Job /\ g.job.op \in DmaOps /\ AtWork(x, g.job, 0)
              /\ x.table.drive = d /\ x.table.first = g.job.first
              /\ x.table.sizes[1] + x.table.sizes[2] = g.job.count
              /\ BlockOf(g.job.first) \in store[d].cached
  <2>1. /\ g.job.op \in DmaOps /\ AtWork(x, g.job, 0)
        /\ x.table.drive = d /\ x.table.first = slot.first
        /\ x.table.sizes[1] + x.table.sizes[2] = g.job.count
        /\ BlockOf(slot.first) \in store[d].cached
    BY <1>3, <1>11 DEF Fits
  <2>2. 0 < g.job.count /\ g.job.first + 0 = g.job.first /\ g.job \in Job
    BY <1>8, <2>1, JobIs
  <2>3. slot.first = g.job.first
    BY <1>10, <2>1, <2>2 DEF AtWork, Stands
  <2> QED  BY <2>1, <2>2, <2>3
<1> HIDE DEF x, g, d
<1> QED  BY <1>2, <1>5, <1>6, <1>7, <1>9, <1>10, <1>11 DEF x, g, d

\* A read is completed: the sector comes to the guest that waits for it, if it still does.
LEMMA CompleteReadData ==
    ASSUME TypeOK, TypeOK', Control, Data, NEW c \in Channels, Complete(c), slot.op = "read"
    PROVE  Data' /\ InPlaceStep /\ fatal' = fatal
<1> DEFINE x == chan[c]
           g == guest[c]
           j == g.job
           d == slot.drive
           D == store[d].data
           v == D[slot.first]
           y == SectorReady(x, v)
           n == Len(g.data)
<1>1. DeviceOK /\ GuestOK /\ x \in Channel
  BY TypeParts DEF DeviceOK
<1>2. /\ Running /\ slot.busy /\ d[1] = c /\ ~slot'.busy /\ UNCHANGED <<use, store, guest, fatal>>
      /\ chan' = [chan EXCEPT ![c] = y]
  BY <1>1, CompleteIs DEF DeviceOK
<1>3. d \in Disks /\ slot.first \in Sectors /\ v \in Values
  BY <1>1, <1>2 DEF DeviceOK
<1> HIDE DEF v
<1>4. y.command = x.command /\ "BSY" \notin y.status
  BY <1>1, <1>3, SectorReadyIs DEF SameTask
<1> HIDE DEF y
<1>5. chan'[c] = y /\ \A e \in Channels \ {c} : chan'[e] = chan[e]
  BY <1>1, <1>2 DEF DeviceOK
<1>6. Local(c) /\ y.command \in UsedOps
  BY <1>2, <1>4, <1>5 DEF Local, Data
<1>7. Without({"hasty"}) => Heeds(chan'[c], guest'[c])
  <2>1. Without({"hasty"}) => Heeds(x, g)
    BY <1>2 DEF Data
  <2> QED  BY <1>2, <1>4, <1>5, <2>1 DEF Heeds
<1>8. ASSUME Calm
      PROVE  Progress(Of(c, j), y, g, Holds(Of(c, j)))
  <2>1. CASE g.stage \in {"idle", "reset"}
    BY <2>1, ProgressGone
  <2>2. CASE g.stage \in {"poll", "interrupt"}
    <3>1. /\ "BSY" \in x.status /\ x.command = j.op /\ j.op \in PioReads /\ j \in Job
          /\ d = Of(c, j) /\ slot.first = Offset(x, x.lba48)
      BY <1>8, <2>2, CompletingIs DEF OpsOf
    <3>2. Reading(x, g, D)
      <4>1. OnCourse(c)
        BY <1>8 DEF Data
      <4> QED  BY <1>3, <2>2, <3>1, <4>1 DEF OnCourse, Progress, Failed, Holds
    <3> HIDE DEF D, d
    <3>3. /\ n \in Nat /\ n < j.count /\ AtWork(x, j, n)
          /\ \A k \in 1 .. n : g.data[k] = D[j.first + k - 1]
      BY <1>1, <3>1, <3>2 DEF Reading, GuestOK
    <3>4. v = D[j.first + n]
      BY <3>1, <3>3 DEF AtWork, Stands, v
    <3> HIDE DEF n, j, g
    <3>5. y.status = {"DRDY", "DSC", "DRQ"} /\ y.buffer = v /\ AtWork(y, j, n + 1)
      BY <1>1, <1>3, <3>1, <3>3, SectorReadyStands DEF y
    <3>6. n <= j.count
      BY <3>1, <3>3, JobIs
    <3>7. Reading(y, g, D)
      BY <3>3, <3>4, <3>5, <3>6 DEF Reading, n, j
    <3>8. Progress(d, y, g, D)
      BY <1>3, <2>2, <3>1, <3>7, ProgressReading DEF d, j
    <3> QED  BY <1>3, <3>1, <3>8 DEF Holds, D, d
  <2> QED  BY <1>8, <2>1, <2>2, CompletingIs
<1>9. Calm => OnCourse(c)'
  <2>1. \A e : Holds(e)' = Holds(e)
    BY <1>2 DEF Holds
  <2> QED  BY <1>2, <1>5, <1>8, <2>1 DEF OnCourse, Holds
<1>10. Data'
  BY <1>2, <1>5, <1>6, <1>7, <1>9, LocalStep
<1> QED  BY <1>2, <1>10 DEF InPlaceStep


\* A write is completed: its sector is stored where it belongs, whoever waits for it.
LEMMA CompleteWriteData ==
    ASSUME TypeOK, TypeOK', Control, Data, NEW c \in Channels, Complete(c), slot.op = "write"
    PROVE  Data' /\ (Calm => InPlaceStep) /\ fatal' = fatal
<1> DEFINE x == chan[c]
           g == guest[c]
           j == g.job
           d == slot.drive
           D == store[d].data
           E == [D EXCEPT ![slot.first] = x.buffer]
           y == SectorWritten(x)
           n == Len(g.data)
<1>1. DeviceOK /\ GuestOK /\ x \in Channel /\ x.buffer \in Values
  BY TypeParts DEF DeviceOK, Channel
<1>2. /\ Running /\ slot.busy /\ d[1] = c /\ ~slot'.busy /\ UNCHANGED <<use, guest, fatal>>
      /\ chan' = [chan EXCEPT ![c] = y]
      /\ store' = [store EXCEPT ![d].data[slot.first] = x.buffer]
  BY <1>1, CompleteIs DEF DeviceOK
<1>3. d \in Disks /\ slot.first \in Sectors /\ D \in [Sectors -> Values]
  BY <1>1, <1>2 DEF DeviceOK
<1>4. /\ y.command = x.command /\ "BSY" \notin y.status
  BY <1>1, SectorWrittenIs DEF SameTask
<1> HIDE DEF y
<1>5. chan'[c] = y /\ \A e \in Channels \ {c} : chan'[e] = chan[e]
  BY <1>1, <1>2 DEF DeviceOK
<1>6. /\ \A e \in Disks : store'[e].cached = store[e].cached
      /\ \A e \in Disks \ {d} : store'[e].data = store[e].data
      /\ store'[d].data = E
  <2>1. store \in [Disks -> [data : [Sectors -> Values], cached : SUBSET Blocks]]
    BY <1>1 DEF DeviceOK
  <2> HIDE DEF d
  <2> QED  BY <1>1, <1>2, <1>3, <2>1, StoreWritten
<1>7. Local(c) /\ y.command \in UsedOps
  BY <1>2, <1>4, <1>5, <1>6 DEF Local, Data
<1>8. Without({"hasty"}) => Heeds(chan'[c], guest'[c])
  <2>1. Without({"hasty"}) => Heeds(x, g)
    BY <1>2 DEF Data
  <2> QED  BY <1>2, <1>4, <1>5, <2>1 DEF Heeds
<1>9. ASSUME Calm, g.stage \in {"poll", "interrupt"}
      PROVE  d = Of(c, j) /\ Progress(d, y, g, E)
  <2>1. /\ "BSY" \in x.status /\ x.command = j.op /\ j.op \in PioWrites /\ j \in Job
        /\ d = Of(c, j) /\ slot.first = Offset(x, x.lba48) /\ x.buffer = Written(d, slot.first)
    BY <1>9, CompletingIs DEF OpsOf
  <2>2. Writing(d, x, g, D)
    <3>1. OnCourse(c)
      BY <1>9 DEF Data
    <3> QED  BY <1>3, <1>9, <2>1, <3>1 DEF OnCourse, Progress, Failed, Holds
  <2> DEFINE k == n - 1
  <2>3. n \in Nat
    BY <1>1 DEF GuestOK
  <2> HIDE DEF E, D, d, n
  <2>4. /\ n >= 1 /\ n <= j.count /\ AtWork(x, j, k) /\ Stored(g, D, k)
        /\ \A i \in 1 .. n : g.data[i] = Written(d, j.first + i - 1)
    BY <2>1, <2>2 DEF Writing, n
  <2>5. k \in Nat /\ k < j.count /\ n = k + 1
    BY <2>1, <2>3, <2>4, JobIs
  <2> HIDE DEF k
  <2>6. slot.first = j.first + k
    BY <2>1, <2>4, <2>5 DEF AtWork, Stands
  <2>7. x.buffer = g.data[k + 1]
    <3>1. j.first + (k + 1) - 1 = j.first + k /\ k + 1 \in 1 .. n
      BY <2>1, <2>5, JobIs
    <3> QED  BY <2>1, <2>4, <2>6, <3>1
  <2>8. Stored(g, E, k + 1)
    <3>1. Stored(g, [D EXCEPT ![g.job.first + k] = g.data[k + 1]], k + 1)
      BY <1>3, <2>1, <2>4, <2>5, StoredMore
    <3> QED  BY <2>6, <2>7, <3>1 DEF E
  <2>9. /\ AtWork(y, j, k + 1)
        /\ y.status = IF k + 1 < j.count THEN {"DRDY", "DSC", "DRQ"} ELSE {"DRDY", "DSC"}
    BY <1>1, <2>1, <2>4, <2>5, SectorWrittenStands DEF y
  <2>10. Len(g.data) = k + 1 /\ \A i \in 1 .. k + 1 : g.data[i] = Written(d, g.job.first + i - 1)
    BY <2>4, <2>5 DEF n
  <2>11. Writing(d, y, g, E)
    <3> HIDE DEF g
    <3> QED  BY <2>1, <2>5, <2>8, <2>9, <2>10, WritingOn DEF j
  <2>12. Progress(d, y, g, E)
    BY <1>3, <1>9, <2>1, <2>11, ProgressWriting
  <2> QED  BY <2>1, <2>12
<1>10. ASSUME Calm
       PROVE  OnCourse(c)'
  <2>1. CASE g.stage \in {"idle", "reset"}
    BY <1>2, <2>1, ProgressGone DEF OnCourse
  <2>2. CASE g.stage \in {"poll", "interrupt"}
    <3>1. d = Of(c, j) /\ Progress(d, y, g, E)
      BY <1>9, <1>10, <2>2
    <3> HIDE DEF E, d
    <3> QED  BY <1>2, <1>3, <1>5, <1>6, <3>1 DEF OnCourse, Holds
  <2> QED  BY <1>10, <2>1, <2>2, CompletingIs
<1>11. Data'
  BY <1>2, <1>5, <1>7, <1>8, <1>10, LocalStep
<1>12. ASSUME Calm
       PROVE  InPlaceStep
  <2>1. x.buffer = Written(d, slot.first)
    BY <1>12, CompletingIs
  <2>2. \A s \in Sectors : E[s] \in {D[s], Written(d, s)}
    BY <1>3, <2>1
  <2> HIDE DEF E
  <2> QED  BY <1>6, <2>2 DEF InPlaceStep
<1> QED  BY <1>2, <1>11, <1>12

\* A prefetch is completed, and the DMA handler moves everything at once.
LEMMA CompletePrefetchData ==
    ASSUME TypeOK, TypeOK', Control, Data, NEW c \in Channels, Complete(c), slot.op = "prefetch"
    PROVE  Data' /\ (Calm /\ ~Misdirected => InPlaceStep /\ FatalStep(c))
<1> DEFINE x == chan[c]
           g == guest[c]
           j == g.job
           d == slot.drive
           y == chan'[c]
           h == guest'[c]
<1>1. DeviceOK /\ GuestOK /\ x \in Channel
  BY TypeParts DEF DeviceOK
<1>2. /\ Running /\ slot.busy /\ d[1] = c /\ ~slot'.busy /\ UNCHANGED use /\ DmaHandler(c, x)
  BY <1>1, CompleteIs DEF DeviceOK
<1>3. d \in Disks
  BY <1>1, <1>2 DEF DeviceOK
<1>4. ASSUME Calm, g.stage # "idle"
      PROVE  /\ d = Of(c, j) /\ Selected(c, x) = d /\ j.op \in DmaOps
             /\ \/ /\ fatal' = "expected sync response" /\ UNCHANGED <<chan, store, guest>>
                   /\ Crosses(j)
                \/ /\ fatal' = fatal
                   /\ Len(h.data) = j.count
                   /\ \A k \in 1 .. j.count : h.data[k] = store'[d].data[j.first + k - 1]
                   /\ \A s \in Sectors : store'[d].data[s] \in {store[d].data[s], Written(d, s)}
  <2>1. /\ d = Of(c, j) /\ j \in Job /\ j.op \in DmaOps /\ AtWork(x, j, 0)
        /\ x.table.drive = d /\ x.table.first = j.first
        /\ x.table.sizes[1] + x.table.sizes[2] = j.count
        /\ BlockOf(j.first) \in store[d].cached
    BY <1>4, CompletingIs
  <2>2. Selected(c, x) = d
    BY <2>1 DEF AtWork, Stands, Selected, Of
  <2> HIDE DEF x, d, h, j
  <2>3. \/ /\ fatal' = "expected sync response" /\ UNCHANGED <<chan, store, guest>>
           /\ \E s \in Sectors : /\ j.first <= s /\ s < j.first + j.count
                                 /\ BlockOf(s) \notin store[d].cached
        \/ /\ fatal' = fatal
           /\ Len(h.data) = j.count
           /\ \A k \in 1 .. j.count : h.data[k] = store'[d].data[j.first + k - 1]
           /\ \A s \in Sectors : store'[d].data[s] \in {store[d].data[s], Written(d, s)}
    <3> DEFINE e == Of(c, j)
    <3>1. e = d /\ e \in Disks /\ x.table.drive = e /\ x.table.first = j.first
          /\ x.table.sizes[1] + x.table.sizes[2] = j.count
      BY <1>3, <2>1
    <3>2. x \in Channel /\ DmaHandler(c, x) /\ j \in Job /\ AtWork(x, j, 0)
      BY <1>1, <1>2, <2>1 DEF x
    <3>3. \/ /\ fatal' = "expected sync response" /\ UNCHANGED <<chan, store, guest>>
             /\ \E s \in Sectors : /\ j.first <= s /\ s < j.first + j.count
                                   /\ BlockOf(s) \notin store[e].cached
          \/ /\ fatal' = fatal
             /\ Len(h.data) = j.count
             /\ \A k \in 1 .. j.count : h.data[k] = store'[e].data[j.first + k - 1]
             /\ \A s \in Sectors : store'[e].data[s] \in {store[e].data[s], Written(e, s)}
      BY <3>1, <3>2, DmaHandlerMoves DEF h
    <3> HIDE DEF e
    <3> QED  BY <3>1, <3>3
  <2>4. ASSUME NEW s \in Sectors, j.first <= s, s < j.first + j.count,
               BlockOf(s) \notin store[d].cached
        PROVE  Crosses(j)
    BY <2>1, <2>4, CrossesBlock
  <2> QED  BY <2>1, <2>2, <2>3, <2>4
<1>5. /\ \A e \in Disks \ {Selected(c, x)} : store'[e].data = store[e].data
      /\ \A e \in Disks : store'[e].cached = store[e].cached
  BY <1>1, <1>2, DmaHandlerStores
<1>6. Calm /\ ~Misdirected => g.stage # "idle"
  BY CompletingIs
<1>7. CASE fatal' # "no" /\ UNCHANGED <<chan, store, guest>>
  <2>1. Data'
    BY <1>2, <1>7, StillStep DEF Running
  <2>2. Calm /\ ~Misdirected => FatalStep(c)
    BY <1>4, <1>6, <1>7 DEF FatalStep
  <2> QED  BY <1>7, <2>1, <2>2 DEF InPlaceStep
<1>8. CASE /\ UNCHANGED fatal
           /\ \A e \in Channels \ {c} : chan'[e] = chan[e] /\ guest'[e] = guest[e]
           /\ y.status = {"DRDY", "DSC"} /\ SameTask(x, y)
           /\ h.stage = IF g.stage = "start" THEN Waiting ELSE g.stage
           /\ h.job = j
  <2>1. y.command \in UsedOps /\ y.command = x.command
    BY <1>8 DEF SameTask, Data
  <2>2. Without({"hasty"}) => Heeds(y, h)
    <3>1. Without({"hasty"}) => Heeds(x, g)
      BY <1>2 DEF Data
    <3> QED  BY <1>8, <2>1, <3>1, WaitingIs DEF Heeds
  <2>3. Local(c)
    <3>1. Selected(c, x)[1] = c
      BY DEF Selected
    <3> QED  BY <1>2, <1>5, <1>8, <3>1 DEF Local
  <2>4. ASSUME Calm
        PROVE  OnCourse(c)'
    <3>1. CASE g.stage \in {"idle", "reset"}
      BY <1>8, <3>1, ProgressGone DEF OnCourse
    <3>2. CASE g.stage \in {"poll", "interrupt"}
      <4>1. /\ fatal' # "expected sync response"
        BY <1>2, <1>8 DEF Running
      <4> DEFINE D == store'[d].data
      <4>2. /\ d = Of(c, j) /\ j.op \in DmaOps /\ Len(h.data) = j.count
            /\ \A k \in 1 .. j.count : h.data[k] = D[j.first + k - 1]
        BY <1>4, <2>4, <3>2, <4>1
      <4>3. h.job = j /\ h.stage \in {"poll", "interrupt"}
        BY <1>8, <3>2
      <4> HIDE DEF D, h, j, d, y
      <4>4. Progress(d, y, h, D)
        BY <1>3, <1>8, <4>2, <4>3, ProgressDma DEF Moved
      <4> QED  BY <1>3, <4>2, <4>3, <4>4 DEF OnCourse, Holds, D, h, d, y
    <3> QED  BY <2>4, <3>1, <3>2, CompletingIs
  <2>5. Data'
    BY <1>2, <2>1, <2>2, <2>3, <2>4, LocalStep
  <2>6. ASSUME Calm, ~Misdirected
        PROVE  InPlaceStep
    <3>1. fatal' # "expected sync response"
      BY <1>2, <1>8 DEF Running
    <3>2. /\ Selected(c, x) = d
          /\ \A s \in Sectors : store'[d].data[s] \in {store[d].data[s], Written(d, s)}
      BY <1>4, <1>6, <2>6, <3>1
    <3> QED  BY <1>5, <3>2 DEF InPlaceStep
  <2> QED  BY <1>8, <2>5, <2>6 DEF FatalStep
<1> QED  BY <1>1, <1>2, <1>7, <1>8, DmaHandlerIs

\* A completion.
LEMMA CompleteData ==
    ASSUME TypeOK, TypeOK', Control, Data, NEW c \in Channels, Complete(c)
    PROVE  Data' /\ (Calm /\ ~Misdirected => InPlaceStep /\ FatalStep(c))
<1>1. slot.op \in {"read", "write", "prefetch"}
  BY DEF TypeOK
<1> QED  BY <1>1, CompleteReadData, CompleteWriteData, CompletePrefetchData DEF FatalStep


-----------------------------------------------------------------------------
(* Every step.                                                              *)

\* Every step keeps the data on their course.
LEMMA NextData ==
    ASSUME TypeOK, TypeOK', Control, Data, [Next]_vars
    PROVE  Data'
<1>1. CASE UNCHANGED vars
  BY <1>1, StillStep DEF vars, Running
<1>2. CASE Reset
  BY <1>2, ResetData
<1>3. ASSUME NEW c \in Channels, GuestStep(c)
      PROVE  Data'
  BY <1>3, CommandData, StartDmaData, ReadStatusData, QuietData, DataReadData, DataWriteData,
     FinishData, ClearResetData DEF GuestStep
<1>4. ASSUME NEW c \in Channels,
             (\E j \in use.jobs : SetUp(c, j)) \/ Complete(c) \/ SetReset(c) \/ ToggleMask(c)
      PROVE  Data'
  BY <1>4, SetUpData, CompleteData, SetResetData, QuietData
<1> QED  BY <1>1, <1>2, <1>3, <1>4 DEF Next

\* Nothing happens any more once the program has ended.
LEMMA EndedStays ==
    ASSUME ~Running, [Next]_vars
    PROVE  UNCHANGED vars
<1>1. \A c, stage : ~At(c, stage)
  BY DEF At
<1>2. ASSUME NEW c \in Channels, Command(c)
      PROVE  FALSE
  BY <1>1, <1>2, Zenon DEF Command, CommandIgnored, CommandRead, CommandWrite, CommandDma,
     CommandIdentify, CommandNonData, CommandVerify, Commanded
<1>3. ASSUME NEW c \in Channels, GuestStep(c)
      PROVE  FALSE
  BY <1>1, <1>2, <1>3, Zenon DEF GuestStep, StartDma, ReadStatus, DataAccess, DataRead, DataWrite,
     Finish, ClearReset
<1>4. ASSUME NEW c \in Channels,
             (\E j \in use.jobs : SetUp(c, j)) \/ Complete(c) \/ SetReset(c) \/ ToggleMask(c)
      PROVE  FALSE
  BY <1>1, <1>4, Zenon DEF SetUp, Complete, SetReset, ToggleMask
<1>5. ~Reset
  BY Zenon DEF Reset
<1> QED  BY <1>3, <1>4, <1>5, Zenon DEF Next

\* A command that is given neither stores anything nor ends the program.
LEMMA CommandMoves ==
    ASSUME TypeOK, TypeOK', Control, Data, NEW c \in Channels, Command(c), Calm
    PROVE  InPlaceStep /\ fatal' = fatal
<1>1. CASE CommandRead(c)
  BY <1>1, CommandReadData DEF InPlaceStep
<1>2. CASE CommandIgnored(c) \/ CommandWrite(c) \/ CommandDma(c) \/ CommandIdentify(c)
           \/ CommandNonData(c) \/ CommandVerify(c)
  <2>1. UNCHANGED store /\ UNCHANGED fatal
    BY <1>2, Zenon DEF CommandIgnored, CommandWrite, CommandDma, CommandIdentify, CommandNonData,
       CommandVerify
  <2> QED  BY <2>1 DEF InPlaceStep
<1> QED  BY <1>1, <1>2 DEF Command

\* What the steps store and when they end the program.
LEMMA NextMoves ==
    ASSUME TypeOK, TypeOK', Control, Data, [Next]_vars, Calm, ~Misdirected
    PROVE  InPlaceStep /\ (fatal' = fatal \/ \E c \in Channels : FatalStep(c))
<1>1. CASE UNCHANGED <<store, fatal>>
  BY <1>1 DEF InPlaceStep
<1>2. UNCHANGED vars \/ Reset => UNCHANGED <<store, fatal>>
  BY DEF vars, Reset
<1>3. ASSUME NEW c \in Channels, GuestStep(c)
      PROVE  InPlaceStep /\ (fatal' = fatal \/ FatalStep(c))
  <2>1. CASE \E table \in Tables(c) : StartDma(c, table)
    BY <2>1, StartDmaData
  <2>2. CASE DataRead(c) \/ DataWrite(c)
    BY <2>2, DataReadData, DataWriteData
  <2>3. CASE Command(c)
    BY <2>3, CommandMoves
  <2>4. CASE ReadStatus(c) \/ DataAccess(c) \/ Finish(c) \/ ClearReset(c)
    BY <1>1, <2>4 DEF ReadStatus, DataAccess, Finish, ClearReset
  <2> QED  BY <1>3, <2>1, <2>2, <2>3, <2>4 DEF GuestStep
<1>4. ASSUME NEW c \in Channels, Complete(c)
      PROVE  InPlaceStep /\ FatalStep(c)
  BY <1>4, CompleteData
<1>5. ASSUME NEW c \in Channels,
             (\E j \in use.jobs : SetUp(c, j)) \/ SetReset(c) \/ ToggleMask(c)
      PROVE  UNCHANGED <<store, fatal>>
  BY <1>5, Zenon DEF SetUp, SetReset, ToggleMask
<1> QED  BY <1>1, <1>2, <1>3, <1>4, <1>5 DEF Next

\* How a guest that looks at BSY sees the program end: no data are moved for a command that
\* has none.
LEMMA NextCommands ==
    ASSUME TypeOK, Data, [Next]_vars, Running, Without({"hasty"})
    PROVE  fatal' # "unknown command"
<1> DEFINE Known == fatal' # "unknown command"
<1>1. CASE UNCHANGED fatal
  BY <1>1 DEF Running
<1>2. ASSUME NEW c \in Channels, NEW x, ReadSectors(c, x) \/ WriteSector(c, x) \/ DmaHandler(c, x)
      PROVE  Known
  BY <1>1, <1>2 DEF ReadSectors, WriteSector, DmaHandler, GoBeyond, Pending
<1>3. ASSUME NEW c \in Channels, NEW table \in Tables(c), StartDma(c, table)
      PROVE  Known
  BY <1>1, <1>2, <1>3 DEF StartDma, GoBeyond, Pending
<1>4. ASSUME NEW c \in Channels, DataRead(c)
      PROVE  Known
  <2>1. chan[c] \in Channel /\ Emptied(chan[c]).command = chan[c].command
    <3>1. chan[c] \in Channel
      BY DEF TypeOK
    <3> QED  BY <3>1, EmptiedIs DEF SameTask
  <2>2. chan[c].command = guest[c].job.op
    BY <1>4, DataReadIs DEF At, Data, Heeds
  <2> QED  BY <1>1, <1>2, <1>4, <2>1, <2>2, DataReadIs
<1>5. ASSUME NEW c \in Channels, DataWrite(c)
      PROVE  Known
  <2> DEFINE v == Written(<<c, guest[c].job.drive>>, guest[c].job.first + Len(guest[c].data))
             x == Filled(chan[c], v)
  <2>1. x.command = chan[c].command
    <3>1. chan[c] \in Channel
      BY DEF TypeOK
    <3> HIDE DEF v
    <3> QED  BY <3>1 DEF Filled, Channel
  <2>2. chan[c].command = guest[c].job.op
    BY <1>5, DataWriteIs DEF At, Data, Heeds
  <2> HIDE DEF v
  <2>3. guest[c].job.op \in PioWrites
        /\ (WriteSector(c, Raised(x)) \/ x.command \notin PioWrites)
    BY <1>5, DataWriteIs DEF v
  <2> QED  BY <1>2, <2>1, <2>2, <2>3
<1>6. ASSUME NEW c \in Channels, Command(c)
      PROVE  Known
  <2>1. CASE CommandRead(c)
    BY <1>1, <1>2, <2>1 DEF CommandRead
  <2>2. ASSUME ~CommandRead(c)
        PROVE  UNCHANGED fatal
    BY <1>6, <2>2, Zenon DEF Command, CommandIgnored, CommandWrite, CommandDma, CommandIdentify,
       CommandNonData, CommandVerify
  <2> QED  BY <1>1, <2>1, <2>2
<1>7. ASSUME NEW c \in Channels, Complete(c)
      PROVE  Known
  BY <1>1, <1>2, <1>7, CompleteIs
<1>8. ASSUME NEW c \in Channels,
             ReadStatus(c) \/ DataAccess(c) \/ Finish(c) \/ ClearReset(c)
             \/ (\E j \in use.jobs : SetUp(c, j)) \/ SetReset(c) \/ ToggleMask(c)
      PROVE  UNCHANGED fatal
  BY <1>8, Zenon DEF ReadStatus, DataAccess, Finish, ClearReset, SetUp, SetReset, ToggleMask
<1>9. UNCHANGED vars \/ Reset => UNCHANGED fatal
  BY DEF vars, Reset
<1> QED  BY <1>1, <1>3, <1>4, <1>5, <1>6, <1>7, <1>8, <1>9 DEF Next, GuestStep

-----------------------------------------------------------------------------
(* The theorems.                                                            *)

Inv == TypeOK /\ Control /\ Data

\* The guest keeps its habits.
LEMMA UseStays ==
    ASSUME [Next]_vars
    PROVE  UNCHANGED use
<1>1. ASSUME NEW c \in Channels, Command(c)
      PROVE  UNCHANGED use
  BY <1>1, Zenon DEF Command, CommandIgnored, CommandRead, CommandWrite, CommandDma,
     CommandIdentify, CommandNonData, CommandVerify, Commanded
<1>2. ASSUME NEW c \in Channels, GuestStep(c)
      PROVE  UNCHANGED use
  BY <1>1, <1>2, Zenon DEF GuestStep, StartDma, ReadStatus, DataAccess, DataRead, DataWrite, Finish,
     ClearReset
<1>3. ASSUME NEW c \in Channels,
             (\E j \in use.jobs : SetUp(c, j)) \/ Complete(c) \/ SetReset(c) \/ ToggleMask(c)
      PROVE  UNCHANGED use
  BY <1>3, Zenon DEF SetUp, Complete, SetReset, ToggleMask
<1>4. Reset \/ UNCHANGED vars => UNCHANGED use
  BY Zenon DEF Reset, vars
<1> QED  BY <1>2, <1>3, <1>4, Zenon DEF Next

\* The invariant is inductive.
LEMMA Inductive ==
    /\ Init => Inv
    /\ Inv /\ [Next]_vars => Inv'
<1>1. Init => Inv
  BY InitTypes, InitControl, InitData DEF Inv
<1>2. Inv /\ [Next]_vars => Inv'
  BY NextTypes, NextControl, NextData DEF Inv
<1> QED  BY <1>1, <1>2

\* A command that the guest sees end without an error has moved all its sectors, in order:
\* those read are the disk's, those written are on it.
THEOREM CommandsMoveAll == Spec => []AllMoved
<1>1. Inv => AllMoved
  <2> SUFFICES ASSUME Inv, Calm, NEW c \in Channels, guest[c].stage = "over", ~guest[c].error,
                      guest[c].job.op \in PioReads \cup PioWrites \cup DmaOps
               PROVE  LET j == guest[c].job
                      IN  /\ Len(guest[c].data) = j.count
                          /\ \A k \in 1 .. j.count :
                                guest[c].data[k] = store[<<c, j.drive>>].data[j.first + k - 1]
    BY DEF AllMoved, Calm
  <2>1. OnCourse(c)
    BY DEF Inv, Data
  <2>2. Of(c, guest[c].job) \in Disks /\ Moved(guest[c], Holds(Of(c, guest[c].job)))
    BY <2>1 DEF OnCourse, Progress
  <2> QED  BY <2>2 DEF Moved, Holds, Of
<1> QED  BY <1>1, Inductive, PTL DEF Spec

\* No write lands on another sector or another drive, whatever resets, other commands or the
\* other channel interrupt.
THEOREM DataStayInPlace == Spec => []DataInPlace
<1>1. Init => DataInPlace
  BY DEF Init, DataInPlace
<1>2. Inv /\ Inv' /\ DataInPlace /\ [Next]_vars => DataInPlace'
  <2> SUFFICES ASSUME Inv, Inv', DataInPlace, [Next]_vars, (Calm /\ ~Misdirected)'
               PROVE  \A d \in Disks, s \in Sectors :
                          store'[d].data[s] \in {Original(d, s), Written(d, s)}
    BY DEF DataInPlace, Calm
  <2>1. Calm /\ ~Misdirected
    <3>1. UNCHANGED use
      BY UseStays
    <3> QED  BY <3>1 DEF Calm, Disturbed, Misdirected, Without
  <2>2. InPlaceStep
    BY <2>1, NextMoves DEF Inv
  <2> QED  BY <2>1, <2>2 DEF DataInPlace, Calm, InPlaceStep
<1> QED  BY <1>1, <1>2, Inductive, PTL DEF Spec

\* The program is ended only by DMA on more sectors than a block has left, or by a guest that
\* does not look at BSY; and no transfer leaves the disk.
THEOREM FatalIsKnown == Spec => []OnlyKnownFatal
<1>1. Init => OnlyKnownFatal
  BY DEF Init, OnlyKnownFatal
<1>2. Inv /\ Inv' /\ OnlyKnownFatal /\ [Next]_vars => OnlyKnownFatal'
  <2> SUFFICES ASSUME Inv, Inv', OnlyKnownFatal, [Next]_vars
               PROVE  OnlyKnownFatal'
    OBVIOUS
  <2>1. CASE ~Running
    BY <2>1, EndedStays DEF vars, OnlyKnownFatal, Disturbed, Misdirected, Without
  <2>2. CASE Running
    <3>1. /\ Calm' = Calm /\ Misdirected' = Misdirected
          /\ Without({"hasty"})' = Without({"hasty"}) /\ Disturbed' = Disturbed
      BY UseStays DEF Calm, Disturbed, Misdirected, Without
    <3>2. fatal' = "unknown command" => ~Without({"hasty"})
      BY <2>2, NextCommands DEF Inv
    <3>3. ASSUME Calm, ~Misdirected
          PROVE  /\ fatal' # "beyond the disk"
                 /\ fatal' = "expected sync response" =>
                       \E c \in Channels : Crosses(guest'[c].job)
      BY <2>2, <3>3, NextMoves DEF Inv, FatalStep, Running
    <3> QED  BY <3>1, <3>2, <3>3 DEF OnlyKnownFatal, Calm, Crosses
  <2> QED  BY <2>1, <2>2
<1> QED  BY <1>1, <1>2, Inductive, PTL DEF Spec

=============================================================================
