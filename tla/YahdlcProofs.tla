---------------------------- MODULE YahdlcProofs ----------------------------
(* Proofs about Yahdlc: for every set of frames, line and way to cut chunks. *)
EXTENDS YahdlcInv, WellFoundedInduction, SequenceTheorems, TLAPS

-----------------------------------------------------------------------------
(* Induction, and functions defined by recursion *)

\* Induction on the natural numbers, for a set in place of a predicate.
LEMMA Induction ==
  ASSUME NEW S, 0 \in S, \A n \in Nat : n \in S => n + 1 \in S
  PROVE  Nat \subseteq S
<1> DEFINE T == Nat \ S
<1> SUFFICES ASSUME T # {} PROVE FALSE
  OBVIOUS
<1>1. PICK n \in T : \A m \in T : <<m, n>> \notin OpToRel(<, Nat)
  <2>1. T \subseteq Nat OBVIOUS
  <2> HIDE DEF T
  <2> QED BY <2>1, NatLessThanWellFounded, WFMin
<1>2. ASSUME NEW m \in T, m < n PROVE FALSE
  <2>1. OpToRel(<, Nat) = {ss \in Nat \X Nat : ss[1] < ss[2]}
    BY DEF OpToRel
  <2>2. <<m, n>> \in Nat \X Nat /\ <<m, n>>[1] < <<m, n>>[2]
    BY <1>1, <1>2
  <2>3. <<m, n>> \in OpToRel(<, Nat)
    BY <2>1, <2>2, Zenon
  <2> QED BY <1>1, <1>2, <2>3, Zenon
<1>3. n # 0 /\ n - 1 \in Nat /\ n - 1 < n
  OBVIOUS
<1>4. n - 1 \in S
  <2>1. n - 1 \notin T
    BY <1>2, <1>3
  <2> QED BY <1>3, <2>1
<1> QED BY <1>3, <1>4

\* f holds what the steps make of a, one after the other.
Recursion(f, n, a, step) == f[0] = a /\ \A k \in 1 .. n : f[k] = step[k][f[k - 1]]

\* Steps that stay in S define a function into S.
LEMMA RecursionExists ==
  ASSUME NEW n \in Nat, NEW S, NEW a \in S, NEW step \in [1 .. n -> [S -> S]]
  PROVE  \E f \in [0 .. n -> S] : Recursion(f, n, a, step)
<1> DEFINE Good(f, m) == Recursion(f, m, a, step)
           T == {m \in Nat : m <= n => \E f \in [0 .. m -> S] : Good(f, m)}
<1>1. 0 \in T
  <2>1. [k \in 0 .. 0 |-> a] \in [0 .. 0 -> S] /\ Good([k \in 0 .. 0 |-> a], 0)
    BY DEF Recursion
  <2> QED BY <2>1
<1>2. ASSUME NEW m \in Nat, m \in T PROVE m + 1 \in T
  <2> SUFFICES ASSUME m + 1 <= n PROVE \E f \in [0 .. m + 1 -> S] : Good(f, m + 1)
    OBVIOUS
  <2>1. PICK f \in [0 .. m -> S] : Good(f, m)
    BY <1>2
  <2> DEFINE g == [k \in 0 .. m + 1 |-> IF k <= m THEN f[k] ELSE step[m + 1][f[m]]]
  <2>2. step[m + 1][f[m]] \in S
    OBVIOUS
  <2>3. g \in [0 .. m + 1 -> S]
    BY <2>2
  <2>4. Good(g, m + 1)
    <3> USE DEF Recursion
    <3>1. g[0] = a
      BY <2>1
    <3>2. ASSUME NEW k \in 1 .. m + 1 PROVE g[k] = step[k][g[k - 1]]
      BY <2>1
    <3> QED BY <3>1, <3>2
  <2> HIDE DEF g
  <2> QED BY <2>3, <2>4
<1>3. n \in T
  <2> HIDE DEF T
  <2> QED BY <1>1, <1>2, Induction
<1> QED BY <1>3
-----------------------------------------------------------------------------
(* Octets, the register and the checksum *)

Weights == {1, 2, 4, 8, 16, 32, 64, 128}

\* The two octets of a register.
LEMMA HalvesType ==
  ASSUME NEW x \in Register
  PROVE  x % 256 \in Octet /\ x \div 256 \in Octet /\ x \div 256 \in Register
<1>1. x \in Nat /\ x < 65536
  BY DEF Register
<1>2. \A k \in Int : k >= 0 /\ k <= 255 => k \in Octet /\ k \in Register
  BY DEF Octet, Register
<1> QED BY <1>1, <1>2

\* A register from two octets, and back.
LEMMA WordType ==
  ASSUME NEW high \in Octet, NEW low \in Octet
  PROVE  /\ 256 * high + low \in Register
         /\ (256 * high + low) % 256 = low /\ (256 * high + low) \div 256 = high
<1>1. high \in Nat /\ high <= 255 /\ low \in Nat /\ low <= 255
  BY DEF Octet
<1> QED BY <1>1 DEF Register

\* All 256 entries of fcstab are registers.
LEMMA TableType == fcstab \in [1 .. 256 -> Register]
BY SMTT(60) DEF fcstab, Register

\* What an octet is divided by to bring a bit to the front.
LEMMA DivType ==
  ASSUME NEW x \in Octet, NEW w \in Weights
  PROVE  x \div w \in Nat
BY DEF Octet, Weights

\* A bit of x ^ y is a bit.
LEMMA XorBitType ==
  ASSUME NEW x \in Octet, NEW y \in Octet, NEW w \in Weights
  PROVE  XorBit(x, y, w) \in {0, 1}
<1>1. x \div w \in Nat /\ y \div w \in Nat
  BY DivType
<1>2. \A a, b \in Nat : (a + b) % 2 \in {0, 1}
  OBVIOUS
<1> QED BY <1>1, <1>2 DEF XorBit

\* Eight bits make an octet, and can be read off it.
LEMMA Bits ==
  ASSUME NEW b1 \in {0, 1}, NEW b2 \in {0, 1}, NEW b4 \in {0, 1}, NEW b8 \in {0, 1},
         NEW b16 \in {0, 1}, NEW b32 \in {0, 1}, NEW b64 \in {0, 1}, NEW b128 \in {0, 1}
  PROVE  LET x == b1 + 2 * b2 + 4 * b4 + 8 * b8
                    + 16 * b16 + 32 * b32 + 64 * b64 + 128 * b128
         IN  /\ x \in Octet
             /\ x % 2 = b1 /\ (x \div 2) % 2 = b2
             /\ (x \div 4) % 2 = b4 /\ (x \div 8) % 2 = b8
             /\ (x \div 16) % 2 = b16 /\ (x \div 32) % 2 = b32
             /\ (x \div 64) % 2 = b64 /\ x \div 128 = b128
<1> DEFINE x == b1 + 2 * b2 + 4 * b4 + 8 * b8 + 16 * b16 + 32 * b32 + 64 * b64 + 128 * b128
<1>1. x \in Octet
  BY DEF Octet
<1>2. /\ x \div 2 = b2 + 2 * b4 + 4 * b8 + 8 * b16 + 16 * b32 + 32 * b64 + 64 * b128
      /\ x % 2 = b1
  OBVIOUS
<1>3. x \div 4 = b4 + 2 * b8 + 4 * b16 + 8 * b32 + 16 * b64 + 32 * b128
  OBVIOUS
<1>4. x \div 8 = b8 + 2 * b16 + 4 * b32 + 8 * b64 + 16 * b128
  OBVIOUS
<1>5. x \div 16 = b16 + 2 * b32 + 4 * b64 + 8 * b128
  OBVIOUS
<1>6. x \div 32 = b32 + 2 * b64 + 4 * b128
  OBVIOUS
<1>7. x \div 64 = b64 + 2 * b128 /\ x \div 128 = b128
  OBVIOUS
<1> QED BY <1>1, <1>2, <1>3, <1>4, <1>5, <1>6, <1>7

\* x ^ y is an octet, and its bits are those of XorBit.
LEMMA XorOctetBits ==
  ASSUME NEW x \in Octet, NEW y \in Octet
  PROVE  /\ XorOctet[x][y] \in Octet
         /\ \A w \in Weights : (XorOctet[x][y] \div w) % 2 = XorBit(x, y, w)
<1> DEFINE b(w) == XorBit(x, y, w)
           z == b(1) + 2 * b(2) + 4 * b(4) + 8 * b(8)
                  + 16 * b(16) + 32 * b(32) + 64 * b(64) + 128 * b(128)
<1>1. XorOctet[x][y] = z
  BY DEF XorOctet
<1>2. \A w \in Weights : b(w) \in {0, 1}
  BY XorBitType
<1>3. /\ b(1) \in {0, 1} /\ b(2) \in {0, 1} /\ b(4) \in {0, 1} /\ b(8) \in {0, 1}
      /\ b(16) \in {0, 1} /\ b(32) \in {0, 1} /\ b(64) \in {0, 1} /\ b(128) \in {0, 1}
  BY <1>2 DEF Weights
<1> HIDE DEF b
<1>4. /\ z \in Octet
      /\ z % 2 = b(1) /\ (z \div 2) % 2 = b(2) /\ (z \div 4) % 2 = b(4)
      /\ (z \div 8) % 2 = b(8) /\ (z \div 16) % 2 = b(16) /\ (z \div 32) % 2 = b(32)
      /\ (z \div 64) % 2 = b(64) /\ z \div 128 = b(128)
  BY <1>3, Bits
<1> HIDE DEF z
<1>5. z \div 1 = z /\ b(128) % 2 = b(128)
  BY <1>3, <1>4 DEF Octet
<1>6. \A w \in Weights : (z \div w) % 2 = b(w)
  BY <1>4, <1>5 DEF Weights
<1> QED BY <1>1, <1>4, <1>6 DEF b

\* x ^ y from bits that are known.
LEMMA XorOctetSum ==
  ASSUME NEW x \in Octet, NEW y \in Octet, NEW c \in [Weights -> {0, 1}],
         \A w \in Weights : XorBit(x, y, w) = c[w]
  PROVE  XorOctet[x][y] = c[1] + 2 * c[2] + 4 * c[4] + 8 * c[8]
                  + 16 * c[16] + 32 * c[32] + 64 * c[64] + 128 * c[128]
BY DEF XorOctet, Weights

\* The bits of 255 - x are the inverted ones of x.
LEMMA Complement ==
  ASSUME NEW x \in Octet, NEW w \in Weights
  PROVE  255 - x \in Octet /\ (x \div w + (255 - x) \div w) % 2 = 1
<1>1. x \in 0 .. 255
  BY DEF Octet
<1>2. w = 1 \/ w = 2 \/ w = 4 \/ w = 8 \/ w = 16 \/ w = 32 \/ w = 64 \/ w = 128
  BY DEF Weights
<1>3. 255 \div w = x \div w + (255 - x) \div w
  <2>1. CASE w = 1 BY <1>1, <2>1
  <2>2. CASE w = 2 BY <1>1, <2>2
  <2>3. CASE w = 4 BY <1>1, <2>3
  <2>4. CASE w = 8 BY <1>1, <2>4
  <2>5. CASE w = 16 BY <1>1, <2>5
  <2>6. CASE w = 32 BY <1>1, <2>6
  <2>7. CASE w = 64 BY <1>1, <2>7
  <2>8. CASE w = 128 BY <1>1, <2>8
  <2> QED BY <1>2, <2>1, <2>2, <2>3, <2>4, <2>5, <2>6, <2>7, <2>8
<1>4. (255 \div w) % 2 = 1
  BY <1>2
<1> QED BY <1>1, <1>3, <1>4 DEF Octet

\* x ^ ~x has all bits set.
LEMMA XorComplement ==
  ASSUME NEW x \in Octet
  PROVE  XorOctet[x][255 - x] = 255
<1> DEFINE c == [w \in Weights |-> 1]
<1>1. \A w \in Weights : 255 - x \in Octet /\ XorBit(x, 255 - x, w) = c[w]
  BY Complement DEF XorBit
<1>2. c \in [Weights -> {0, 1}] /\ 255 - x \in Octet
  BY Complement DEF Weights
<1>3. XorOctet[x][255 - x] = c[1] + 2 * c[2] + 4 * c[4] + 8 * c[8]
                  + 16 * c[16] + 32 * c[32] + 64 * c[64] + 128 * c[128]
  <2> HIDE DEF c
  <2> QED BY <1>1, <1>2, XorOctetSum
<1> QED BY <1>3 DEF Weights

\* (x ^ 0x78) ^ ~x does not depend on x.
LEMMA XorTwice ==
  ASSUME NEW x \in Octet
  PROVE  XorOctet[XorOctet[x][120]][255 - x] = 135
<1> DEFINE c == [w \in Weights |-> (1 + 120 \div w) % 2]
           z == XorOctet[x][120]
<1>1. 120 \in Octet /\ z \in Octet /\ 255 - x \in Octet
  <2>1. 120 \in Octet /\ 255 - x \in Octet
    BY DEF Octet
  <2> QED BY <2>1, XorOctetBits
<1>2. ASSUME NEW w \in Weights PROVE XorBit(z, 255 - x, w) = c[w]
  <2> DEFINE a == x \div w
             b == (255 - x) \div w
             d == z \div w
             e == 120 \div w
  <2>1. d % 2 = (a + e) % 2
    BY <1>1, XorOctetBits DEF XorBit
  <2>2. (a + b) % 2 = 1
    BY Complement
  <2>3. a \in Nat /\ b \in Nat /\ d \in Nat /\ e \in Nat
    BY <1>1, DivType
  <2>4. XorBit(z, 255 - x, w) = (d + b) % 2 /\ c[w] = (1 + e) % 2
    BY DEF XorBit
  <2> HIDE DEF a, b, c, d, e
  <2> QED BY <2>1, <2>2, <2>3, <2>4
<1>3. /\ c[1] = 1 /\ c[2] = 1 /\ c[4] = 1 /\ c[8] = 0
      /\ c[16] = 0 /\ c[32] = 0 /\ c[64] = 0 /\ c[128] = 1
  BY DEF Weights
<1>4. c \in [Weights -> {0, 1}]
  BY <1>3 DEF Weights
<1>5. XorOctet[z][255 - x] = c[1] + 2 * c[2] + 4 * c[4] + 8 * c[8]
                  + 16 * c[16] + 32 * c[32] + 64 * c[64] + 128 * c[128]
  <2> HIDE DEF c, z
  <2> QED BY <1>1, <1>2, <1>4, XorOctetSum
<1> QED BY <1>3, <1>5

\* x ^ y of two registers is a register.
LEMMA XorType ==
  ASSUME NEW x \in Register, NEW y \in Register
  PROVE  XorWord(x, y) \in Register
<1>1. /\ XorOctet[x \div 256][y \div 256] \in Octet
      /\ XorOctet[x % 256][y % 256] \in Octet
  BY HalvesType, XorOctetBits
<1> QED BY <1>1, WordType DEF XorWord

\* The register stays one, whatever octet it takes.
LEMMA FcsType ==
  ASSUME NEW fcs \in Register, NEW v \in Octet
  PROVE  fcs16(fcs, v) \in Register
<1>1. XorOctet[fcs % 256][v] \in Octet
  BY HalvesType, XorOctetBits
<1>2. \A k \in Octet : k + 1 \in 1 .. 256
  BY DEF Octet
<1>3. fcstab[XorOctet[fcs % 256][v] + 1] \in Register
  BY <1>1, <1>2, TableType
<1> QED BY <1>3, HalvesType, XorType DEF fcs16

\* The checksum of a frame: two octets, the low one first.
LEMMA FcsOctetsType ==
  ASSUME NEW fcs \in Register
  PROVE  /\ FcsOctets(fcs) = <<255 - (fcs % 256), 255 - (fcs \div 256)>>
         /\ FcsOctets(fcs) \in Seq(Octet)
<1> DEFINE h == fcs \div 256
           l == fcs % 256
<1>1. h \in Octet /\ l \in Octet /\ fcs = 256 * h + l
  <2>1. fcs \in Nat
    BY DEF Register
  <2>2. \A k \in Nat : k = 256 * (k \div 256) + (k % 256)
    OBVIOUS
  <2> QED BY <2>1, <2>2, HalvesType
<1> HIDE DEF h, l
<1>2. /\ (65535 - (256 * h + l)) % 256 = 255 - l
      /\ (65535 - (256 * h + l)) \div 256 = 255 - h
      /\ 255 - l \in Octet /\ 255 - h \in Octet
  BY <1>1 DEF Octet
<1>3. FcsOctets(fcs) = <<255 - l, 255 - h>>
  BY <1>1, <1>2 DEF FcsOctets
<1>4. <<255 - l, 255 - h>> \in Seq(Octet)
  BY <1>2
<1> QED BY <1>3, <1>4 DEF h, l

\* The register takes its own inverted value, low octet first, and is left with
\* FCS16_GOOD_VALUE whatever it held: what the decoder tests is sound.
LEMMA Residue ==
  ASSUME NEW fcs \in Register
  PROVE  LET last == FcsOctets(fcs)
         IN  fcs16(fcs16(fcs, last[1]), last[2]) = FcsGood
<1> DEFINE h == fcs \div 256
           l == fcs % 256
           z == XorOctet[h][120]
<1>1. h \in Octet /\ l \in Octet
  BY HalvesType
<1>2. FcsOctets(fcs)[1] = 255 - l /\ FcsOctets(fcs)[2] = 255 - h
  <2>1. FcsOctets(fcs) = <<255 - l, 255 - h>>
    BY FcsOctetsType
  <2> HIDE DEF l, h
  <2> QED BY <2>1
<1>3. fcstab[256] = 3960 /\ fcstab[136] = 61623
  BY DEF fcstab
<1>4. /\ 0 \in Octet /\ 15 \in Octet /\ 120 \in Octet /\ 240 \in Octet /\ 183 \in Octet
      /\ h \div 256 = 0 /\ h % 256 = h
  BY <1>1 DEF Octet
<1>5. XorOctet[0][15] = 15 /\ XorOctet[0][240] = 240 /\ XorOctet[15][183] = 184
  BY <1>4 DEF XorOctet, XorBit
<1>6. fcs16(fcs, 255 - l) = 256 * 15 + z
  <2>1. XorOctet[l][255 - l] + 1 = 256
    BY <1>1, XorComplement
  <2>2. 3960 \div 256 = 15 /\ 3960 % 256 = 120
    OBVIOUS
  <2> QED BY <2>1, <2>2, <1>3, <1>4, <1>5 DEF fcs16, XorWord
<1>7. z \in Octet
  BY <1>1, <1>4, XorOctetBits
<1>8. (256 * 15 + z) % 256 = z /\ (256 * 15 + z) \div 256 = 15
  BY <1>4, <1>7, WordType
<1>9. fcs16(256 * 15 + z, 255 - h) = FcsGood
  <2>1. XorOctet[z][255 - h] + 1 = 136
    BY <1>1, XorTwice
  <2>2. 61623 \div 256 = 240 /\ 61623 % 256 = 183 /\ 15 \div 256 = 0 /\ 15 % 256 = 15
    OBVIOUS
  <2> HIDE DEF z, h
  <2> QED BY <2>1, <2>2, <1>3, <1>5, <1>8 DEF fcs16, XorWord, FcsGood
<1> QED BY <1>2, <1>6, <1>9

\* The checksum of yahdlc_frame_data is the one yahdlc_get_data looks for: proved for
\* all values of the register, where the run counts them.
THEOREM ResidueCorrect == Spec => []GoodResidue
<1>1. 0 .. 256 * 256 - 1 \subseteq Register
  BY DEF Register
<1>2. GoodResidue
  BY <1>1, Residue DEF GoodResidue
<1> QED BY <1>2, PTL

-----------------------------------------------------------------------------
(* The loops of the encoder *)

\* A function whose steps stay in S has its values there.
LEMMA RecursionType ==
  ASSUME NEW n \in Nat, NEW S, NEW g, g[0] \in S,
         \A k \in 1 .. n : g[k - 1] \in S => g[k] \in S
  PROVE  \A k \in 0 .. n : g[k] \in S
<1> DEFINE T == {k \in Nat : k <= n => g[k] \in S}
<1>1. 0 \in T
  OBVIOUS
<1>2. ASSUME NEW k \in Nat, k \in T PROVE k + 1 \in T
  BY <1>2
<1>3. Nat \subseteq T
  <2> HIDE DEF T
  <2> QED BY <1>1, <1>2, Induction
<1> QED BY <1>3

\* An escaped octet is an octet, and escaping undoes itself.
LEMMA FlipType ==
  ASSUME NEW v \in Octet
  PROVE  Flip(v) \in Octet /\ Flip(Flip(v)) = v
BY DEF Flip, Octet

\* What yahdlc_escape_value puts on the line holds no flag, and the decoder's way
\* of undoing it gives the octet back.
THEOREM EscapeReversible ==
  ASSUME NEW v \in Octet
  PROVE  LET escaped == yahdlc_escape_value(v)
         IN  \/ escaped = <<v>> /\ v \notin {Flag, Escape}
             \/ /\ escaped = <<Escape, Flip(v)>> /\ v \in {Flag, Escape}
                /\ Flip(v) \notin {Flag, Escape} /\ Flip(Flip(v)) = v
BY FlipType DEF yahdlc_escape_value, Flip, Flag, Escape

\* The loop of the encoder that keeps the register: each octet is one step of it.
LEMMA RegistersLaw ==
  ASSUME NEW octets \in Seq(Octet)
  PROVE  /\ Registers(octets) \in [0 .. Len(octets) -> Register]
         /\ Registers(octets)[0] = FcsInit
         /\ \A k \in 1 .. Len(octets) :
              Registers(octets)[k] = fcs16(Registers(octets)[k - 1], octets[k])
<1> DEFINE n == Len(octets)
           Law(f) == f = [k \in 0 .. n |-> IF k = 0 THEN FcsInit
                                           ELSE fcs16(f[k - 1], octets[k])]
           step == [k \in 1 .. n |-> [x \in Register |-> fcs16(x, octets[k])]]
           g == CHOOSE f : Law(f)
<1>1. n \in Nat /\ FcsInit \in Register /\ \A k \in 1 .. n : octets[k] \in Octet
  BY LenProperties, ElementOfSeq DEF FcsInit, Register
<1>2. \A k \in 1 .. n, x \in Register : fcs16(x, octets[k]) \in Register
  BY <1>1, FcsType
<1>3. step \in [1 .. n -> [Register -> Register]]
  BY <1>2
<1>4. \E f : Law(f)
  <2>1. PICK f \in [0 .. n -> Register] : Recursion(f, n, FcsInit, step)
    <3> HIDE DEF step, n
    <3> QED BY <1>1, <1>3, RecursionExists
  <2>2. ASSUME NEW k \in 1 .. n PROVE f[k] = fcs16(f[k - 1], octets[k])
    <3>1. k - 1 \in 0 .. n
      BY <1>1
    <3>2. f[k - 1] \in Register
      BY <3>1
    <3>3. step[k][f[k - 1]] = fcs16(f[k - 1], octets[k])
      BY <3>2
    <3> QED BY <2>1, <3>3 DEF Recursion
  <2>3. \A k \in 0 .. n : f[k] = IF k = 0 THEN FcsInit ELSE fcs16(f[k - 1], octets[k])
    BY <1>1, <2>1, <2>2 DEF Recursion
  <2>4. Law(f)
    BY <2>3
  <2> QED BY <2>4
<1>5. Law(g)
  <2> HIDE DEF Law
  <2> QED BY <1>4
<1>6. Registers(octets) = g
  BY Zenon DEF Registers
<1> HIDE DEF g, n
<1>7. g[0] = FcsInit /\ \A k \in 1 .. n : g[k] = fcs16(g[k - 1], octets[k])
  BY <1>1, <1>5
<1>8. \A k \in 0 .. n : g[k] \in Register
  BY <1>1, <1>2, <1>7, RecursionType
<1>9. g \in [0 .. n -> Register]
  BY <1>5, <1>8
<1> QED BY <1>6, <1>7, <1>9 DEF n

FlagFree == {s \in Seq(Octet) : \A i \in 1 .. Len(s) : s[i] # Flag}

\* The loop of the encoder that escapes: no flag is put on the line.
LEMMA EscapedLaw ==
  ASSUME NEW octets \in Seq(Octet)
  PROVE  /\ Escaped(octets) \in [0 .. Len(octets) -> FlagFree]
         /\ Escaped(octets)[0] = <<>>
         /\ \A k \in 1 .. Len(octets) :
              Escaped(octets)[k] = Escaped(octets)[k - 1] \o yahdlc_escape_value(octets[k])
<1> DEFINE n == Len(octets)
           Law(f) == f = [k \in 0 .. n |-> IF k = 0 THEN <<>>
                                ELSE f[k - 1] \o yahdlc_escape_value(octets[k])]
           step == [k \in 1 .. n |-> [x \in FlagFree |-> x \o yahdlc_escape_value(octets[k])]]
           g == CHOOSE f : Law(f)
<1>1. n \in Nat /\ <<>> \in FlagFree /\ \A k \in 1 .. n : octets[k] \in Octet
  BY LenProperties, ElementOfSeq DEF FlagFree
<1>2. \A v \in Octet : yahdlc_escape_value(v) \in FlagFree
  <2> SUFFICES ASSUME NEW v \in Octet PROVE yahdlc_escape_value(v) \in FlagFree
    OBVIOUS
  <2>1. Escape \in Octet /\ Escape # Flag /\ Flip(v) \in Octet
    <3>1. Escape \in Octet /\ Escape # Flag
      BY DEF Escape, Flag, Octet
    <3> QED BY <3>1, FlipType
  <2>2. CASE yahdlc_escape_value(v) = <<v>> /\ v \notin {Flag, Escape}
    BY <2>2 DEF FlagFree
  <2>3. CASE yahdlc_escape_value(v) = <<Escape, Flip(v)>> /\ Flip(v) \notin {Flag, Escape}
    BY <2>1, <2>3 DEF FlagFree
  <2> QED BY <2>2, <2>3, EscapeReversible
<1>3. \A x, y \in FlagFree : x \o y \in FlagFree
  <2> SUFFICES ASSUME NEW x \in FlagFree, NEW y \in FlagFree PROVE x \o y \in FlagFree
    OBVIOUS
  <2>1. /\ x \o y \in Seq(Octet) /\ Len(x \o y) = Len(x) + Len(y)
        /\ \A i \in 1 .. Len(x) + Len(y) :
              (x \o y)[i] = IF i <= Len(x) THEN x[i] ELSE y[i - Len(x)]
        /\ Len(x) \in Nat /\ Len(y) \in Nat
    BY ConcatProperties, LenProperties DEF FlagFree
  <2>2. ASSUME NEW i \in 1 .. Len(x) + Len(y) PROVE (x \o y)[i] # Flag
    <3>1. CASE i <= Len(x)
      BY <2>1, <3>1 DEF FlagFree
    <3>2. CASE i > Len(x)
      <4>1. i - Len(x) \in 1 .. Len(y)
        BY <2>1, <3>2
      <4> QED BY <2>1, <3>2, <4>1 DEF FlagFree
    <3> QED BY <2>1, <3>1, <3>2
  <2> QED BY <2>1, <2>2 DEF FlagFree
<1>4. \A k \in 1 .. n, x \in FlagFree : x \o yahdlc_escape_value(octets[k]) \in FlagFree
  BY <1>1, <1>2, <1>3
<1>5. step \in [1 .. n -> [FlagFree -> FlagFree]]
  BY <1>4
<1>6. \E f : Law(f)
  <2>1. PICK f \in [0 .. n -> FlagFree] : Recursion(f, n, <<>>, step)
    <3> HIDE DEF step, n
    <3> QED BY <1>1, <1>5, RecursionExists
  <2>2. ASSUME NEW k \in 1 .. n PROVE f[k] = f[k - 1] \o yahdlc_escape_value(octets[k])
    <3>1. k - 1 \in 0 .. n
      BY <1>1
    <3>2. f[k - 1] \in FlagFree
      BY <3>1
    <3>3. step[k][f[k - 1]] = f[k - 1] \o yahdlc_escape_value(octets[k])
      BY <3>2
    <3> QED BY <2>1, <3>3 DEF Recursion
  <2>3. ASSUME NEW k \in 0 .. n
        PROVE  f[k] = IF k = 0 THEN <<>> ELSE f[k - 1] \o yahdlc_escape_value(octets[k])
    <3>1. CASE k = 0
      BY <2>1, <3>1 DEF Recursion
    <3>2. CASE k # 0
      <4>1. k \in 1 .. n
        BY <1>1, <3>2
      <4> QED BY <2>2, <3>2, <4>1
    <3> QED BY <3>1, <3>2
  <2>4. Law(f)
    BY <2>3
  <2> QED BY <2>4
<1>7. Law(g)
  <2> HIDE DEF Law
  <2> QED BY <1>6
<1>8. Escaped(octets) = g
  BY Zenon DEF Escaped
<1> HIDE DEF g, n
<1>9. g[0] = <<>> /\ \A k \in 1 .. n : g[k] = g[k - 1] \o yahdlc_escape_value(octets[k])
  BY <1>1, <1>7
<1>10. \A k \in 0 .. n : g[k] \in FlagFree
  BY <1>1, <1>4, <1>9, RecursionType
<1>11. g \in [0 .. n -> FlagFree]
  BY <1>7, <1>10
<1> QED BY <1>8, <1>9, <1>11 DEF n
-----------------------------------------------------------------------------
(* What the checksum detects *)

\* Where in fcstab an entry with a given high octet is, counted from 0.
EntryOf == <<
    0,  17,  34,  51,  68,  85, 102, 119, 136, 153, 170, 187, 204, 221, 238, 255,
   16,   1,  50,  35,  84,  69, 118, 103, 152, 137, 186, 171, 220, 205, 254, 239,
   49,  32,  19,   2, 117, 100,  87,  70, 185, 168, 155, 138, 253, 236, 223, 206,
   33,  48,   3,  18, 101, 116,  71,  86, 169, 184, 139, 154, 237, 252, 207, 222,
   98, 115,  64,  81,  38,  55,   4,  21, 234, 251, 200, 217, 174, 191, 140, 157,
  114,  99,  80,  65,  54,  39,  20,   5, 250, 235, 216, 201, 190, 175, 156, 141,
   83,  66, 113,  96,  23,   6,  53,  36, 219, 202, 249, 232, 159, 142, 189, 172,
   67,  82,  97, 112,   7,  22,  37,  52, 203, 218, 233, 248, 143, 158, 173, 188,
  196, 213, 230, 247, 128, 145, 162, 179,  76,  93, 110, 127,   8,  25,  42,  59,
  212, 197, 246, 231, 144, 129, 178, 163,  92,  77, 126, 111,  24,   9,  58,  43,
  245, 228, 215, 198, 177, 160, 147, 130, 125, 108,  95,  78,  57,  40,  27,  10,
  229, 244, 199, 214, 161, 176, 131, 146, 109, 124,  79,  94,  41,  56,  11,  26,
  166, 183, 132, 149, 226, 243, 192, 209,  46,  63,  12,  29, 106, 123,  72,  89,
  182, 167, 148, 133, 242, 227, 208, 193,  62,  47,  28,  13, 122, 107,  88,  73,
  151, 134, 181, 164, 211, 194, 241, 224,  31,  14,  61,  44,  91,  74, 121, 104,
  135, 150, 165, 180, 195, 210, 225, 240,  15,  30,  45,  60,  75,  90, 105, 120 >>


\* No two entries of fcstab have the same high octet.
LEMMA HighOctets ==
  ASSUME NEW x \in Octet, NEW y \in Octet,
         fcstab[x + 1] \div 256 = fcstab[y + 1] \div 256
  PROVE  x = y
<1>1. \A n \in 1 .. 256 : EntryOf[(fcstab[n] \div 256) + 1] = n - 1
  BY SMTT(60) DEF fcstab, EntryOf
<1>2. x \in Nat /\ y \in Nat /\ x + 1 \in 1 .. 256 /\ y + 1 \in 1 .. 256
  BY DEF Octet
<1>3. (x + 1) - 1 = (y + 1) - 1
  BY <1>1, <1>2
<1> QED BY <1>2, <1>3

\* An octet is the sum of its bits.
LEMMA BitsOf ==
  ASSUME NEW x \in Octet
  PROVE  x = ((x \div 1) % 2) + 2 * ((x \div 2) % 2) + 4 * ((x \div 4) % 2)
               + 8 * ((x \div 8) % 2) + 16 * ((x \div 16) % 2) + 32 * ((x \div 32) % 2)
               + 64 * ((x \div 64) % 2) + 128 * ((x \div 128) % 2)
<1>1. x \in Nat /\ x <= 255
  BY DEF Octet
<1>2. \A a \in Nat : a = 2 * (a \div 2) + (a % 2)
  OBVIOUS
<1>3. /\ x \div 1 = x /\ (x \div 2) \div 2 = x \div 4 /\ (x \div 4) \div 2 = x \div 8
      /\ (x \div 8) \div 2 = x \div 16 /\ (x \div 16) \div 2 = x \div 32
      /\ (x \div 32) \div 2 = x \div 64 /\ (x \div 64) \div 2 = x \div 128
      /\ (x \div 128) \div 2 = 0
  BY <1>1
<1>4. /\ x \div 2 \in Nat /\ x \div 4 \in Nat /\ x \div 8 \in Nat /\ x \div 16 \in Nat
      /\ x \div 32 \in Nat /\ x \div 64 \in Nat /\ x \div 128 \in Nat
  BY <1>1
<1> DEFINE a == x \div 2
           b == x \div 4
           c == x \div 8
           d == x \div 16
           e == x \div 32
           f == x \div 64
           g == x \div 128
<1>5. /\ a \in Nat /\ b \in Nat /\ c \in Nat /\ d \in Nat /\ e \in Nat /\ f \in Nat /\ g \in Nat
      /\ x \div 1 = x /\ a \div 2 = b /\ b \div 2 = c /\ c \div 2 = d /\ d \div 2 = e
      /\ e \div 2 = f /\ f \div 2 = g /\ g \div 2 = 0
  BY <1>3, <1>4
<1>6. x = 2 * a + (x % 2)
  BY <1>1, <1>2
<1> HIDE DEF a, b, c, d, e, f, g
<1>7. /\ a = 2 * b + (a % 2) /\ b = 2 * c + (b % 2) /\ c = 2 * d + (c % 2)
      /\ d = 2 * e + (d % 2) /\ e = 2 * f + (e % 2) /\ f = 2 * g + (f % 2)
      /\ g = g % 2
  BY <1>2, <1>5
<1>8. /\ x % 2 \in Nat /\ a % 2 \in Nat /\ b % 2 \in Nat /\ c % 2 \in Nat
      /\ d % 2 \in Nat /\ e % 2 \in Nat /\ f % 2 \in Nat /\ g % 2 \in Nat
  BY <1>1, <1>5
<1>9. x = (x % 2) + 2 * (a % 2) + 4 * (b % 2) + 8 * (c % 2) + 16 * (d % 2) + 32 * (e % 2)
            + 64 * (f % 2) + 128 * (g % 2)
  BY <1>1, <1>5, <1>6, <1>7, <1>8
<1> QED BY <1>5, <1>9 DEF a, b, c, d, e, f, g

\* Octets with the same bits are the same.
LEMMA SameBits ==
  ASSUME NEW x \in Octet, NEW y \in Octet,
         \A w \in Weights : (x \div w) % 2 = (y \div w) % 2
  PROVE  x = y
<1>1. /\ (x \div 1) % 2 = (y \div 1) % 2 /\ (x \div 2) % 2 = (y \div 2) % 2
      /\ (x \div 4) % 2 = (y \div 4) % 2 /\ (x \div 8) % 2 = (y \div 8) % 2
      /\ (x \div 16) % 2 = (y \div 16) % 2 /\ (x \div 32) % 2 = (y \div 32) % 2
      /\ (x \div 64) % 2 = (y \div 64) % 2 /\ (x \div 128) % 2 = (y \div 128) % 2
  BY DEF Weights
<1> QED BY <1>1, BitsOf, Zenon

\* x ^ z tells x apart, and z.
LEMMA XorCancels ==
  ASSUME NEW x \in Octet, NEW y \in Octet, NEW z \in Octet
  PROVE  /\ XorOctet[x][z] = XorOctet[y][z] => x = y
         /\ XorOctet[z][x] = XorOctet[z][y] => x = y
<1>1. ASSUME NEW w \in Weights, XorBit(x, z, w) = XorBit(y, z, w) \/ XorBit(z, x, w) = XorBit(z, y, w)
      PROVE  (x \div w) % 2 = (y \div w) % 2
  <2> DEFINE a == x \div w
             b == y \div w
             c == z \div w
  <2>1. a \in Nat /\ b \in Nat /\ c \in Nat
    BY DivType
  <2>2. (a + c) % 2 = (b + c) % 2 \/ (c + a) % 2 = (c + b) % 2
    BY <1>1 DEF XorBit
  <2> HIDE DEF a, b, c
  <2>3. a % 2 = b % 2
    BY <2>1, <2>2
  <2> QED BY <2>3 DEF a, b
<1>2. /\ \A w \in Weights : (XorOctet[x][z] \div w) % 2 = XorBit(x, z, w)
      /\ \A w \in Weights : (XorOctet[y][z] \div w) % 2 = XorBit(y, z, w)
      /\ \A w \in Weights : (XorOctet[z][x] \div w) % 2 = XorBit(z, x, w)
      /\ \A w \in Weights : (XorOctet[z][y] \div w) % 2 = XorBit(z, y, w)
  BY XorOctetBits
<1>3. ASSUME XorOctet[x][z] = XorOctet[y][z] \/ XorOctet[z][x] = XorOctet[z][y] PROVE x = y
  <2>1. \A w \in Weights : XorBit(x, z, w) = XorBit(y, z, w) \/ XorBit(z, x, w) = XorBit(z, y, w)
    BY <1>2, <1>3
  <2>2. \A w \in Weights : (x \div w) % 2 = (y \div w) % 2
    BY <1>1, <2>1
  <2> QED BY <2>2, SameBits
<1> QED BY <1>3

\* What a step of the register shows of it and of the octet: the low half of the register
\* and the octet pick an entry of fcstab, and the high half is added to the low one.
LEMMA StepHalves ==
  ASSUME NEW r \in Register, NEW v \in Octet
  PROVE  LET entry == fcstab[XorOctet[r % 256][v] + 1]
         IN  /\ XorOctet[r % 256][v] \in Octet /\ entry \in Register
             /\ fcs16(r, v) \div 256 = entry \div 256
             /\ fcs16(r, v) % 256 = XorOctet[r \div 256][entry % 256]
<1> DEFINE p == XorOctet[r % 256][v]
           entry == fcstab[p + 1]
           h == r \div 256
<1>1. h \in Octet /\ p \in Octet /\ h \div 256 = 0 /\ h % 256 = h
  <2>1. h \in Octet /\ r % 256 \in Octet
    BY HalvesType
  <2>2. p \in Octet
    BY <2>1, XorOctetBits
  <2> HIDE DEF h, p
  <2> QED BY <2>1, <2>2 DEF Octet
<1>2. entry \in Register
  <2>1. \A k \in Octet : k + 1 \in 1 .. 256
    BY DEF Octet
  <2> QED BY <1>1, <2>1, TableType
<1>3. entry \div 256 \in Octet /\ entry % 256 \in Octet
  BY <1>2, HalvesType
<1> HIDE DEF h, entry
<1>4. fcs16(r, v) = 256 * XorOctet[0][entry \div 256] + XorOctet[h][entry % 256]
  BY <1>1 DEF fcs16, XorWord, h, entry
<1>5. XorOctet[0][entry \div 256] = entry \div 256
  <2> DEFINE e == entry \div 256
  <2>1. 0 \in Octet /\ e \in Octet /\ XorOctet[0][e] \in Octet
    <3>1. 0 \in Octet /\ e \in Octet
      BY <1>3 DEF Octet
    <3> QED BY <3>1, XorOctetBits
  <2>2. ASSUME NEW w \in Weights PROVE (XorOctet[0][e] \div w) % 2 = (e \div w) % 2
    <3>1. (XorOctet[0][e] \div w) % 2 = XorBit(0, e, w)
      BY <2>1, XorOctetBits
    <3>2. 0 \div w = 0
      BY DEF Weights
    <3>3. e \div w \in Nat
      BY <2>1, DivType
    <3>4. 0 + e \div w = e \div w
      <4> DEFINE a == e \div w
      <4> HIDE DEF a
      <4>1. a \in Nat => 0 + a = a
        OBVIOUS
      <4> QED BY <3>3, <4>1 DEF a
    <3> QED BY <3>1, <3>2, <3>4 DEF XorBit
  <2> HIDE DEF e
  <2>3. XorOctet[0][e] = e
    BY <2>1, <2>2, SameBits
  <2> QED BY <2>3 DEF e
<1>6. XorOctet[h][entry % 256] \in Octet
  BY <1>1, <1>3, XorOctetBits
<1>7. /\ fcs16(r, v) \div 256 = entry \div 256
      /\ fcs16(r, v) % 256 = XorOctet[h][entry % 256]
  BY <1>3, <1>4, <1>5, <1>6, WordType
<1> QED BY <1>1, <1>2, <1>7 DEF h, entry

\* A step of the register never takes two registers to one, nor two octets.
LEMMA StepTellsApart ==
  ASSUME NEW r \in Register, NEW q \in Register, NEW v \in Octet, NEW u \in Octet,
         fcs16(r, v) = fcs16(q, u)
  PROVE  /\ r \div 256 = q \div 256
         /\ XorOctet[r % 256][v] = XorOctet[q % 256][u]
         /\ v = u => r = q
         /\ r = q => v = u
<1> DEFINE x == XorOctet[r % 256][v]
           y == XorOctet[q % 256][u]
<1>1. /\ x \in Octet /\ fcstab[x + 1] \in Register
      /\ fcs16(r, v) \div 256 = fcstab[x + 1] \div 256
      /\ fcs16(r, v) % 256 = XorOctet[r \div 256][fcstab[x + 1] % 256]
  BY StepHalves
<1>2. /\ y \in Octet
      /\ fcs16(q, u) \div 256 = fcstab[y + 1] \div 256
      /\ fcs16(q, u) % 256 = XorOctet[q \div 256][fcstab[y + 1] % 256]
  BY StepHalves
<1>3. /\ r % 256 \in Octet /\ r \div 256 \in Octet /\ q % 256 \in Octet /\ q \div 256 \in Octet
      /\ fcstab[x + 1] % 256 \in Octet
  BY <1>1, HalvesType
<1> HIDE DEF x, y
<1>4. x = y
  BY <1>1, <1>2, HighOctets
<1>5. r \div 256 = q \div 256
  BY <1>1, <1>2, <1>3, <1>4, XorCancels
<1>6. ASSUME v = u PROVE r = q
  <2>1. r % 256 = q % 256
    BY <1>3, <1>4, <1>6, XorCancels DEF x, y
  <2>2. r \in Nat /\ q \in Nat
    BY DEF Register
  <2>3. \A k \in Nat : k = 256 * (k \div 256) + (k % 256)
    OBVIOUS
  <2> QED BY <1>5, <2>1, <2>2, <2>3
<1>7. ASSUME r = q PROVE v = u
  BY <1>3, <1>4, <1>7, XorCancels DEF x, y
<1> QED BY <1>4, <1>5, <1>6, <1>7 DEF x, y

\* Two steps of the register tell two pairs of octets apart.
LEMMA TwoStepsTellApart ==
  ASSUME NEW r \in Register, NEW a \in Octet, NEW b \in Octet, NEW c \in Octet, NEW d \in Octet,
         fcs16(fcs16(r, a), b) = fcs16(fcs16(r, c), d)
  PROVE  a = c /\ b = d
<1> DEFINE p == fcs16(r, a)
           q == fcs16(r, c)
<1>1. p \in Register /\ q \in Register
  BY FcsType
<1>2. p \div 256 = q \div 256
  <2> HIDE DEF p, q
  <2>1. fcs16(p, b) = fcs16(q, d)
    BY DEF p, q
  <2> QED BY <1>1, <2>1, StepTellsApart
<1>3. a = c
  <2> DEFINE x == XorOctet[r % 256][a]
             y == XorOctet[r % 256][c]
  <2>1. x \in Octet /\ p \div 256 = fcstab[x + 1] \div 256
    BY StepHalves
  <2>2. y \in Octet /\ q \div 256 = fcstab[y + 1] \div 256
    BY StepHalves
  <2> HIDE DEF p, q, x, y
  <2>3. x = y
    BY <1>2, <2>1, <2>2, HighOctets
  <2>4. r % 256 \in Octet
    BY HalvesType
  <2> QED BY <2>3, <2>4, XorCancels DEF x, y
<1>4. fcs16(p, b) = fcs16(p, d)
  BY <1>3
<1>5. b = d
  <2> HIDE DEF p
  <2> QED BY <1>1, <1>4, StepTellsApart
<1> QED BY <1>3, <1>5

\* The sequences are as long, and differ in octet k, or in the one behind, or in both.
ShortBurst(s, t, k) ==
  /\ Len(s) = Len(t) /\ s # t
  /\ \A i \in 1 .. Len(s) : s[i] # t[i] => i = k \/ i = k + 1

\* One octet or two neighbouring ones that are wrong never leave the register as they
\* found it, whatever the frame and wherever in it: the checksum detects them.
THEOREM BurstDetected ==
  ASSUME NEW s \in Seq(Octet), NEW t \in Seq(Octet), NEW k \in 1 .. Len(s), ShortBurst(s, t, k)
  PROVE  Registers(s)[Len(s)] # Registers(t)[Len(t)]
<1> DEFINE n == Len(s)
           R == Registers(s)
           Q == Registers(t)
<1>1. /\ n \in Nat /\ Len(t) = n /\ k \in Nat /\ 1 <= k /\ k <= n
      /\ \A i \in 1 .. n : s[i] \in Octet /\ t[i] \in Octet
      /\ \A i \in 1 .. n : s[i] # t[i] => i = k \/ i = k + 1
  BY LenProperties, ElementOfSeq DEF ShortBurst
<1>2. /\ \A i \in 0 .. n : R[i] \in Register /\ Q[i] \in Register
      /\ R[0] = Q[0]
      /\ \A i \in 1 .. n : R[i] = fcs16(R[i - 1], s[i]) /\ Q[i] = fcs16(Q[i - 1], t[i])
  BY <1>1, RegistersLaw
<1>3. \E m \in 1 .. n : s[m] # t[m]
  BY <1>1 DEF ShortBurst
<1> HIDE DEF n, R, Q
<1>4. R[k - 1] = Q[k - 1]
  <2> DEFINE T == {i \in Nat : i <= k - 1 => R[i] = Q[i]}
  <2>1. 0 \in T
    BY <1>2
  <2>2. ASSUME NEW i \in Nat, i \in T PROVE i + 1 \in T
    <3> SUFFICES ASSUME i + 1 <= k - 1 PROVE R[i + 1] = Q[i + 1]
      OBVIOUS
    <3>1. i + 1 \in 1 .. n /\ (i + 1) - 1 = i /\ i + 1 # k /\ i + 1 # k + 1
      BY <1>1
    <3>2. R[i] = Q[i] /\ s[i + 1] = t[i + 1]
      BY <1>1, <2>2, <3>1
    <3> QED BY <1>2, <3>1, <3>2
  <2>3. Nat \subseteq T
    <3> HIDE DEF T
    <3> QED BY <2>1, <2>2, Induction
  <2>4. k - 1 \in Nat
    BY <1>1
  <2> QED BY <2>3, <2>4
\* Behind the octets that differ the registers do, and so they stay.
<1>5. PICK m \in 1 .. n : R[m] # Q[m] /\ \A i \in 1 .. n : i > m => s[i] = t[i]
  <2>1. k \in 1 .. n /\ k - 1 \in 0 .. n
    BY <1>1
  <2>2. /\ R[k - 1] \in Register /\ R[k] = fcs16(R[k - 1], s[k])
        /\ Q[k] = fcs16(R[k - 1], t[k])
    BY <1>2, <1>4, <2>1
  <2>3. CASE k = n
    <3>1. s[k] # t[k]
      BY <1>1, <1>3, <2>3
    <3>2. R[k] # Q[k]
      BY <1>1, <2>1, <2>2, <3>1, StepTellsApart
    <3> QED BY <1>1, <2>1, <2>3, <3>2
  <2>4. CASE k < n
    <3>1. k + 1 \in 1 .. n /\ (k + 1) - 1 = k
      BY <1>1, <2>4
    <3>2. s[k] # t[k] \/ s[k + 1] # t[k + 1]
      BY <1>1, <1>3
    <3>3. /\ R[k + 1] = fcs16(fcs16(R[k - 1], s[k]), s[k + 1])
          /\ Q[k + 1] = fcs16(fcs16(R[k - 1], t[k]), t[k + 1])
      BY <1>2, <2>2, <3>1
    <3>4. s[k] \in Octet /\ t[k] \in Octet /\ s[k + 1] \in Octet /\ t[k + 1] \in Octet
      BY <1>1, <2>1, <3>1
    <3>5. R[k + 1] # Q[k + 1]
      BY <2>2, <3>2, <3>3, <3>4, TwoStepsTellApart
    <3>6. \A i \in 1 .. n : i > k + 1 => s[i] = t[i]
      BY <1>1
    <3> QED BY <3>1, <3>5, <3>6
  <2> QED BY <1>1, <2>3, <2>4
<1>6. R[n] # Q[n]
  <2> DEFINE T == {i \in Nat : m + i <= n => R[m + i] # Q[m + i]}
  <2>1. 0 \in T
    BY <1>1, <1>5
  <2>2. ASSUME NEW i \in Nat, i \in T PROVE i + 1 \in T
    <3> SUFFICES ASSUME m + (i + 1) <= n PROVE R[m + (i + 1)] # Q[m + (i + 1)]
      OBVIOUS
    <3> DEFINE j == m + (i + 1)
    <3>1. j \in 1 .. n /\ j - 1 = m + i /\ j - 1 \in 0 .. n /\ j > m
      BY <1>1, <1>5
    <3>2. R[j - 1] # Q[j - 1] /\ R[j - 1] \in Register /\ Q[j - 1] \in Register
      BY <1>1, <1>2, <2>2, <3>1
    <3>3. /\ R[j] = fcs16(R[j - 1], s[j]) /\ Q[j] = fcs16(Q[j - 1], t[j])
          /\ s[j] = t[j] /\ s[j] \in Octet
      BY <1>1, <1>2, <1>5, <3>1
    <3> HIDE DEF j
    <3>4. R[j] # Q[j]
      BY <3>2, <3>3, StepTellsApart
    <3> QED BY <3>4 DEF j
  <2>3. Nat \subseteq T
    <3> HIDE DEF T
    <3> QED BY <2>1, <2>2, Induction
  <2>4. n - m \in Nat /\ m + (n - m) = n
    BY <1>1, <1>5
  <2> QED BY <1>1, <2>3, <2>4
<1> QED BY <1>1, <1>6 DEF n, R, Q
-----------------------------------------------------------------------------
(* Frames and their lines *)

Sound(f) ==
  /\ f \in Message /\ f.control \in Sendable
  /\ f.control.frame # "DATA" => f.data = <<>>
  /\ Len(f.data) + 2 < MaxFrameLen

\* The control octet carries what a station sends: both numbers of a DATA frame, the
\* one number of an ACK or NACK.
THEOREM ControlReversible ==
  ASSUME NEW c \in Sendable
  PROVE  /\ yahdlc_frame_control_type(c) \in Octet
         /\ yahdlc_get_control_type(yahdlc_frame_control_type(c)) = c
<1> DEFINE n == c.send_seq_no
           m == c.recv_seq_no
<1>1. /\ n \in 0 .. 7 /\ m \in 0 .. 7
      /\ c = [frame |-> c.frame, send_seq_no |-> n, recv_seq_no |-> m]
  BY DEF Sendable, ControlField
<1>2. CASE c.frame = "DATA"
  <2> DEFINE b == 2 * n + 32 * m + 16
  <2>1. b \in Octet /\ b % 2 = 0 /\ b \div 32 = m /\ (b \div 2) % 8 = n
    BY <1>1 DEF Octet
  <2>2. yahdlc_frame_control_type(c) = b
    BY <1>2 DEF yahdlc_frame_control_type
  <2>3. yahdlc_get_control_type(b) =
          [[NoControl EXCEPT !.recv_seq_no = b \div 32] EXCEPT !.send_seq_no = (b \div 2) % 8]
    <3> HIDE DEF b
    <3>1. b % 4 # 3 /\ b % 4 # 1
      BY <2>1 DEF Octet
    <3> QED BY <2>1, <3>1 DEF yahdlc_get_control_type
  <2> HIDE DEF b
  <2> QED BY <1>1, <1>2, <2>1, <2>2, <2>3 DEF NoControl
<1>3. CASE c.frame \in {"ACK", "NACK"}
  <2> DEFINE b == IF c.frame = "ACK" THEN 32 * m + 1 ELSE 32 * m + 9
  <2>1. /\ b \in Octet /\ b % 2 = 1 /\ b % 4 = 1 /\ b \div 32 = m
        /\ ((b \div 4) % 4 = 0) <=> c.frame = "ACK"
    BY <1>1, <1>3 DEF Octet
  <2>2. yahdlc_frame_control_type(c) = b
    BY <1>3 DEF yahdlc_frame_control_type
  <2>3. n = 0
    BY <1>3 DEF Sendable
  <2>4. yahdlc_get_control_type(b) =
          [[NoControl EXCEPT !.recv_seq_no = b \div 32] EXCEPT !.frame = c.frame]
    <3> HIDE DEF b
    <3>1. b % 2 # 0 /\ b % 4 # 3
      BY <2>1
    <3> QED BY <1>3, <2>1, <3>1 DEF yahdlc_get_control_type
  <2> HIDE DEF b
  <2> QED BY <1>1, <1>3, <2>1, <2>2, <2>3, <2>4 DEF NoControl
<1>4. CASE c.frame \in {"CONN", "CONN_ACK"}
  <2>1. n = 0 /\ m = 0
    BY <1>4 DEF Sendable
  <2>2. yahdlc_frame_control_type(c) = IF c.frame = "CONN" THEN 63 ELSE 99
    BY <1>4 DEF yahdlc_frame_control_type
  <2> QED BY <1>1, <1>4, <2>1, <2>2 DEF yahdlc_get_control_type, NoControl, Octet
<1> QED BY <1>2, <1>3, <1>4 DEF Sendable, ControlField, FrameType

\* The register after the first octets does not depend on the ones behind.
LEMMA RegistersOfPrefix ==
  ASSUME NEW s \in Seq(Octet), NEW t \in Seq(Octet)
  PROVE  Registers(s \o t)[Len(s)] = Registers(s)[Len(s)]
<1> DEFINE u == s \o t
           T == {k \in Nat : k <= Len(s) => Registers(u)[k] = Registers(s)[k]}
<1>1. /\ u \in Seq(Octet) /\ Len(s) \in Nat /\ Len(t) \in Nat /\ Len(u) = Len(s) + Len(t)
      /\ \A i \in 1 .. Len(s) : u[i] = s[i]
  BY ConcatProperties, LenProperties
<1> HIDE DEF u
<1>2. 0 \in T
  BY <1>1, RegistersLaw
<1>3. ASSUME NEW k \in Nat, k \in T PROVE k + 1 \in T
  <2> SUFFICES ASSUME k + 1 <= Len(s) PROVE Registers(u)[k + 1] = Registers(s)[k + 1]
    OBVIOUS
  <2>1. Registers(u)[k] = Registers(s)[k] /\ u[k + 1] = s[k + 1]
    BY <1>1, <1>3
  <2>2. Registers(u)[k + 1] = fcs16(Registers(u)[k], u[k + 1])
    <3>1. k + 1 \in 1 .. Len(u) /\ (k + 1) - 1 = k
      BY <1>1
    <3> QED BY <1>1, <3>1, RegistersLaw
  <2>3. Registers(s)[k + 1] = fcs16(Registers(s)[k], s[k + 1])
    <3>1. k + 1 \in 1 .. Len(s) /\ (k + 1) - 1 = k
      BY <1>1
    <3> QED BY <1>1, <3>1, RegistersLaw
  <2> QED BY <2>1, <2>2, <2>3
<1>4. Nat \subseteq T
  <2> HIDE DEF T
  <2> QED BY <1>2, <1>3, Induction
<1> QED BY <1>1, <1>4 DEF u

\* A frame with its checksum: address, control octet, payload, and octets that leave
\* the register with FCS16_GOOD_VALUE.
LEMMA FrameOctets ==
  ASSUME NEW f, Sound(f)
  PROVE  LET octets == WithFcs(f)
         IN  /\ octets \in Seq(Octet) /\ Len(octets) = Len(f.data) + 4
             /\ octets[1] = AllStation
             /\ octets[2] = yahdlc_frame_control_type(f.control)
             /\ \A i \in 1 .. Len(f.data) : octets[i + 2] = f.data[i]
             /\ Registers(octets)[Len(octets)] = FcsGood
<1> DEFINE s == Checked(f)
           R == Registers(s)[Len(s)]
           t == FcsOctets(R)
           head == <<AllStation, yahdlc_frame_control_type(f.control)>>
           octets == WithFcs(f)
<1>1. f.data \in Seq(Octet) /\ Len(f.data) \in Nat
  BY LenProperties DEF Sound, Message
<1>2. s = head \o f.data
  <2>1. head \o <<>> = head
    OBVIOUS
  <2> QED BY <2>1 DEF Checked, Sound
<1>3. /\ head \in Seq(Octet) /\ Len(head) = 2
      /\ head[1] = AllStation /\ head[2] = yahdlc_frame_control_type(f.control)
  <2>1. AllStation \in Octet /\ yahdlc_frame_control_type(f.control) \in Octet
    <3>1. AllStation \in Octet
      BY DEF AllStation, Octet
    <3> QED BY <3>1, ControlReversible DEF Sound
  <2> QED BY <2>1
<1>4. /\ s \in Seq(Octet) /\ Len(s) = Len(f.data) + 2
      /\ s[1] = AllStation /\ s[2] = yahdlc_frame_control_type(f.control)
      /\ \A i \in 1 .. Len(f.data) : s[i + 2] = f.data[i]
  <2> HIDE DEF head, s
  <2>1. /\ s \in Seq(Octet) /\ Len(s) = Len(head) + Len(f.data)
        /\ \A i \in 1 .. Len(head) + Len(f.data) :
             s[i] = IF i <= Len(head) THEN head[i] ELSE f.data[i - Len(head)]
    BY <1>1, <1>2, <1>3, ConcatProperties
  <2>2. ASSUME NEW i \in 1 .. Len(f.data) PROVE s[i + 2] = f.data[i]
    <3>1. i + 2 \in 1 .. 2 + Len(f.data) /\ ~(i + 2 <= 2) /\ (i + 2) - 2 = i
      BY <1>1
    <3> QED BY <1>3, <2>1, <3>1
  <2>3. s[1] = head[1] /\ s[2] = head[2]
    BY <1>1, <1>3, <2>1
  <2> QED BY <1>1, <1>3, <2>1, <2>2, <2>3
<1> HIDE DEF s, head
<1>5. R \in Register
  BY <1>1, <1>4, RegistersLaw
<1>6. t \in Seq(Octet) /\ Len(t) = 2 /\ fcs16(fcs16(R, t[1]), t[2]) = FcsGood
  <2> HIDE DEF R
  <2>1. t \in Seq(Octet) /\ Len(t) = 2
    BY <1>5, FcsOctetsType
  <2> QED BY <1>5, <2>1, Residue
<1> HIDE DEF t
<1>7. octets = s \o t
  BY DEF WithFcs, s, t
<1> HIDE DEF octets
<1>8. /\ octets \in Seq(Octet) /\ Len(octets) = Len(s) + 2
      /\ \A i \in 1 .. Len(s) : octets[i] = s[i]
      /\ octets[Len(s) + 1] = t[1] /\ octets[Len(s) + 2] = t[2]
  <2>1. /\ octets \in Seq(Octet) /\ Len(octets) = Len(s) + Len(t)
        /\ \A i \in 1 .. Len(s) + Len(t) :
             octets[i] = IF i <= Len(s) THEN s[i] ELSE t[i - Len(s)]
    BY <1>4, <1>6, <1>7, ConcatProperties
  <2>2. Len(s) \in Nat
    BY <1>1, <1>4
  <2> QED BY <1>6, <2>1, <2>2
<1>9. Registers(octets)[Len(octets)] = FcsGood
  <2> DEFINE k == Len(s)
  <2>1. Registers(octets)[k] = R
    BY <1>4, <1>6, <1>7, RegistersOfPrefix
  <2>2. k \in Nat /\ k + 1 \in 1 .. Len(octets) /\ k + 2 \in 1 .. Len(octets)
        /\ (k + 1) - 1 = k /\ (k + 2) - 1 = k + 1 /\ Len(octets) = k + 2
    BY <1>1, <1>4, <1>8
  <2>3. Registers(octets)[k + 1] = fcs16(R, t[1])
    BY <1>8, <2>1, <2>2, RegistersLaw
  <2>4. Registers(octets)[k + 2] = fcs16(Registers(octets)[k + 1], t[2])
    BY <1>8, <2>2, RegistersLaw
  <2> QED BY <1>6, <2>2, <2>3, <2>4
<1>10. ASSUME NEW i \in 1 .. Len(f.data) PROVE octets[i + 2] = f.data[i]
  <2>1. i + 2 \in 1 .. Len(s)
    BY <1>1, <1>4
  <2> QED BY <1>4, <1>8, <2>1
<1>11. octets[1] = s[1] /\ octets[2] = s[2]
  BY <1>1, <1>4, <1>8
<1> QED BY <1>4, <1>8, <1>9, <1>10, <1>11 DEF octets

\* What is on the line already stays there.
LEMMA EscapedGrows ==
  ASSUME NEW octets \in Seq(Octet), NEW m \in 0 .. Len(octets), NEW k \in m .. Len(octets)
  PROVE  LET short == Escaped(octets)[m]
             long == Escaped(octets)[k]
         IN  Len(short) <= Len(long) /\ \A i \in 1 .. Len(short) : long[i] = short[i]
<1> DEFINE E == Escaped(octets)
           Grown(a) == Len(E[m]) <= Len(E[a]) /\ \A i \in 1 .. Len(E[m]) : E[a][i] = E[m][i]
           T == {d \in Nat : m + d <= Len(octets) => Grown(m + d)}
<1>1. /\ Len(octets) \in Nat
      /\ \A a \in 0 .. Len(octets) : E[a] \in Seq(Octet) /\ Len(E[a]) \in Nat
  BY LenProperties, EscapedLaw DEF FlagFree
<1>2. 0 \in T
  BY <1>1
<1>3. ASSUME NEW d \in Nat, d \in T PROVE d + 1 \in T
  <2> DEFINE a == m + d
             esc == yahdlc_escape_value(octets[a + 1])
  <2> SUFFICES ASSUME a + 1 <= Len(octets) PROVE Grown(a + 1)
    BY <1>1
  <2>1. a \in 0 .. Len(octets) /\ a + 1 \in 1 .. Len(octets) /\ (a + 1) - 1 = a
    BY <1>1
  <2>2. Grown(a)
    BY <1>3, <2>1
  <2>3. E[a + 1] = E[a] \o esc
    BY <2>1, EscapedLaw
  <2>4. esc \in Seq(Octet)
    <3>1. octets[a + 1] \in Octet /\ Escape \in Octet
      BY <2>1, ElementOfSeq DEF Escape, Octet
    <3> QED BY <3>1, FlipType DEF yahdlc_escape_value
  <2> HIDE DEF E, esc, a
  <2>5. /\ Len(E[a + 1]) = Len(E[a]) + Len(esc) /\ Len(esc) \in Nat
        /\ \A i \in 1 .. Len(E[a]) + Len(esc) :
             E[a + 1][i] = IF i <= Len(E[a]) THEN E[a][i] ELSE esc[i - Len(E[a])]
    BY <1>1, <2>1, <2>3, <2>4, ConcatProperties, LenProperties
  <2>6. Len(E[a]) \in Nat /\ Len(E[m]) \in Nat
    BY <1>1, <2>1
  <2>7. Len(E[m]) <= Len(E[a + 1])
    BY <2>2, <2>5, <2>6
  <2>8. ASSUME NEW i \in 1 .. Len(E[m]) PROVE E[a + 1][i] = E[m][i]
    <3>1. i \in 1 .. Len(E[a]) + Len(esc) /\ i <= Len(E[a])
      BY <2>2, <2>5, <2>6
    <3> QED BY <2>2, <2>5, <3>1
  <2> QED BY <2>7, <2>8
<1>4. Nat \subseteq T
  <2> HIDE DEF T
  <2> QED BY <1>2, <1>3, Induction
<1>5. k - m \in Nat /\ m + (k - m) = k /\ k <= Len(octets)
  BY <1>1
<1>6. k - m \in T
  BY <1>4, <1>5
<1> QED BY <1>5, <1>6

Taken(f, m) == 1 + Len(Escaped(WithFcs(f))[m])

\* The line of a frame: two flags and none between them, and what each octet became.
LEMMA LineLaw ==
  ASSUME NEW f, Sound(f)
  PROVE  LET octets == WithFcs(f)
             n == Len(octets)
             line == yahdlc_frame_data(f)
         IN  /\ line \in Seq(Octet) /\ line[1] = Flag /\ line[Len(line)] = Flag
             /\ \A i \in 2 .. Len(line) - 1 : line[i] # Flag
             /\ Taken(f, 0) = 1 /\ Taken(f, n) = Len(line) - 1
             /\ \A m \in 0 .. n : Taken(f, m) \in 1 .. Len(line) - 1
             /\ \A m \in 0 .. n - 1 :
                  \/ /\ octets[m + 1] \notin {Flag, Escape}
                     /\ Taken(f, m + 1) = Taken(f, m) + 1
                     /\ line[Taken(f, m) + 1] = octets[m + 1]
                  \/ /\ octets[m + 1] \in {Flag, Escape}
                     /\ Taken(f, m + 1) = Taken(f, m) + 2
                     /\ line[Taken(f, m) + 1] = Escape
                     /\ line[Taken(f, m) + 2] = Flip(octets[m + 1])
<1> DEFINE octets == WithFcs(f)
           n == Len(octets)
           line == yahdlc_frame_data(f)
           E == Escaped(octets)
           all == E[n]
<1>1. octets \in Seq(Octet) /\ n \in Nat
  BY FrameOctets, LenProperties
<1>2. \A m \in 0 .. n : E[m] \in FlagFree /\ E[m] \in Seq(Octet) /\ Len(E[m]) \in Nat
  BY <1>1, EscapedLaw, LenProperties DEF FlagFree
<1>3. \A m \in 0 .. n : Taken(f, m) = 1 + Len(E[m])
  BY DEF Taken
<1>4. line = <<Flag>> \o all \o <<Flag>>
  BY DEF yahdlc_frame_data
<1>5. <<Flag>> \in Seq(Octet) /\ Len(<<Flag>>) = 1 /\ <<Flag>>[1] = Flag
  BY DEF Flag, Octet
<1>6. all \in FlagFree /\ all \in Seq(Octet) /\ Len(all) \in Nat
  BY <1>1, <1>2
<1>7. /\ line \in Seq(Octet) /\ Len(line) = Len(all) + 2
      /\ line[1] = Flag /\ line[Len(line)] = Flag
      /\ \A i \in 1 .. Len(all) : line[i + 1] = all[i]
  <2> HIDE DEF all, line
  <2> DEFINE front == <<Flag>> \o all
  <2>1. /\ front \in Seq(Octet) /\ Len(front) = 1 + Len(all)
        /\ \A i \in 1 .. 1 + Len(all) : front[i] = IF i <= 1 THEN <<Flag>>[i] ELSE all[i - 1]
    BY <1>5, <1>6, ConcatProperties
  <2>2. line = front \o <<Flag>>
    BY <1>4
  <2> HIDE DEF front
  <2>3. /\ line \in Seq(Octet) /\ Len(line) = Len(front) + 1
        /\ \A i \in 1 .. Len(front) + 1 :
             line[i] = IF i <= Len(front) THEN front[i] ELSE <<Flag>>[i - Len(front)]
    BY <1>5, <2>1, <2>2, ConcatProperties
  <2>4. line[1] = Flag /\ line[Len(line)] = Flag
    BY <1>5, <1>6, <2>1, <2>3
  <2>5. ASSUME NEW i \in 1 .. Len(all) PROVE line[i + 1] = all[i]
    <3>1. i + 1 \in 1 .. 1 + Len(all) /\ ~(i + 1 <= 1) /\ (i + 1) - 1 = i
          /\ i + 1 \in 1 .. Len(front) + 1 /\ i + 1 <= Len(front)
      BY <1>6, <2>1
    <3> QED BY <2>1, <2>3, <3>1
  <2> QED BY <1>6, <2>1, <2>3, <2>4, <2>5
<1> HIDE DEF octets, n, line, E, all
<1>8. ASSUME NEW i \in 2 .. Len(line) - 1 PROVE line[i] # Flag
  <2>1. i - 1 \in 1 .. Len(all) /\ (i - 1) + 1 = i
    BY <1>6, <1>7
  <2> QED BY <1>6, <1>7, <2>1 DEF FlagFree
<1>9. E[0] = <<>>
  BY <1>1, EscapedLaw DEF E, n
<1>10. Taken(f, 0) = 1 /\ Taken(f, n) = Len(line) - 1
  BY <1>1, <1>3, <1>6, <1>7, <1>9 DEF all
<1>11. ASSUME NEW m \in 0 .. n
       PROVE  /\ Len(E[m]) <= Len(all)
              /\ \A i \in 1 .. Len(E[m]) : all[i] = E[m][i]
  <2>1. n \in m .. Len(octets) /\ m \in 0 .. Len(octets)
    BY <1>1 DEF n
  <2> QED BY <1>1, <2>1, EscapedGrows DEF all, E
<1>12. ASSUME NEW m \in 0 .. n PROVE Taken(f, m) \in 1 .. Len(line) - 1
  BY <1>2, <1>3, <1>6, <1>7, <1>11
<1>13. ASSUME NEW m \in 0 .. n - 1
       PROVE  \/ /\ octets[m + 1] \notin {Flag, Escape}
                 /\ Taken(f, m + 1) = Taken(f, m) + 1
                 /\ line[Taken(f, m) + 1] = octets[m + 1]
              \/ /\ octets[m + 1] \in {Flag, Escape}
                 /\ Taken(f, m + 1) = Taken(f, m) + 2
                 /\ line[Taken(f, m) + 1] = Escape
                 /\ line[Taken(f, m) + 2] = Flip(octets[m + 1])
  <2> DEFINE v == octets[m + 1]
             esc == yahdlc_escape_value(v)
             p == Len(E[m])
  <2>1. m \in 0 .. n /\ m + 1 \in 1 .. n /\ m + 1 \in 0 .. n /\ (m + 1) - 1 = m
    BY <1>1
  <2>2. v \in Octet
    BY <1>1, <2>1, ElementOfSeq DEF n
  <2>3. E[m + 1] = E[m] \o esc
    BY <1>1, <2>1, EscapedLaw DEF E, n
  <2>4. /\ p \in Nat /\ E[m] \in Seq(Octet)
        /\ Taken(f, m) = 1 + p /\ Taken(f, m + 1) = 1 + Len(E[m + 1])
    BY <1>2, <1>3, <2>1
  <2> HIDE DEF v, p
  <2>5. ASSUME NEW k \in Nat, esc \in Seq(Octet), Len(esc) = k
        PROVE  /\ Len(E[m + 1]) = p + k
               /\ \A i \in 1 .. k : line[p + i + 1] = esc[i]
    <3> HIDE DEF esc
    <3>1. /\ Len(E[m + 1]) = Len(E[m]) + Len(esc)
          /\ \A i \in 1 .. Len(E[m]) + Len(esc) :
               E[m + 1][i] = IF i <= Len(E[m]) THEN E[m][i] ELSE esc[i - Len(E[m])]
      <4>1. E[m] \in Seq(Octet) /\ esc \in Seq(Octet)
        BY <2>4, <2>5
      <4> QED BY <2>3, <4>1, ConcatProperties
    <3>2. ASSUME NEW i \in 1 .. k PROVE line[p + i + 1] = esc[i]
      <4>1. /\ p + i \in 1 .. Len(E[m]) + Len(esc) /\ ~(p + i <= Len(E[m]))
            /\ (p + i) - Len(E[m]) = i
        BY <2>4, <2>5 DEF p
      <4>2. E[m + 1][p + i] = esc[i]
        BY <3>1, <4>1
      <4>3. p + i \in 1 .. Len(E[m + 1])
        BY <3>1, <4>1
      <4>4. all[p + i] = E[m + 1][p + i] /\ p + i \in 1 .. Len(all)
        BY <1>6, <1>11, <2>1, <4>3
      <4> QED BY <1>7, <4>2, <4>4
    <3> QED BY <2>5, <3>1, <3>2 DEF p
  <2>6. CASE esc = <<v>> /\ v \notin {Flag, Escape}
    <3>1. esc \in Seq(Octet) /\ Len(esc) = 1 /\ esc[1] = v
      BY <2>2, <2>6
    <3>2. Len(E[m + 1]) = p + 1 /\ line[p + 1 + 1] = v
      BY <2>5, <3>1
    <3> QED BY <2>4, <2>6, <3>2 DEF v
  <2>7. CASE esc = <<Escape, Flip(v)>> /\ v \in {Flag, Escape}
    <3>1. esc \in Seq(Octet) /\ Len(esc) = 2 /\ esc[1] = Escape /\ esc[2] = Flip(v)
      <4>1. Escape \in Octet /\ Flip(v) \in Octet
        <5>1. Escape \in Octet
          BY DEF Escape, Octet
        <5> QED BY <2>2, <5>1, FlipType
      <4> QED BY <2>7, <4>1
    <3>2. Len(E[m + 1]) = p + 2 /\ line[p + 1 + 1] = Escape /\ line[p + 2 + 1] = Flip(v)
      BY <2>5, <3>1
    <3> QED BY <2>4, <2>7, <3>2 DEF v
  <2> QED BY <2>2, <2>6, <2>7, EscapeReversible
<1> QED BY <1>7, <1>8, <1>10, <1>12, <1>13 DEF octets, n, line
-----------------------------------------------------------------------------
(* What is left of a line *)

Carried == [value : Octet, of : Nat]
Travelling == Seq(Carried)

\* The next octet of the line is at its offset.
LEMMA PieceNext ==
  ASSUME NEW s \in Travelling, NEW line \in Seq(Octet), NEW j, NEW a \in Nat,
         NEW k \in Nat, k < Len(line), Piece(s, line, j, k, a)
  PROVE  /\ s # <<>> /\ a + 1 \in 1 .. Len(s)
         /\ s[a + 1] = [value |-> line[k + 1], of |-> j]
<1>1. Len(line) \in Nat /\ Len(s) \in Nat
  BY LenProperties DEF Travelling
<1>2. 1 \in 1 .. Len(line) - k
  BY <1>1
<1>3. a + 1 \in 1 .. Len(s)
  BY <1>1 DEF Piece
<1>4. s # <<>>
  BY <1>1, <1>3, EmptySeq DEF Travelling
<1> QED BY <1>2, <1>3, <1>4 DEF Piece

\* An octet is taken: the piece is nearer, or its first octet was.
LEMMA PieceTail ==
  ASSUME NEW s \in Travelling, s # <<>>, NEW line \in Seq(Octet), NEW j, NEW a \in Nat,
         NEW k \in Nat, k < Len(line), Piece(s, line, j, k, a)
  PROVE  /\ a > 0 => Piece(Tail(s), line, j, k, a - 1)
         /\ a = 0 => Piece(Tail(s), line, j, k + 1, 0)
<1>1. /\ Len(line) \in Nat /\ Len(s) \in Nat /\ Len(Tail(s)) = Len(s) - 1
      /\ \A i \in 1 .. Len(s) - 1 : Tail(s)[i] = s[i + 1]
  BY LenProperties, HeadTailProperties DEF Travelling
<1>2. ASSUME a > 0 PROVE Piece(Tail(s), line, j, k, a - 1)
  <2>1. ASSUME NEW i \in 1 .. Len(line) - k
        PROVE  Tail(s)[a - 1 + i] = [value |-> line[k + i], of |-> j]
    <3>1. a - 1 + i \in 1 .. Len(s) - 1 /\ (a - 1 + i) + 1 = a + i
      BY <1>1, <1>2 DEF Piece
    <3> QED BY <1>1, <3>1 DEF Piece
  <2>2. a - 1 + Len(line) - k <= Len(Tail(s))
    BY <1>1, <1>2 DEF Piece
  <2> QED BY <2>1, <2>2 DEF Piece
<1>3. ASSUME a = 0 PROVE Piece(Tail(s), line, j, k + 1, 0)
  <2>1. ASSUME NEW i \in 1 .. Len(line) - (k + 1)
        PROVE  Tail(s)[0 + i] = [value |-> line[k + 1 + i], of |-> j]
    <3>1. i \in 1 .. Len(s) - 1 /\ i + 1 \in 1 .. Len(line) - k
          /\ 0 + i = i /\ k + (i + 1) = k + 1 + i /\ 0 + (i + 1) = i + 1
      BY <1>1, <1>3 DEF Piece
    <3> QED BY <1>1, <1>3, <3>1 DEF Piece
  <2> QED BY <1>1, <1>3, <2>1 DEF Piece
<1> QED BY <1>2, <1>3

\* Octets in front can be thrown away up to where a piece begins.
LEMMA PieceRest ==
  ASSUME NEW s \in Travelling, NEW t \in Travelling, NEW line \in Seq(Octet), NEW j,
         NEW a \in Nat, NEW k \in 0 .. Len(line), Piece(s \o t, line, j, k, a), a >= Len(s)
  PROVE  Piece(t, line, j, k, a - Len(s))
<1>1. /\ s \o t \in Travelling /\ Len(s \o t) = Len(s) + Len(t)
      /\ Len(s) \in Nat /\ Len(t) \in Nat /\ Len(line) \in Nat
      /\ \A i \in 1 .. Len(s) + Len(t) :
            (s \o t)[i] = IF i <= Len(s) THEN s[i] ELSE t[i - Len(s)]
  BY ConcatProperties, LenProperties DEF Travelling
<1>2. ASSUME NEW i \in 1 .. Len(line) - k
      PROVE  t[a - Len(s) + i] = [value |-> line[k + i], of |-> j]
  <2>1. /\ a + i \in 1 .. Len(s) + Len(t) /\ ~(a + i <= Len(s))
        /\ (a + i) - Len(s) = a - Len(s) + i
    BY <1>1 DEF Piece
  <2> QED BY <1>1, <2>1 DEF Piece
<1>3. a - Len(s) + Len(line) - k <= Len(t)
  BY <1>1 DEF Piece
<1> QED BY <1>2, <1>3 DEF Piece

\* Octets of other frames in front can be thrown away.
LEMMA PieceBehind ==
  ASSUME NEW s \in Travelling, NEW t \in Travelling, NEW line \in Seq(Octet), NEW j,
         NEW a \in Nat, NEW k \in Nat, k < Len(line), Piece(s \o t, line, j, k, a),
         \A i \in 1 .. Len(s) : s[i].of # j
  PROVE  a >= Len(s) /\ Piece(t, line, j, k, a - Len(s))
<1>1. /\ s \o t \in Travelling /\ Len(s \o t) = Len(s) + Len(t)
      /\ Len(s) \in Nat /\ Len(t) \in Nat /\ Len(line) \in Nat
      /\ \A i \in 1 .. Len(s) + Len(t) :
            (s \o t)[i] = IF i <= Len(s) THEN s[i] ELSE t[i - Len(s)]
  BY ConcatProperties, LenProperties DEF Travelling
<1>2. a >= Len(s)
  <2> SUFFICES ASSUME a < Len(s) PROVE FALSE
    BY <1>1
  <2>1. (s \o t)[a + 1] = [value |-> line[k + 1], of |-> j]
    <3> DEFINE u == s \o t
    <3>1. u \in Travelling /\ Piece(u, line, j, k, a)
      BY <1>1
    <3> HIDE DEF u
    <3>2. u[a + 1] = [value |-> line[k + 1], of |-> j]
      BY <3>1, PieceNext
    <3> QED BY <3>2 DEF u
  <2>2. a + 1 \in 1 .. Len(s) + Len(t) /\ a + 1 \in 1 .. Len(s)
    BY <1>1
  <2>3. s[a + 1].of = j
    BY <1>1, <2>1, <2>2
  <2> QED BY <2>2, <2>3
<1>3. k \in 0 .. Len(line)
  BY <1>1
<1> QED BY <1>2, <1>3, PieceRest

\* Octets can be put behind.
LEMMA PieceInFront ==
  ASSUME NEW s \in Travelling, NEW t \in Travelling, NEW line \in Seq(Octet), NEW j,
         NEW a \in Nat, NEW k \in 0 .. Len(line), Piece(s, line, j, k, a)
  PROVE  Piece(s \o t, line, j, k, a)
<1>1. /\ Len(s \o t) = Len(s) + Len(t)
      /\ Len(s) \in Nat /\ Len(t) \in Nat /\ Len(line) \in Nat
      /\ \A i \in 1 .. Len(s) + Len(t) :
            (s \o t)[i] = IF i <= Len(s) THEN s[i] ELSE t[i - Len(s)]
  BY ConcatProperties, LenProperties DEF Travelling
<1>2. ASSUME NEW i \in 1 .. Len(line) - k
      PROVE  (s \o t)[a + i] = [value |-> line[k + i], of |-> j]
  <2>1. a + i \in 1 .. Len(s) + Len(t) /\ a + i <= Len(s)
    BY <1>1 DEF Piece
  <2> QED BY <1>1, <2>1 DEF Piece
<1>3. a + Len(line) - k <= Len(s \o t)
  BY <1>1 DEF Piece
<1> QED BY <1>2, <1>3 DEF Piece

\* What happens to the octet x between s and t leaves a piece of a frame whole unless x
\* belongs to it.
LEMMA PieceBeside ==
  ASSUME NEW s \in Travelling, NEW x \in Carried, NEW t \in Travelling, NEW y \in Travelling,
         NEW line \in Seq(Octet), NEW j, x.of # j,
         NEW a \in Nat, NEW k \in Nat, k < Len(line), Piece(s \o (<<x>> \o t), line, j, k, a)
  PROVE  \E b \in Nat : Piece(s \o (y \o t), line, j, k, b) /\ (a = 0 => b = 0)
<1> DEFINE u == s \o (<<x>> \o t)
           v == s \o (y \o t)
           p == Len(s) + 1
<1>1. /\ <<x>> \in Travelling /\ Len(<<x>>) = 1 /\ <<x>>[1] = x
      /\ Len(s) \in Nat /\ Len(t) \in Nat /\ Len(y) \in Nat /\ Len(line) \in Nat
  BY LenProperties DEF Travelling
<1>2. /\ <<x>> \o t \in Travelling /\ Len(<<x>> \o t) = 1 + Len(t)
      /\ \A i \in 1 .. 1 + Len(t) : (<<x>> \o t)[i] = IF i <= 1 THEN <<x>>[i] ELSE t[i - 1]
  BY <1>1, ConcatProperties DEF Travelling
<1>3. /\ y \o t \in Travelling /\ Len(y \o t) = Len(y) + Len(t)
      /\ \A i \in 1 .. Len(y) + Len(t) :
            (y \o t)[i] = IF i <= Len(y) THEN y[i] ELSE t[i - Len(y)]
  BY <1>1, ConcatProperties DEF Travelling
<1>4. /\ u \in Travelling /\ Len(u) = Len(s) + 1 + Len(t)
      /\ \A i \in 1 .. Len(s) : u[i] = s[i]
      /\ u[p] = x
      /\ \A i \in 1 .. Len(t) : u[p + i] = t[i]
  <2> DEFINE xt == <<x>> \o t
  <2> HIDE DEF xt
  <2>1. /\ u \in Travelling /\ Len(u) = Len(s) + Len(xt)
        /\ \A i \in 1 .. Len(s) + Len(xt) : u[i] = IF i <= Len(s) THEN s[i] ELSE xt[i - Len(s)]
    BY <1>2, ConcatProperties DEF Travelling, xt
  <2>2. Len(xt) = 1 + Len(t) /\ xt[1] = x /\ \A i \in 1 .. Len(t) : xt[1 + i] = t[i]
    <3>1. \A i \in 1 .. Len(t) : 1 + i \in 1 .. 1 + Len(t) /\ ~(1 + i <= 1) /\ (1 + i) - 1 = i
      BY <1>1
    <3>2. 1 \in 1 .. 1 + Len(t)
      BY <1>1
    <3> QED BY <1>1, <1>2, <3>1, <3>2 DEF xt
  <2>3. u[p] = x
    <3>1. p \in 1 .. Len(s) + Len(xt) /\ ~(p <= Len(s)) /\ p - Len(s) = 1
      BY <1>1, <2>2
    <3> HIDE DEF u, p
    <3> QED BY <2>1, <2>2, <3>1
  <2>4. ASSUME NEW i \in 1 .. Len(t) PROVE u[p + i] = t[i]
    <3>1. p + i \in 1 .. Len(s) + Len(xt) /\ ~(p + i <= Len(s)) /\ (p + i) - Len(s) = 1 + i
      BY <1>1, <2>2
    <3> HIDE DEF u, p
    <3> QED BY <2>1, <2>2, <3>1
  <2> HIDE DEF u
  <2> QED BY <1>1, <2>1, <2>2, <2>3, <2>4
<1>5. /\ v \in Travelling /\ Len(v) = Len(s) + Len(y) + Len(t)
      /\ \A i \in 1 .. Len(s) : v[i] = s[i]
      /\ \A i \in 1 .. Len(t) : v[Len(s) + Len(y) + i] = t[i]
  <2> DEFINE yt == y \o t
  <2> HIDE DEF yt
  <2>1. /\ v \in Travelling /\ Len(v) = Len(s) + Len(yt)
        /\ \A i \in 1 .. Len(s) + Len(yt) : v[i] = IF i <= Len(s) THEN s[i] ELSE yt[i - Len(s)]
    BY <1>3, ConcatProperties DEF Travelling, yt
  <2>2. Len(yt) = Len(y) + Len(t) /\ \A i \in 1 .. Len(t) : yt[Len(y) + i] = t[i]
    <3>1. \A i \in 1 .. Len(t) : /\ Len(y) + i \in 1 .. Len(y) + Len(t)
                                 /\ ~(Len(y) + i <= Len(y)) /\ (Len(y) + i) - Len(y) = i
      BY <1>1
    <3> QED BY <1>3, <3>1 DEF yt
  <2>3. ASSUME NEW i \in 1 .. Len(t) PROVE v[Len(s) + Len(y) + i] = t[i]
    <3>1. /\ Len(s) + Len(y) + i \in 1 .. Len(s) + Len(yt)
          /\ ~(Len(s) + Len(y) + i <= Len(s))
          /\ (Len(s) + Len(y) + i) - Len(s) = Len(y) + i
      BY <1>1, <2>2
    <3> HIDE DEF v
    <3> QED BY <2>1, <2>2, <3>1
  <2> HIDE DEF v
  <2> QED BY <1>1, <2>1, <2>2, <2>3
<1> HIDE DEF u, v
<1>6. a + Len(line) - k <= Len(u)
      /\ \A i \in 1 .. Len(line) - k : u[a + i] = [value |-> line[k + i], of |-> j]
  BY DEF Piece, u
<1>7. CASE a + Len(line) - k < p
  <2>1. ASSUME NEW i \in 1 .. Len(line) - k PROVE v[a + i] = u[a + i]
    <3>1. a + i \in 1 .. Len(s)
      BY <1>1, <1>7
    <3> QED BY <1>4, <1>5, <3>1
  <2>2. a + Len(line) - k <= Len(v)
    BY <1>1, <1>5, <1>7
  <2>3. Piece(v, line, j, k, a)
    BY <1>6, <2>1, <2>2 DEF Piece
  <2> QED BY <2>3 DEF v
<1>8. CASE a + Len(line) - k >= p
  <2>1. a >= p
    <3> SUFFICES ASSUME a < p PROVE FALSE
      BY <1>1
    <3>1. p - a \in 1 .. Len(line) - k /\ a + (p - a) = p
      BY <1>1, <1>8
    <3>2. u[p] = [value |-> line[k + (p - a)], of |-> j]
      <4> HIDE DEF p
      <4> QED BY <1>6, <3>1
    <3> QED BY <1>4, <3>2
  <2> DEFINE b == a - 1 + Len(y)
  <2>2. b \in Nat /\ a # 0 /\ b + Len(line) - k <= Len(v)
    BY <1>1, <1>4, <1>5, <1>6, <2>1
  <2>3. ASSUME NEW i \in 1 .. Len(line) - k PROVE v[b + i] = u[a + i]
    <3> DEFINE q == a + i - p
    <3>1. q \in 1 .. Len(t) /\ p + q = a + i /\ Len(s) + Len(y) + q = b + i
      BY <1>1, <1>4, <1>6, <2>1
    <3> HIDE DEF q, b, p
    <3> QED BY <1>4, <1>5, <3>1
  <2>4. Piece(v, line, j, k, b)
    <3> HIDE DEF b
    <3> QED BY <1>6, <2>2, <2>3 DEF Piece
  <2> QED BY <2>2, <2>4 DEF v
<1> QED BY <1>1, <1>7, <1>8
-----------------------------------------------------------------------------
(* The decoder *)

\* The inductive invariant: DecoderOK, and octets everywhere on the way to it.
DecoderInv ==
  /\ DecoderOK
  /\ chunk \in Travelling /\ arrived \in Travelling /\ wire \in Travelling
  /\ sent \in Seq(Frames) /\ received \in Seq(Message)

\* A decoder that was reset.
LEMMA ResetType ==
  /\ yahdlc_reset_state \in DecoderState
  /\ Len(yahdlc_reset_state.dest) = 0
  /\ yahdlc_reset_state.frame_byte_index = 0
BY DEF yahdlc_reset_state, DecoderState, FcsInit, Register, Octet

\* Octets on the way are octets, the first one and the others.
LEMMA ChunkType ==
  ASSUME NEW s \in Travelling, s # <<>>
  PROVE  s[1].value \in Octet /\ Tail(s) \in Travelling /\ Head(s) \in Carried
<1>1. Head(s) \in Carried /\ Tail(s) \in Travelling
  BY HeadTailProperties DEF Travelling
<1>2. Len(s) # 0
  BY EmptySeq DEF Travelling
<1>3. 1 \in 1 .. Len(s)
  BY <1>2, LenProperties DEF Travelling
<1>4. s[1] \in Carried
  BY <1>3, ElementOfSeq DEF Travelling
<1> QED BY <1>1, <1>4 DEF Carried

\* What is decoded is a message, whatever the octets were.
LEMMA DecodedType ==
  ASSUME NEW d \in DecoderState
  PROVE  Decoded(d) \in Message
<1> DEFINE b == d.frame_control
<1>1. b \in Octet /\ b \div 32 \in 0 .. 7 /\ (b \div 2) % 8 \in 0 .. 7
  <2>1. b \in Octet
    BY DEF DecoderState
  <2> HIDE DEF b
  <2>2. b \in 0 .. 255
    BY <2>1 DEF Octet
  <2> QED BY <2>1, <2>2
<1>2. yahdlc_get_control_type(b) \in ControlField
  <2> DEFINE n == b \div 32
  <2> HIDE DEF b
  <2>1. /\ NoControl \in ControlField /\ n \in 0 .. 7
        /\ [NoControl EXCEPT !.recv_seq_no = n] \in ControlField
    BY <1>1 DEF NoControl, ControlField, FrameType
  <2>2. b % 2 = 0 \/ b % 4 = 3 \/ b % 4 = 1
    BY <1>1 DEF Octet
  <2> HIDE DEF n
  <2> QED BY <1>1, <2>1, <2>2 DEF yahdlc_get_control_type, ControlField, FrameType, n
<1>3. SubSeq(d.dest, 1, Len(d.dest) - 2) \in Seq(Octet)
  <2>1. d.dest \in Seq(Octet) /\ Len(d.dest) \in Nat
    BY LenProperties DEF DecoderState
  <2> DEFINE s == d.dest
  <2> HIDE DEF s
  <2>2. s \in Seq(Octet) /\ Len(s) \in Nat
    BY <2>1 DEF s
  <2>3. \A i \in 1 .. Len(s) - 2 : s[i] \in Octet
    BY <2>2, ElementOfSeq
  <2>4. SubSeq(s, 1, Len(s) - 2) \in Seq(Octet)
    BY <2>2, <2>3, SubSeqProperties
  <2> QED BY <2>4 DEF s
<1> QED BY <1>2, <1>3 DEF Decoded, Message

\* A frame on the line.
LEMMA LabelledType ==
  ASSUME NEW s \in Seq(Octet), NEW k \in Nat
  PROVE  [i \in DOMAIN s |-> [value |-> s[i], of |-> k]] \in Travelling
<1>1. Len(s) \in Nat /\ DOMAIN s = 1 .. Len(s)
  BY LenProperties
<1>2. \A i \in 1 .. Len(s) : [value |-> s[i], of |-> k] \in Carried
  BY <1>1, ElementOfSeq DEF Carried
<1>3. [i \in 1 .. Len(s) |-> [value |-> s[i], of |-> k]] \in Seq(Carried)
  BY <1>1, <1>2
<1> QED BY <1>1, <1>3 DEF Travelling

\* The stations have sent and seen nothing.
LEMMA DecoderInit == Init => DecoderInv
<1> SUFFICES ASSUME Init PROVE DecoderInv
  OBVIOUS
<1>1. <<>> \in Travelling /\ <<>> \in Seq(Frames) /\ <<>> \in Seq(Message)
  BY DEF Travelling
<1>2. DecoderOK
  BY ResetType, LineAssumption DEF Init, DecoderOK
<1> QED BY <1>1, <1>2 DEF Init, DecoderInv

\* Each step of Yahdlc preserves the invariant of the decoder.
LEMMA DecoderStep == DecoderInv /\ [Next]_vars => DecoderInv'
<1> SUFFICES ASSUME DecoderInv, [Next]_vars PROVE DecoderInv'
  OBVIOUS
<1> USE DEF DecoderInv
<1>1. ASSUME yahdlc_state' = yahdlc_reset_state PROVE DecoderOK'
  BY <1>1, ResetType, LineAssumption DEF DecoderOK
<1>2. ASSUME UNCHANGED yahdlc_state PROVE DecoderOK'
  BY <1>2 DEF DecoderOK
<1>3. CASE SkipOctet
  BY <1>2, <1>3, ChunkType DEF SkipOctet, Consume, Elsewhere
<1>4. CASE SkipFlag
  BY <1>2, <1>4, ChunkType DEF SkipFlag, Consume, Elsewhere
<1>5. CASE StartFrame
  <2>1. DecoderOK'
    BY <1>5 DEF StartFrame, DecoderOK, DecoderState
  <2> QED BY <2>1, <1>5, ChunkType DEF StartFrame, Consume, Elsewhere
<1>6. CASE TakeEscape
  <2>1. yahdlc_state \in DecoderState /\ yahdlc_state.length + 1 \in Nat
    BY DEF DecoderOK, DecoderState
  <2>2. yahdlc_state' \in DecoderState
    BY <1>6, <2>1 DEF TakeEscape, DecoderState
  <2>3. /\ yahdlc_state'.dest = yahdlc_state.dest
        /\ yahdlc_state'.frame_byte_index = yahdlc_state.frame_byte_index
    BY <1>6, <2>1 DEF TakeEscape, DecoderState
  <2>4. DecoderOK'
    BY <2>2, <2>3 DEF DecoderOK
  <2> QED BY <2>4, <1>6, ChunkType DEF TakeEscape, Consume, Elsewhere
<1>7. CASE TakeOctet
  <2>1. chunk # <<>> /\ Unescaped \in Octet
    BY <1>7, ChunkType, FlipType DEF TakeOctet, Unescaped, First
  <2> DEFINE d == yahdlc_state
             n == d.frame_byte_index
  <2>2. UNCHANGED <<arrived, wire, sent, received>>
    BY <1>7 DEF TakeOctet, Elsewhere
  <2>3. CASE n > 1 /\ Full(d)
    BY <1>1, <1>7, <2>2, <2>3 DEF TakeOctet
  <2>4. CASE ~(n > 1 /\ Full(d))
    <3>1. /\ yahdlc_state' =
               [d EXCEPT !.control_escape = FALSE, !.length = @ + 1,
                         !.fcs = fcs16(@, Unescaped),
                         !.frame_control = IF n = 1 THEN Unescaped ELSE @,
                         !.dest = IF n > 1 THEN Append(@, Unescaped) ELSE @,
                         !.frame_byte_index = n + 1]
          /\ chunk' = Tail(chunk)
      BY <1>7, <2>4 DEF TakeOctet, Consume
    <3>2. d \in DecoderState
      BY DEF DecoderOK
    <3>3. /\ fcs16(d.fcs, Unescaped) \in Register
          /\ d.dest \in Seq(Octet) /\ n \in Nat /\ d.length \in Nat
          /\ Append(d.dest, Unescaped) \in Seq(Octet)
          /\ Len(Append(d.dest, Unescaped)) = Len(d.dest) + 1
      BY <2>1, <3>2, FcsType, AppendProperties DEF DecoderState
    <3>4. yahdlc_state' \in DecoderState
      <4>1. (IF n > 1 THEN Append(d.dest, Unescaped) ELSE d.dest) \in Seq(Octet)
        BY <3>3
      <4>2. (IF n = 1 THEN Unescaped ELSE d.frame_control) \in Octet
        BY <2>1, <3>2 DEF DecoderState
      <4>3. n + 1 \in Nat /\ d.length + 1 \in Nat
        BY <3>3
      <4> QED BY <3>1, <3>2, <3>3, <4>1, <4>2, <4>3 DEF DecoderState
    <3>5. CASE n > 1
      <4>1. yahdlc_state'.dest = Append(d.dest, Unescaped)
            /\ yahdlc_state'.frame_byte_index = n + 1
        BY <3>1, <3>2, <3>5 DEF DecoderState
      <4>2. Len(d.dest) + 1 < MaxFrameLen
        BY <2>4, <3>3, <3>5, LineAssumption DEF Full
      <4> QED BY <2>1, <2>2, <3>1, <3>3, <3>4, <3>5, <4>1, <4>2, ChunkType DEF DecoderOK
    <3>6. CASE n <= 1
      <4>1. yahdlc_state'.dest = d.dest /\ yahdlc_state'.frame_byte_index = n + 1
        BY <3>1, <3>2, <3>3, <3>6 DEF DecoderState
      <4>2. Len(yahdlc_state'.dest) = 0
        BY <3>3, <3>6, <4>1 DEF DecoderOK
      <4> QED BY <2>1, <2>2, <3>1, <3>3, <3>4, <3>6, <4>1, <4>2, ChunkType, LineAssumption
              DEF DecoderOK
    <3> QED BY <3>3, <3>5, <3>6
  <2> QED BY <2>3, <2>4
<1>8. CASE EndFrame
  <2>1. chunk' = chunk \/ chunk' = <<>>
    BY <1>8 DEF EndFrame, Remaining
  <2>2. chunk' \in Travelling
    <3>1. <<>> \in Travelling
      BY DEF Travelling
    <3> QED BY <2>1, <3>1
  <2>3. yahdlc_state' = yahdlc_reset_state /\ UNCHANGED <<arrived, wire, sent>>
    BY <1>8 DEF EndFrame
  <2>4. received' \in Seq(Message)
    <3>1. Decoded(yahdlc_state) \in Message
      BY DecodedType DEF DecoderOK
    <3>2. received' = received \/ received' = Append(received, Decoded(yahdlc_state))
      BY <1>8 DEF EndFrame
    <3> QED BY <3>1, <3>2, AppendProperties
  <2> QED BY <1>1, <2>2, <2>3, <2>4
<1>9. CASE Send
  <2>1. PICK f \in Frames :
          LET octets == yahdlc_frame_data(f)
          IN  /\ sent' = Append(sent, f)
              /\ wire' = [i \in DOMAIN octets |-> [value |-> octets[i], of |-> Len(sent) + 1]]
    BY <1>9 DEF Send
  <2>2. yahdlc_frame_data(f) \in Seq(Octet)
    <3>1. Sound(f)
      BY FramesAssumption DEF Sound
    <3> HIDE DEF DecoderInv
    <3> QED BY <3>1, LineLaw
  <2>3. wire' \in Travelling
    BY <2>1, <2>2, LabelledType, LenProperties
  <2> QED BY <1>2, <1>9, <2>1, <2>3 DEF Send
<1>10. CASE Carry
  <2>1. PICK out \in {<<>>} \cup {<<v>> : v \in Noise \cup {Head(wire).value}},
             added \in {<<>>} \cup {<<v>> : v \in Noise} :
          LET octets == out \o added
          IN  arrived' = arrived \o
                [i \in DOMAIN octets |-> [value |-> octets[i], of |-> Head(wire).of]]
    BY <1>10 DEF Carry
  <2>2. wire # <<>> /\ wire' = Tail(wire) /\ UNCHANGED <<yahdlc_state, chunk, sent, received>>
    BY <1>10 DEF Carry
  <2>3. Head(wire).value \in Octet /\ Head(wire).of \in Nat /\ wire' \in Travelling
    BY <2>2, ChunkType DEF Carried
  <2>4. out \in Seq(Octet) /\ added \in Seq(Octet)
    <3>1. Noise \subseteq Octet
      BY LineAssumption
    <3>2. \A v \in Octet : <<v>> \in Seq(Octet)
      OBVIOUS
    <3>3. <<>> \in Seq(Octet)
      OBVIOUS
    <3> HIDE DEF DecoderInv
    <3> QED BY <2>3, <3>1, <3>2, <3>3
  <2>5. out \o added \in Seq(Octet)
    BY <2>4, ConcatProperties
  <2>6. [i \in DOMAIN (out \o added) |->
            [value |-> (out \o added)[i], of |-> Head(wire).of]] \in Travelling
    BY <2>3, <2>5, LabelledType
  <2>7. arrived' \in Travelling
    BY <2>1, <2>6, ConcatProperties DEF Travelling
  <2> QED BY <1>2, <2>2, <2>3, <2>7
<1>11. CASE dcProcessData
  BY <1>2, <1>11 DEF dcProcessData, Travelling
<1>12. CASE UNCHANGED vars
  BY <1>2, <1>12 DEF vars
<1> QED BY <1>3, <1>4, <1>5, <1>6, <1>7, <1>8, <1>9, <1>10, <1>11, <1>12 DEF Next, Decode

\* The invariant of the decoder holds in each behaviour.
LEMMA DecoderInvariant == Spec => []DecoderInv
BY DecoderInit, DecoderStep, PTL DEF Spec

\* Whatever octets come, in whatever chunks: the decoder never holds max_frame_len
\* octets, so that it never writes behind a destination of that length, and what it
\* holds is what came behind the control octet.
THEOREM DecoderCorrect == Spec => []DecoderOK
<1>1. DecoderInv => DecoderOK
  BY DEF DecoderInv
<1> QED BY <1>1, DecoderInvariant, PTL
-----------------------------------------------------------------------------
(* Frames in order, and what is on the way *)

\* Fewer frames are found in the same places.
LEMMA EmbedsLess ==
  ASSUME NEW D, NEW C \in SUBSET D, NEW s, NEW t, Embeds(D, s, t)
  PROVE  Embeds(C, s, t)
<1>1. PICK g \in [D -> DOMAIN t] :
        (\A i \in D : s[i] = t[g[i]]) /\ (\A i, j \in D : i < j => g[i] < g[j])
  BY DEF Embeds
<1> DEFINE h == [i \in C |-> g[i]]
<1>2. h \in [C -> DOMAIN t] /\ \A i \in C : h[i] = g[i] /\ i \in D
  OBVIOUS
<1> HIDE DEF h
<1>3. (\A i \in C : s[i] = t[h[i]]) /\ (\A i, j \in C : i < j => h[i] < h[j])
  BY <1>1, <1>2
<1> QED BY <1>2, <1>3 DEF Embeds

\* One more frame behind does not matter.
LEMMA EmbedsMore ==
  ASSUME NEW D, NEW s, NEW S, NEW t \in Seq(S), NEW e \in S, Embeds(D, s, t)
  PROVE  Embeds(D, s, Append(t, e))
<1>1. PICK g \in [D -> DOMAIN t] :
        (\A i \in D : s[i] = t[g[i]]) /\ (\A i, j \in D : i < j => g[i] < g[j])
  BY DEF Embeds
<1>2. /\ DOMAIN t = 1 .. Len(t) /\ Len(t) \in Nat
      /\ DOMAIN Append(t, e) = 1 .. Len(t) + 1
      /\ \A i \in 1 .. Len(t) : Append(t, e)[i] = t[i]
  BY AppendProperties, LenProperties
<1>3. g \in [D -> DOMAIN Append(t, e)] /\ \A i \in D : Append(t, e)[g[i]] = t[g[i]]
  BY <1>2
<1> QED BY <1>1, <1>3 DEF Embeds

\* A frame behind all others is found in the place added for it.
LEMMA EmbedsNext ==
  ASSUME NEW D \in SUBSET Nat, NEW k \in Nat, \A i \in D : i < k,
         NEW s, NEW S, NEW t \in Seq(S), s[k] \in S, Embeds(D, s, t)
  PROVE  Embeds(D \cup {k}, s, Append(t, s[k]))
<1>1. PICK g \in [D -> DOMAIN t] :
        (\A i \in D : s[i] = t[g[i]]) /\ (\A i, j \in D : i < j => g[i] < g[j])
  BY DEF Embeds
<1> DEFINE u == Append(t, s[k])
           n == Len(t) + 1
           h == [i \in D \cup {k} |-> IF i = k THEN n ELSE g[i]]
<1>2. /\ DOMAIN t = 1 .. Len(t) /\ Len(t) \in Nat
      /\ DOMAIN u = 1 .. n /\ u[n] = s[k]
      /\ \A i \in 1 .. Len(t) : u[i] = t[i]
  BY AppendProperties, LenProperties
<1>3. k \notin D /\ h[k] = n /\ \A i \in D : h[i] = g[i] /\ i # k
  OBVIOUS
<1>4. \A i \in D : g[i] \in 1 .. Len(t)
  BY <1>2
<1>5. h \in [D \cup {k} -> DOMAIN u]
  <2>1. \A i \in D \cup {k} : (IF i = k THEN n ELSE g[i]) \in 1 .. n
    BY <1>2, <1>4
  <2> QED BY <1>2, <2>1
<1> HIDE DEF h, u, n
<1>6. \A i \in D \cup {k} : s[i] = u[h[i]]
  BY <1>1, <1>2, <1>3, <1>4
<1>7. ASSUME NEW i \in D \cup {k}, NEW j \in D \cup {k}, i < j PROVE h[i] < h[j]
  <2>1. i \in D
    BY <1>7
  <2>2. CASE j = k
    BY <1>2, <1>3, <1>4, <2>1, <2>2 DEF n
  <2>3. CASE j \in D
    BY <1>1, <1>3, <1>7, <2>1, <2>3
  <2> QED BY <2>2, <2>3
<1> QED BY <1>5, <1>6, <1>7 DEF Embeds, u

\* Only the frames looked for matter.
LEMMA EmbedsSource ==
  ASSUME NEW D, NEW s, NEW r, NEW t, Embeds(D, s, t), \A i \in D : r[i] = s[i]
  PROVE  Embeds(D, r, t)
BY DEF Embeds

\* The first octet is taken from the first sequence.
LEMMA TailOfConcat ==
  ASSUME NEW s \in Travelling, s # <<>>, NEW t \in Travelling
  PROVE  s \o t # <<>> /\ Tail(s \o t) = Tail(s) \o t
<1> DEFINE u == s \o t
           v == Tail(s) \o t
<1>1. /\ Tail(s) \in Travelling /\ Len(Tail(s)) = Len(s) - 1
      /\ \A i \in 1 .. Len(s) - 1 : Tail(s)[i] = s[i + 1]
      /\ Len(s) \in Nat \ {0} /\ Len(t) \in Nat
  BY HeadTailProperties, LenProperties, EmptySeq DEF Travelling
<1>2. /\ u \in Travelling /\ Len(u) = Len(s) + Len(t)
      /\ \A i \in 1 .. Len(s) + Len(t) : u[i] = IF i <= Len(s) THEN s[i] ELSE t[i - Len(s)]
  BY ConcatProperties DEF Travelling
<1>3. u # <<>>
  BY <1>1, <1>2, EmptySeq DEF Travelling
<1>4. /\ v \in Travelling /\ Len(v) = Len(s) - 1 + Len(t)
      /\ \A i \in 1 .. Len(s) - 1 + Len(t) :
           v[i] = IF i <= Len(s) - 1 THEN Tail(s)[i] ELSE t[i - (Len(s) - 1)]
  BY <1>1, ConcatProperties DEF Travelling
<1> HIDE DEF u, v
<1>5. /\ Tail(u) \in Travelling /\ Len(Tail(u)) = Len(v)
      /\ \A i \in 1 .. Len(v) : Tail(u)[i] = u[i + 1]
  BY <1>1, <1>2, <1>3, <1>4, HeadTailProperties DEF Travelling
<1>6. ASSUME NEW i \in 1 .. Len(v) PROVE Tail(u)[i] = v[i]
  <2>1. i + 1 \in 1 .. Len(s) + Len(t) /\ i \in 1 .. Len(s) - 1 + Len(t)
    BY <1>1, <1>4
  <2>2. CASE i <= Len(s) - 1
    BY <1>1, <1>2, <1>4, <1>5, <2>1, <2>2
  <2>3. CASE ~(i <= Len(s) - 1)
    <3>1. ~(i + 1 <= Len(s)) /\ (i + 1) - Len(s) = i - (Len(s) - 1)
      BY <1>1, <2>3
    <3> QED BY <1>2, <1>4, <1>5, <2>1, <2>3, <3>1
  <2> QED BY <2>2, <2>3
<1>7. Tail(u) = v
  BY <1>4, <1>5, <1>6, SeqEqual DEF Travelling
<1> QED BY <1>3, <1>7 DEF u, v

\* The elements of two sequences, and of one put behind the other.
LEMMA ConcatCases ==
  ASSUME NEW s \in Travelling, NEW t \in Travelling
  PROVE  LET u == s \o t
         IN  /\ u \in Travelling
             /\ \A p \in DOMAIN s : p \in DOMAIN u /\ u[p] = s[p]
             /\ \A q \in DOMAIN t : Len(s) + q \in DOMAIN u /\ u[Len(s) + q] = t[q]
             /\ \A i \in DOMAIN u :
                  \/ i \in DOMAIN s /\ u[i] = s[i]
                  \/ i > Len(s) /\ i - Len(s) \in DOMAIN t /\ u[i] = t[i - Len(s)]
<1> DEFINE u == s \o t
<1>1. /\ DOMAIN s = 1 .. Len(s) /\ DOMAIN t = 1 .. Len(t)
      /\ Len(s) \in Nat /\ Len(t) \in Nat
  BY LenProperties DEF Travelling
<1>2. /\ u \in Travelling /\ DOMAIN u = 1 .. Len(s) + Len(t)
      /\ \A i \in 1 .. Len(s) + Len(t) : u[i] = IF i <= Len(s) THEN s[i] ELSE t[i - Len(s)]
  BY ConcatProperties, LenProperties DEF Travelling
<1> HIDE DEF u
<1>3. \A p \in DOMAIN s : p \in DOMAIN u /\ u[p] = s[p]
  BY <1>1, <1>2
<1>4. ASSUME NEW q \in DOMAIN t PROVE Len(s) + q \in DOMAIN u /\ u[Len(s) + q] = t[q]
  <2>1. /\ Len(s) + q \in 1 .. Len(s) + Len(t) /\ ~(Len(s) + q <= Len(s))
        /\ (Len(s) + q) - Len(s) = q
    BY <1>1
  <2> QED BY <1>2, <2>1
<1>5. \A i \in DOMAIN u :
         \/ i \in DOMAIN s /\ u[i] = s[i]
         \/ i > Len(s) /\ i - Len(s) \in DOMAIN t /\ u[i] = t[i - Len(s)]
  BY <1>1, <1>2
<1> QED BY <1>2, <1>3, <1>4, <1>5 DEF u

\* Frames in order are in order in each part, and the parts are.
LEMMA LabelledSplit ==
  ASSUME NEW s \in Travelling, NEW t \in Travelling, NEW frames, Labelled(s \o t, frames)
  PROVE  /\ Labelled(s, frames) /\ Labelled(t, frames)
         /\ \A p \in DOMAIN s, q \in DOMAIN t : s[p].of <= t[q].of
<1> DEFINE u == s \o t
<1>1. /\ DOMAIN s = 1 .. Len(s) /\ DOMAIN t = 1 .. Len(t)
      /\ Len(s) \in Nat /\ Len(t) \in Nat
  BY LenProperties DEF Travelling
<1>2. /\ Labelled(u, frames)
      /\ \A p \in DOMAIN s : p \in DOMAIN u /\ u[p] = s[p]
      /\ \A q \in DOMAIN t : Len(s) + q \in DOMAIN u /\ u[Len(s) + q] = t[q]
  BY ConcatCases
<1> HIDE DEF u
<1>3. Labelled(s, frames)
  BY <1>2 DEF Labelled
<1>4. Labelled(t, frames)
  <2>1. \A p, q \in DOMAIN t : p < q => Len(s) + p < Len(s) + q
    BY <1>1
  <2> QED BY <1>2, <2>1 DEF Labelled
<1>5. \A p \in DOMAIN s, q \in DOMAIN t : s[p].of <= t[q].of
  <2>1. \A p \in DOMAIN s, q \in DOMAIN t : p < Len(s) + q
    BY <1>1
  <2> QED BY <1>2, <2>1 DEF Labelled
<1> QED BY <1>3, <1>4, <1>5

\* Parts that are in order, each of them and one behind the other.
LEMMA LabelledJoin ==
  ASSUME NEW s \in Travelling, NEW t \in Travelling, NEW frames,
         Labelled(s, frames), Labelled(t, frames),
         \A p \in DOMAIN s, q \in DOMAIN t : s[p].of <= t[q].of
  PROVE  Labelled(s \o t, frames)
<1> DEFINE u == s \o t
<1>1. /\ DOMAIN s = 1 .. Len(s) /\ Len(s) \in Nat
      /\ u \in Travelling /\ DOMAIN u = 1 .. Len(u) /\ Len(u) \in Nat
  <2>1. u \in Travelling
    BY ConcatCases
  <2> HIDE DEF u
  <2> QED BY <2>1, LenProperties DEF Travelling
<1>2. \A i \in DOMAIN u :
         \/ i \in DOMAIN s /\ u[i] = s[i]
         \/ i > Len(s) /\ i - Len(s) \in DOMAIN t /\ u[i] = t[i - Len(s)]
  BY ConcatCases
<1> HIDE DEF u
<1>3. \A i \in DOMAIN u : u[i].of \in frames
  BY <1>2 DEF Labelled
<1>4. ASSUME NEW p \in DOMAIN u, NEW q \in DOMAIN u, p < q PROVE u[p].of <= u[q].of
  <2>1. CASE p \in DOMAIN s /\ u[p] = s[p] /\ q \in DOMAIN s /\ u[q] = s[q]
    BY <1>4, <2>1 DEF Labelled
  <2>2. CASE p \in DOMAIN s /\ u[p] = s[p] /\ q - Len(s) \in DOMAIN t /\ u[q] = t[q - Len(s)]
    BY <2>2
  <2>3. CASE /\ p > Len(s) /\ p - Len(s) \in DOMAIN t /\ u[p] = t[p - Len(s)]
             /\ q - Len(s) \in DOMAIN t /\ u[q] = t[q - Len(s)]
    <3>1. p - Len(s) < q - Len(s)
      BY <1>1, <1>4
    <3> QED BY <2>3, <3>1 DEF Labelled
  <2>4. ~(p > Len(s) /\ q \in DOMAIN s)
    BY <1>1, <1>4
  <2> QED BY <1>2, <2>1, <2>2, <2>3, <2>4
<1> QED BY <1>3, <1>4 DEF Labelled, u

\* All that the decoder has still to see are octets.
LEMMA StreamType ==
  ASSUME DecoderInv
  PROVE  Stream \in Travelling
<1>1. chunk \in Travelling /\ arrived \in Travelling /\ wire \in Travelling
  BY DEF DecoderInv
<1>2. chunk \o arrived \in Travelling
  BY <1>1, ConcatProperties DEF Travelling
<1>3. (chunk \o arrived) \o wire \in Travelling
  BY <1>1, <1>2, ConcatProperties DEF Travelling
<1> QED BY <1>3 DEF Stream

\* So they are after a step.
LEMMA StreamTypeNext ==
  ASSUME DecoderInv'
  PROVE  Stream' \in Travelling
<1>1. chunk' \in Travelling /\ arrived' \in Travelling /\ wire' \in Travelling
  BY DEF DecoderInv
<1>2. chunk' \o arrived' \in Travelling
  BY <1>1, ConcatProperties DEF Travelling
<1>3. (chunk' \o arrived') \o wire' \in Travelling
  BY <1>1, <1>2, ConcatProperties DEF Travelling
<1> QED BY <1>3 DEF Stream

\* The chunk comes first; it may be thrown away as a whole.
LEMMA ChunkAndRest ==
  ASSUME DecoderInv
  PROVE  /\ chunk \in Travelling /\ arrived \o wire \in Travelling
         /\ Stream = chunk \o (arrived \o wire)
         /\ (<<>> \o arrived) \o wire = arrived \o wire
<1>1. chunk \in Seq(Carried) /\ arrived \in Seq(Carried) /\ wire \in Seq(Carried)
  BY DEF DecoderInv, Travelling
<1>2. arrived \o wire \in Seq(Carried) /\ <<>> \o arrived = arrived
  BY <1>1, ConcatProperties, ConcatEmptySeq
<1>3. (chunk \o arrived) \o wire = chunk \o (arrived \o wire)
  BY <1>1, ConcatAssociative
<1> QED BY <1>1, <1>2, <1>3 DEF Stream, Travelling

\* The decoder looks at the first octet, and perhaps at the second one.
LEMMA StreamHead ==
  ASSUME DecoderInv, chunk # <<>>
  PROVE  /\ Stream # <<>> /\ Stream[1] = chunk[1]
         /\ FlagFollows <=> Len(chunk) > 1 /\ Stream[2].value = Flag
<1> DEFINE t == arrived \o wire
<1>1. chunk \in Travelling /\ Len(chunk) \in Nat \ {0}
  BY EmptySeq DEF DecoderInv, Travelling
<1>2. t \in Travelling /\ Stream = chunk \o t /\ Len(t) \in Nat
  BY ChunkAndRest, LenProperties DEF Travelling
<1> HIDE DEF t
<1>3. \A i \in 1 .. Len(chunk) : Stream[i] = chunk[i]
  <2>1. \A i \in 1 .. Len(chunk) + Len(t) :
          (chunk \o t)[i] = IF i <= Len(chunk) THEN chunk[i] ELSE t[i - Len(chunk)]
    BY <1>1, <1>2, ConcatProperties DEF Travelling
  <2>2. \A i \in 1 .. Len(chunk) : i \in 1 .. Len(chunk) + Len(t) /\ i <= Len(chunk)
    BY <1>1, <1>2
  <2> QED BY <1>2, <2>1, <2>2
<1>4. Stream[1] = chunk[1] /\ (Len(chunk) > 1 => Stream[2] = chunk[2])
  BY <1>1, <1>3
<1>5. Stream # <<>>
  BY <1>1, <1>2, TailOfConcat
<1> QED BY <1>4, <1>5 DEF FlagFollows

\* A turn of the loop that takes an octet.
LEMMA StreamTail ==
  ASSUME DecoderInv, chunk # <<>>, chunk' = Tail(chunk), UNCHANGED <<arrived, wire>>
  PROVE  Stream' = Tail(Stream)
<1>1. /\ chunk \in Travelling /\ arrived \in Travelling /\ wire \in Travelling
  BY DEF DecoderInv
<1>2. chunk \o arrived # <<>> /\ Tail(chunk \o arrived) = Tail(chunk) \o arrived
  BY <1>1, TailOfConcat
<1>3. chunk \o arrived \in Travelling
  BY <1>1, ConcatProperties DEF Travelling
<1>4. Tail((chunk \o arrived) \o wire) = Tail(chunk \o arrived) \o wire
  BY <1>1, <1>2, <1>3, TailOfConcat
<1> QED BY <1>2, <1>4 DEF Stream

\* How the line of a frame begins.
LEMMA LineBegins ==
  ASSUME NEW f, Sound(f)
  PROVE  LET line == yahdlc_frame_data(f)
         IN  /\ line \in Seq(Octet) /\ Len(line) \in Nat /\ Len(line) >= 6
             /\ line[1] = Flag /\ line[2] # Flag
<1> DEFINE line == yahdlc_frame_data(f)
           n == Len(WithFcs(f))
<1>3. line \in Seq(Octet) /\ Len(line) \in Nat
  BY LineLaw, LenProperties
<1>4. n \in Nat /\ n >= 4
  <2>1. f.data \in Seq(Octet) /\ Len(f.data) \in Nat
    BY LenProperties DEF Sound, Message
  <2>2. n = Len(f.data) + 4
    BY FrameOctets
  <2> QED BY <2>1, <2>2
<1> HIDE DEF n, line
<1>5. /\ Taken(f, 0) = 1 /\ \A m \in 0 .. n : Taken(f, m) \in 1 .. Len(line) - 1
      /\ \A m \in 0 .. n - 1 :
            Taken(f, m + 1) = Taken(f, m) + 1 \/ Taken(f, m + 1) = Taken(f, m) + 2
  BY LineLaw DEF n, line
<1>6. Taken(f, 4) >= 5
  <2>1. \A m \in 0 .. 3 : Taken(f, m) \in Nat /\ Taken(f, m + 1) >= Taken(f, m) + 1
    BY <1>3, <1>4, <1>5
  <2>2. Taken(f, 1) >= 2
    BY <1>5, <2>1, 0 \in 0 .. 3, 0 + 1 = 1
  <2>3. Taken(f, 2) >= 3
    BY <2>1, <2>2, 1 \in 0 .. 3, 1 + 1 = 2
  <2>4. Taken(f, 3) >= 4
    BY <2>1, <2>3, 2 \in 0 .. 3, 2 + 1 = 3
  <2>5. Taken(f, 3) \in Nat /\ Taken(f, 3 + 1) >= Taken(f, 3) + 1
    <3>1. 3 \in 0 .. 3
      OBVIOUS
    <3> QED BY <2>1, <3>1
  <2>6. Taken(f, 4) >= Taken(f, 3) + 1
    BY <2>5, 3 + 1 = 4
  <2>7. Taken(f, 4) \in Nat
    BY <1>3, <1>4, <1>5
  <2> QED BY <2>4, <2>5, <2>6, <2>7
<1>7. Len(line) >= 6
  BY <1>3, <1>4, <1>5, <1>6
<1>8. line[1] = Flag /\ \A i \in 2 .. Len(line) - 1 : line[i] # Flag
  BY LineLaw DEF line
<1>9. line[2] # Flag
  BY <1>3, <1>7, <1>8
<1> QED BY <1>3, <1>7, <1>8, <1>9 DEF line

\* A frame that was sent, and its line.
LEMMA FrameLaw ==
  ASSUME DecoderInv, NEW j \in DOMAIN sent
  PROVE  LET line == Line(j)
         IN  /\ Sound(sent[j]) /\ j \in Nat /\ j > 0
             /\ line \in Seq(Octet) /\ Len(line) \in Nat /\ Len(line) >= 6
             /\ line[1] = Flag /\ line[2] # Flag
<1>1. sent[j] \in Frames /\ j \in Nat /\ j > 0
  BY LenProperties, ElementOfSeq DEF DecoderInv
<1>2. Sound(sent[j])
  BY <1>1, FramesAssumption DEF Sound
<1> QED BY <1>1, <1>2, LineBegins DEF Line

\* Where the decoder is in the line of a frame it has begun, and what each octet that may
\* come next says about it.
LEMMA BegunLaw ==
  ASSUME DecoderInv, NEW j \in DOMAIN sent, NEW t, BegunAs(j, t)
  PROVE  LET d == yahdlc_state
             m == d.frame_byte_index
             octets == WithFcs(sent[j])
             line == Line(j)
             next == line[d.length + 1]
         IN  /\ d.length \in 1 .. Len(line) - 1
             /\ m \in 0 .. Len(octets)
             /\ next = Flag => m = Len(octets)
             /\ m = Len(octets) => ~d.control_escape /\ d.length = Len(line) - 1
             /\ next = Escape => /\ m < Len(octets) /\ ~d.control_escape
                                 /\ octets[m + 1] \in {Flag, Escape}
             /\ next \notin {Flag, Escape} =>
                  /\ m < Len(octets) /\ d.length + 1 = Taken(sent[j], m + 1)
                  /\ octets[m + 1] = IF d.control_escape THEN Flip(next) ELSE next
<1> DEFINE d == yahdlc_state
           m == d.frame_byte_index
           f == sent[j]
           octets == WithFcs(f)
           n == Len(octets)
           line == yahdlc_frame_data(f)
           next == line[d.length + 1]
<1>1. Sound(f) /\ line \in Seq(Octet) /\ Len(line) \in Nat /\ Len(line) >= 6
  BY FrameLaw DEF Line
<1>2. octets \in Seq(Octet) /\ n \in Nat
  BY <1>1, FrameOctets, LenProperties
<1>3. /\ m \in 0 .. n
      /\ d.control_escape => m < n /\ octets[m + 1] \in {Flag, Escape}
      /\ d.length = Taken(f, m) + (IF d.control_escape THEN 1 ELSE 0)
      /\ d.length \in Nat
  <2>1. m \in Nat /\ d.length \in Nat
    BY DEF DecoderInv, DecoderOK, DecoderState
  <2>2. d.length = 1 + Len(Escaped(octets)[m]) + (IF d.control_escape THEN 1 ELSE 0)
    BY DEF BegunAs, Place
  <2>3. d.length = Taken(f, m) + (IF d.control_escape THEN 1 ELSE 0)
    BY <2>2 DEF Taken
  <2>4. m <= n /\ (d.control_escape => m < n /\ octets[m + 1] \in {Flag, Escape})
    BY DEF BegunAs
  <2> QED BY <1>2, <2>1, <2>3, <2>4
<1> HIDE DEF d, m, f, octets, n, line
<1>4. /\ \A i \in 2 .. Len(line) - 1 : line[i] # Flag
      /\ line[Len(line)] = Flag
      /\ Taken(f, n) = Len(line) - 1
      /\ \A k \in 0 .. n : Taken(f, k) \in 1 .. Len(line) - 1
  BY <1>1, LineLaw DEF line, octets, n
<1>5. \A k \in 0 .. n - 1 :
          \/ /\ octets[k + 1] \notin {Flag, Escape}
             /\ Taken(f, k + 1) = Taken(f, k) + 1
             /\ line[Taken(f, k) + 1] = octets[k + 1]
          \/ /\ octets[k + 1] \in {Flag, Escape}
             /\ Taken(f, k + 1) = Taken(f, k) + 2
             /\ line[Taken(f, k) + 1] = Escape
             /\ line[Taken(f, k) + 2] = Flip(octets[k + 1])
  BY <1>1, LineLaw DEF line, octets, n
<1>6. CASE m = n
  <2>1. ~d.control_escape /\ d.length = Len(line) - 1
    BY <1>2, <1>3, <1>4, <1>6
  <2>2. next = Flag
    BY <1>1, <1>4, <2>1
  <2>3. Flag # Escape
    BY DEF Flag, Escape
  <2> HIDE DEF next
  <2> QED BY <1>1, <1>3, <1>6, <2>1, <2>2, <2>3 DEF d, m, f, octets, n, line, next, Line
<1>7. CASE m < n /\ ~d.control_escape
  <2>1. /\ m \in 0 .. n - 1 /\ m + 1 \in 0 .. n
        /\ Taken(f, m) \in 1 .. Len(line) - 1 /\ Taken(f, m + 1) \in 1 .. Len(line) - 1
        /\ d.length = Taken(f, m)
    <3>1. m \in 0 .. n - 1 /\ m + 1 \in 0 .. n
      BY <1>2, <1>3, <1>7
    <3>2. Taken(f, m) \in 1 .. Len(line) - 1 /\ Taken(f, m + 1) \in 1 .. Len(line) - 1
      BY <1>3, <1>4, <3>1
    <3> QED BY <1>1, <1>3, <1>7, <3>1, <3>2
  <2>2. d.length \in 1 .. Len(line) - 1 /\ d.length + 1 \in 2 .. Len(line) - 1
    <3>1. Taken(f, m) \in 1 .. Len(line) - 1 /\ Taken(f, m + 1) \in 1 .. Len(line) - 1
      BY <2>1
    <3>2. Taken(f, m + 1) >= Taken(f, m) + 1
      BY <1>5, <2>1, <3>1
    <3> QED BY <1>1, <2>1, <3>1, <3>2
  <2>3. next # Flag
    BY <1>4, <2>2
  <2>4. \/ octets[m + 1] \notin {Flag, Escape} /\ Taken(f, m + 1) = d.length + 1
           /\ next = octets[m + 1]
        \/ octets[m + 1] \in {Flag, Escape} /\ next = Escape
    BY <1>5, <2>1
  <2> HIDE DEF next
  <2> QED BY <1>2, <1>3, <1>7, <2>1, <2>2, <2>3, <2>4 DEF d, m, f, octets, n, line, next, Line
<1>8. CASE m < n /\ d.control_escape
  <2>1. m \in 0 .. n - 1 /\ m + 1 \in 0 .. n /\ d.length = Taken(f, m) + 1
    BY <1>2, <1>3, <1>8
  <2>2. /\ octets[m + 1] \in {Flag, Escape} /\ Taken(f, m + 1) = Taken(f, m) + 2
        /\ line[Taken(f, m) + 2] = Flip(octets[m + 1])
    BY <1>3, <1>5, <1>8, <2>1
  <2>3. Taken(f, m) \in 1 .. Len(line) - 1 /\ Taken(f, m + 1) \in 1 .. Len(line) - 1
    BY <1>3, <1>4, <2>1
  <2>4. d.length \in 1 .. Len(line) - 1 /\ d.length + 1 = Taken(f, m) + 2
    BY <1>1, <2>1, <2>2, <2>3
  <2>5. next = Flip(octets[m + 1])
    BY <2>2, <2>4
  <2>6. next \notin {Flag, Escape} /\ Flip(next) = octets[m + 1]
    <3>1. octets[m + 1] \in Octet
      BY <2>2 DEF Flag, Escape, Octet
    <3> QED BY <2>2, <2>5, <3>1, EscapeReversible
  <2> HIDE DEF next
  <2> QED BY <1>2, <1>3, <1>8, <2>1, <2>2, <2>4, <2>6 DEF d, m, f, octets, n, line, next, Line
<1>9. m = n \/ (m < n /\ ~d.control_escape) \/ (m < n /\ d.control_escape)
  BY <1>2, <1>3
<1> QED BY <1>6, <1>7, <1>8, <1>9

\* Line l is the one of frame j but for the octets in it that stand for themselves, and the
\* decoder reads t on it.
ReadsAs(j, l, t) ==
  LET octets == WithFcs(sent[j])
      line == Line(j)
  IN  /\ l \in Seq(Octet) /\ Len(l) = Len(line)
      /\ t \in Seq(Octet) /\ Len(t) = Len(octets)
      /\ \A i \in 1 .. Len(line) : /\ l[i] = Flag <=> line[i] = Flag
                                   /\ l[i] = Escape <=> line[i] = Escape
      /\ \A m \in 1 .. Len(octets) :
           t[m] = LET v == l[Place(j, m)] IN IF octets[m] \in {Flag, Escape} THEN Flip(v) ELSE v

\* On its own line the frame itself is read.
LEMMA IntactReads ==
  ASSUME DecoderInv, NEW j \in DOMAIN sent
  PROVE  ReadsAs(j, Line(j), WithFcs(sent[j]))
<1> DEFINE f == sent[j]
           octets == WithFcs(f)
           n == Len(octets)
           line == Line(j)
<1>1. Sound(f) /\ line \in Seq(Octet)
  BY FrameLaw
<1>2. octets \in Seq(Octet) /\ n \in Nat
  BY <1>1, FrameOctets, LenProperties
<1>3. \A m \in 0 .. n - 1 :
          \/ /\ octets[m + 1] \notin {Flag, Escape}
             /\ Taken(f, m + 1) = Taken(f, m) + 1
             /\ line[Taken(f, m) + 1] = octets[m + 1]
          \/ /\ octets[m + 1] \in {Flag, Escape}
             /\ Taken(f, m + 1) = Taken(f, m) + 2
             /\ line[Taken(f, m) + 1] = Escape
             /\ line[Taken(f, m) + 2] = Flip(octets[m + 1])
  BY <1>1, LineLaw DEF Line
<1>4. \A m : Place(j, m) = Taken(f, m)
  BY DEF Place, Taken
<1> HIDE DEF octets, n, line, f
<1>5. ASSUME NEW m \in 1 .. n
      PROVE  octets[m] = LET v == line[Taken(f, m)]
                         IN  IF octets[m] \in {Flag, Escape} THEN Flip(v) ELSE v
  <2>1. m - 1 \in 0 .. n - 1 /\ (m - 1) + 1 = m /\ octets[m] \in Octet
    <3>1. m - 1 \in 0 .. n - 1 /\ (m - 1) + 1 = m
      BY <1>2
    <3> QED BY <1>2, <3>1, ElementOfSeq DEF n
  <2>2. \/ octets[m] \notin {Flag, Escape} /\ line[Taken(f, m)] = octets[m]
        \/ octets[m] \in {Flag, Escape} /\ line[Taken(f, m)] = Flip(octets[m])
    BY <1>3, <2>1
  <2> QED BY <2>1, <2>2, EscapeReversible
<1>6. \A m \in 1 .. n :
        octets[m] = LET v == line[Place(j, m)] IN IF octets[m] \in {Flag, Escape} THEN Flip(v) ELSE v
  BY <1>4, <1>5
<1> QED BY <1>1, <1>2, <1>6 DEF ReadsAs, octets, n, line, f

\* What the octets say that may come next on another line.
LEMMA BegunReads ==
  ASSUME DecoderInv, NEW j \in DOMAIN sent, NEW l, NEW t, ReadsAs(j, l, t), BegunAs(j, t)
  PROVE  LET d == yahdlc_state
             m == d.frame_byte_index
             octets == WithFcs(sent[j])
             next == l[d.length + 1]
         IN  /\ next = Flag => m = Len(octets)
             /\ next = Escape => /\ m < Len(octets) /\ ~d.control_escape
                                 /\ octets[m + 1] \in {Flag, Escape}
             /\ next \notin {Flag, Escape} =>
                  /\ m < Len(octets) /\ d.length + 1 = Place(j, m + 1)
                  /\ t[m + 1] = IF d.control_escape THEN Flip(next) ELSE next
<1> DEFINE d == yahdlc_state
           m == d.frame_byte_index
           octets == WithFcs(sent[j])
           n == Len(octets)
           line == Line(j)
           next == line[d.length + 1]
<1>1. /\ d.length \in 1 .. Len(line) - 1 /\ m \in 0 .. n
      /\ next = Flag => m = n
      /\ next = Escape => m < n /\ ~d.control_escape /\ octets[m + 1] \in {Flag, Escape}
      /\ next \notin {Flag, Escape} =>
           /\ m < n /\ d.length + 1 = Taken(sent[j], m + 1)
           /\ octets[m + 1] = IF d.control_escape THEN Flip(next) ELSE next
  BY BegunLaw
<1>2. Len(line) \in Nat /\ n \in Nat
  BY FrameLaw, FrameOctets, LenProperties
<1>3. d.control_escape => octets[m + 1] \in {Flag, Escape}
  BY DEF BegunAs
<1>4. Place(j, m + 1) = Taken(sent[j], m + 1)
  BY DEF Place, Taken
<1>5. /\ \A i \in 1 .. Len(line) : /\ l[i] = Flag <=> line[i] = Flag
                                   /\ l[i] = Escape <=> line[i] = Escape
      /\ \A k \in 1 .. n :
           t[k] = LET v == l[Place(j, k)] IN IF octets[k] \in {Flag, Escape} THEN Flip(v) ELSE v
  BY DEF ReadsAs
<1> HIDE DEF d, m, octets, n, line
<1>6. d.length + 1 \in 1 .. Len(line)
  BY <1>1, <1>2
<1>7. /\ l[d.length + 1] = Flag <=> next = Flag
      /\ l[d.length + 1] = Escape <=> next = Escape
  BY <1>5, <1>6
<1>8. ASSUME next \notin {Flag, Escape}
      PROVE  /\ m < n /\ d.length + 1 = Place(j, m + 1)
             /\ t[m + 1] = IF d.control_escape THEN Flip(l[d.length + 1]) ELSE l[d.length + 1]
  <2>1. /\ m < n /\ d.length + 1 = Place(j, m + 1)
        /\ octets[m + 1] = IF d.control_escape THEN Flip(next) ELSE next
    BY <1>1, <1>4, <1>8
  <2>2. m + 1 \in 1 .. n
    BY <1>1, <1>2, <2>1
  <2>3. octets[m + 1] \in {Flag, Escape} <=> d.control_escape
    <3> HIDE DEF next
    <3> QED BY <1>3, <1>8, <2>1
  <2>4. t[m + 1] = IF octets[m + 1] \in {Flag, Escape} THEN Flip(l[d.length + 1])
                                                         ELSE l[d.length + 1]
    BY <1>5, <2>1, <2>2
  <2> QED BY <2>1, <2>3, <2>4
<1> HIDE DEF next
<1> QED BY <1>1, <1>7, <1>8 DEF d, m, octets, n

-----------------------------------------------------------------------------
(* The steps of the decoder, for frames that nothing happened to *)

\* A frame begins with a flag of its own.
LEMMA NotHere ==
  ASSUME DecoderInv, chunk # <<>>, NEW j \in DOMAIN sent, First # Flag \/ Stream[1].of # j
  PROVE  ~Piece(Stream, Line(j), j, 0, 0)
<1> DEFINE line == Line(j)
<1>1. /\ line \in Seq(Octet) /\ 0 < Len(line) /\ line[1] = Flag
  BY FrameLaw
<1>2. Stream \in Travelling /\ Stream[1] = chunk[1]
  BY StreamType, StreamHead
<1> HIDE DEF line
<1> SUFFICES ASSUME Piece(Stream, line, j, 0, 0) PROVE FALSE
  BY DEF line
<1>3. Stream[0 + 1] = [value |-> line[0 + 1], of |-> j]
  BY <1>1, <1>2, PieceNext
<1> QED BY <1>1, <1>2, <1>3 DEF First

\* The first octet is taken: a frame that does not begin there stays unreached.
LEMMA StaysUnreached ==
  ASSUME DecoderInv, chunk # <<>>, chunk' = Tail(chunk), UNCHANGED <<arrived, wire, sent>>,
         NEW j \in DOMAIN sent, Unreached(j), ~Piece(Stream, Line(j), j, 0, 0)
  PROVE  Unreached(j)'
<1> DEFINE line == Line(j)
<1>1. /\ line \in Seq(Octet) /\ Len(line) \in Nat /\ 0 < Len(line) /\ line[1] = Flag
  BY FrameLaw
<1>2. Stream \in Travelling /\ Stream # <<>> /\ Stream[1] = chunk[1] /\ Stream' = Tail(Stream)
  BY StreamType, StreamHead, StreamTail
<1>3. PICK a \in 0 .. Len(Stream) : Piece(Stream, line, j, 0, a)
  BY DEF Unreached
<1>4. a \in Nat /\ Len(Stream) \in Nat /\ Len(Tail(Stream)) = Len(Stream) - 1
  BY <1>2, LenProperties, HeadTailProperties DEF Travelling
<1>5. a # 0
  BY <1>3
<1> HIDE DEF line
<1>6. Piece(Tail(Stream), line, j, 0, a - 1)
  BY <1>1, <1>2, <1>3, <1>4, <1>5, PieceTail
<1>7. a - 1 \in 0 .. Len(Stream')
  BY <1>2, <1>4, <1>5
<1>8. line = yahdlc_frame_data(sent'[j])
  BY DEF line, Line
<1>9. \E b \in 0 .. Len(Stream') : Piece(Stream', yahdlc_frame_data(sent'[j]), j, 0, b)
  BY <1>2, <1>6, <1>7, <1>8
<1> QED BY <1>9 DEF Unreached, Line

\* The next octet of a frame in progress is the one at the decoder's place in the line.
LEMMA LineProgress ==
  ASSUME DecoderInv, chunk # <<>>, NEW j \in DOMAIN sent,
         NEW line, NEW t, ReadsAs(j, line, t), InProgressAs(j, line, t)
  PROVE  LET k == yahdlc_state.length
         IN  /\ First = line[k + 1] /\ Stream[1].of = j
             /\ Piece(Tail(Stream), line, j, k + 1, 0)
<1> DEFINE k == yahdlc_state.length
<1>1. line \in Seq(Octet) /\ k \in Nat /\ k < Len(line)
  <2>1. BegunAs(j, t)
    BY DEF InProgressAs
  <2>2. k \in 1 .. Len(Line(j)) - 1
    BY <2>1, BegunLaw
  <2>3. line \in Seq(Octet) /\ Len(line) = Len(Line(j)) /\ Len(line) \in Nat
    BY FrameLaw DEF ReadsAs
  <2> QED BY <2>2, <2>3
<1>2. Stream \in Travelling /\ Stream # <<>> /\ Stream[1] = chunk[1]
  BY StreamType, StreamHead
<1>3. Piece(Stream, line, j, k, 0)
  BY DEF InProgressAs
<1> HIDE DEF k
<1>4. Stream[0 + 1] = [value |-> line[k + 1], of |-> j]
  BY <1>1, <1>2, <1>3, PieceNext
<1>5. Piece(Tail(Stream), line, j, k + 1, 0)
  BY <1>1, <1>2, <1>3, PieceTail
<1> QED BY <1>2, <1>4, <1>5 DEF First, k

LEMMA ProgressLaw ==
  ASSUME DecoderInv, chunk # <<>>, NEW j \in DOMAIN sent, InProgress(j)
  PROVE  LET line == Line(j)
             k == yahdlc_state.length
         IN  /\ First = line[k + 1] /\ Stream[1].of = j
             /\ Piece(Tail(Stream), line, j, k + 1, 0)
BY IntactReads, LineProgress DEF InProgress

\* Octets between frames are skipped: what begins later is not touched.
LEMMA SkipOctetStep ==
  ASSUME DecoderInv, NEW c \in 0 .. Len(sent), DecodedUpTo(c), SkipOctet
  PROVE  DecodedUpTo(c)'
<1>1. /\ chunk # <<>> /\ First # Flag /\ ~yahdlc_state.started /\ chunk' = Tail(chunk)
      /\ UNCHANGED <<arrived, wire, sent, received, damaged>>
  BY DEF SkipOctet, Consume, Elsewhere
<1>2. ASSUME NEW j \in DOMAIN sent \ damaged, j > c PROVE Unreached(j)'
  <2>1. Unreached(j)
    BY <1>1, <1>2 DEF DecodedUpTo, InProgress, InProgressAs, Complete, CompleteAs, BegunAs
  <2> QED BY <1>1, <2>1, NotHere, StaysUnreached
<1>3. Embeds((1 .. c) \ damaged, sent, received)
  BY DEF DecodedUpTo
<1> QED BY <1>1, <1>2, <1>3 DEF DecodedUpTo

\* An escape octet in a frame in progress belongs to it.
LEMMA EscapeProgress ==
  ASSUME DecoderInv, NEW j \in DOMAIN sent,
         NEW line, NEW t, ReadsAs(j, line, t), InProgressAs(j, line, t), TakeEscape
  PROVE  InProgressAs(j, line, t)'
<1> DEFINE d == yahdlc_state
           octets == WithFcs(sent[j])
           m == d.frame_byte_index
<1>1. /\ chunk # <<>> /\ First = Escape /\ First # Flag /\ chunk' = Tail(chunk)
      /\ yahdlc_state' = [d EXCEPT !.control_escape = TRUE, !.length = @ + 1]
      /\ UNCHANGED <<arrived, wire, sent, received, damaged>>
  BY DEF TakeEscape, Consume, Elsewhere, Flag, Escape
<1>2. BegunAs(j, t) /\ d \in DecoderState
  BY DEF InProgressAs, DecoderInv, DecoderOK
<1>3. First = line[d.length + 1] /\ Piece(Tail(Stream), line, j, d.length + 1, 0)
  BY <1>1, LineProgress
<1>4. m < Len(octets) /\ ~d.control_escape /\ octets[m + 1] \in {Flag, Escape}
  BY <1>1, <1>2, <1>3, BegunReads
<1>5. /\ yahdlc_state'.started = d.started
      /\ yahdlc_state'.fcs = d.fcs /\ yahdlc_state'.frame_control = d.frame_control
      /\ yahdlc_state'.frame_byte_index = m /\ yahdlc_state'.dest = d.dest
      /\ yahdlc_state'.control_escape = TRUE /\ yahdlc_state'.length = d.length + 1
  BY <1>1, <1>2 DEF DecoderState
<1>6. yahdlc_state'.length = Place(j, m) + 1
  <2>1. d.length = Place(j, m) + 0
    BY <1>2, <1>4 DEF BegunAs
  <2>2. Len(Escaped(octets)[m]) \in Nat
    <3>1. Sound(sent[j])
      BY FrameLaw
    <3>2. octets \in Seq(Octet) /\ m \in 0 .. Len(octets)
      BY <1>2, <3>1, FrameOctets, BegunLaw
    <3> QED BY <3>2, EscapedLaw, LenProperties DEF FlagFree
  <2>3. Place(j, m) \in Nat
    BY <2>2 DEF Place
  <2> HIDE DEF octets, m
  <2> QED BY <1>5, <2>1, <2>3
<1>7. BegunAs(j, t)'
  BY <1>1, <1>2, <1>4, <1>5, <1>6 DEF BegunAs, Place
<1>8. Stream' = Tail(Stream)
  BY <1>1, StreamTail
<1> QED BY <1>1, <1>3, <1>5, <1>7, <1>8 DEF InProgressAs

LEMMA TakeEscapeProgress ==
  ASSUME DecoderInv, NEW j \in DOMAIN sent, InProgress(j), TakeEscape
  PROVE  InProgress(j)'
<1> PICK line, t : line = Line(j) /\ t = WithFcs(sent[j])
  OBVIOUS
<1>1. InProgressAs(j, line, t)'
  BY IntactReads, EscapeProgress DEF InProgress
<1>2. UNCHANGED sent
  BY DEF TakeEscape, Elsewhere
<1> QED BY <1>1, <1>2 DEF InProgress, InProgressAs, BegunAs, Line

\* An escape octet belongs to the frame in progress, or to a damaged one.
LEMMA TakeEscapeStep ==
  ASSUME DecoderInv, NEW c \in 0 .. Len(sent), DecodedUpTo(c), TakeEscape
  PROVE  DecodedUpTo(c)'
<1>1. /\ chunk # <<>> /\ First = Escape /\ First # Flag /\ chunk' = Tail(chunk)
      /\ UNCHANGED <<arrived, wire, sent, received, damaged>>
  BY DEF TakeEscape, Consume, Elsewhere, Flag, Escape
<1>2. ASSUME NEW j \in DOMAIN sent \ damaged, j > c, Unreached(j) PROVE Unreached(j)'
  BY <1>1, <1>2, NotHere, StaysUnreached
<1>3. \A j \in DOMAIN sent : InProgress(j) => InProgress(j)'
  BY TakeEscapeProgress
<1>4. \A j \in DOMAIN sent : ~Complete(j)
  BY <1>1 DEF Complete, CompleteAs
<1>5. ASSUME NEW j \in DOMAIN sent \ damaged, j > c
      PROVE  Unreached(j)' \/ (j = c + 1 /\ InProgress(j)')
  BY <1>2, <1>3, <1>4, <1>5 DEF DecodedUpTo
<1>6. Embeds((1 .. c) \ damaged, sent, received)
  BY DEF DecodedUpTo
<1> QED BY <1>1, <1>5, <1>6 DEF DecodedUpTo

\* The octet a frame in progress continues with is stored: there is room for it, and
\* the decoder holds one octet more of the frame.
LEMMA OctetProgress ==
  ASSUME DecoderInv, NEW j \in DOMAIN sent,
         NEW line, NEW t, ReadsAs(j, line, t), InProgressAs(j, line, t), TakeOctet
  PROVE  /\ ~(yahdlc_state.frame_byte_index > 1 /\ Full(yahdlc_state))
         /\ InProgressAs(j, line, t)'
<1> DEFINE d == yahdlc_state
           m == d.frame_byte_index
           f == sent[j]
           octets == WithFcs(f)
           n == Len(octets)
           v == t[m + 1]
<1>1. /\ chunk # <<>> /\ First \notin {Flag, Escape} /\ d.started
      /\ UNCHANGED <<arrived, wire, sent>>
  BY DEF TakeOctet, Elsewhere
<1>2. BegunAs(j, t) /\ d \in DecoderState
  BY DEF InProgressAs, DecoderInv, DecoderOK
<1>3. First = line[d.length + 1] /\ Piece(Tail(Stream), line, j, d.length + 1, 0)
  BY <1>1, LineProgress
<1>4. m < n /\ d.length + 1 = Place(j, m + 1) /\ v = Unescaped
  BY <1>1, <1>2, <1>3, BegunReads DEF Unescaped
<1>5. /\ octets \in Seq(Octet) /\ n = Len(f.data) + 4 /\ Len(f.data) \in Nat
      /\ Len(f.data) + 2 < MaxFrameLen /\ t \in Seq(Octet) /\ Len(t) = n
  <2>1. Sound(f)
    BY FrameLaw
  <2> QED BY <2>1, FrameOctets, LenProperties DEF Sound, Message, ReadsAs
<1>6. m \in Nat /\ m + 1 \in 1 .. n /\ v \in Octet
  <2>1. m \in Nat
    BY <1>2 DEF DecoderState
  <2>2. m + 1 \in 1 .. n
    BY <1>4, <1>5, <2>1
  <2>3. m + 1 \in 1 .. Len(t)
    BY <1>5, <2>2
  <2> QED BY <1>5, <2>1, <2>2, <2>3, ElementOfSeq
<1>7. /\ d.dest \in Seq(Octet) /\ Len(d.dest) \in Nat
      /\ m > 1 => Len(d.dest) = m - 2
      /\ ~(m > 1) => Len(d.dest) = 0
  <2>1. d.dest \in Seq(Octet) /\ Len(d.dest) \in Nat
    BY <1>2, LenProperties DEF DecoderState
  <2> QED BY <2>1 DEF DecoderInv, DecoderOK
<1>8. ~(m > 1 /\ Full(d))
  <2> HIDE DEF octets, n
  <2> QED BY <1>4, <1>5, <1>6, <1>7, LineAssumption DEF Full
<1>9. /\ yahdlc_state' =
           [d EXCEPT !.control_escape = FALSE, !.length = @ + 1,
                     !.fcs = fcs16(@, Unescaped),
                     !.frame_control = IF m = 1 THEN Unescaped ELSE @,
                     !.dest = IF m > 1 THEN Append(@, Unescaped) ELSE @,
                     !.frame_byte_index = m + 1]
      /\ chunk' = Tail(chunk)
  BY <1>8 DEF TakeOctet, Consume
<1>10. /\ yahdlc_state'.started = d.started /\ yahdlc_state'.control_escape = FALSE
       /\ yahdlc_state'.length = d.length + 1
       /\ yahdlc_state'.fcs = fcs16(d.fcs, v)
       /\ yahdlc_state'.frame_control = IF m = 1 THEN v ELSE d.frame_control
       /\ yahdlc_state'.dest = IF m > 1 THEN Append(d.dest, v) ELSE d.dest
       /\ yahdlc_state'.frame_byte_index = m + 1
  <2>1. v = Unescaped
    BY <1>4
  <2> HIDE DEF v
  <2> QED BY <1>2, <1>9, <2>1 DEF DecoderState
<1> HIDE DEF v
<1>11. fcs16(d.fcs, v) = Registers(t)[m + 1]
  <2>1. d.fcs = Registers(t)[m]
    BY <1>2 DEF BegunAs
  <2>2. (m + 1) - 1 = m
    BY <1>6
  <2>0. m + 1 \in 1 .. Len(t)
    BY <1>5, <1>6
  <2> HIDE DEF octets, m, d
  <2>3. Registers(t)[m + 1] = fcs16(Registers(t)[(m + 1) - 1], t[m + 1])
    BY <1>5, <2>0, RegistersLaw
  <2> QED BY <2>1, <2>2, <2>3 DEF v
<1>12. m + 1 > 1 => yahdlc_state'.frame_control = t[2]
  <2>1. CASE m = 1
    BY <1>10, <2>1, 1 + 1 = 2 DEF v
  <2>2. CASE m > 1
    BY <1>2, <1>10, <2>2 DEF BegunAs
  <2> QED BY <1>6, <2>1, <2>2
<1>13. \A i \in DOMAIN yahdlc_state'.dest : yahdlc_state'.dest[i] = t[i + 2]
  <2>1. \A i \in DOMAIN d.dest : d.dest[i] = t[i + 2]
    BY <1>2 DEF BegunAs
  <2>2. CASE m > 1
    <3>1. /\ DOMAIN Append(d.dest, v) = 1 .. m - 1
          /\ DOMAIN d.dest = 1 .. m - 2
          /\ \A i \in 1 .. m - 2 : Append(d.dest, v)[i] = d.dest[i]
          /\ Append(d.dest, v)[m - 1] = v
      <4> DEFINE s == d.dest
      <4>1. s \in Seq(Octet) /\ Len(s) = m - 2
        BY <1>7, <2>2
      <4> HIDE DEF s
      <4>2. DOMAIN s = 1 .. Len(s)
        BY <4>1, LenProperties
      <4>3. /\ Append(s, v) \in Seq(Octet) /\ Len(Append(s, v)) = Len(s) + 1
            /\ \A i \in 1 .. Len(s) : Append(s, v)[i] = s[i]
            /\ Append(s, v)[Len(s) + 1] = v
        BY <1>6, <4>1, AppendProperties
      <4>4. DOMAIN Append(s, v) = 1 .. Len(Append(s, v))
        BY <4>3, LenProperties
      <4>5. Len(s) + 1 = m - 1
        BY <1>6, <4>1
      <4> HIDE DEF m
      <4> QED BY <4>1, <4>2, <4>3, <4>4, <4>5 DEF s
    <3>2. ASSUME NEW i \in 1 .. m - 1 PROVE Append(d.dest, v)[i] = t[i + 2]
      <4>1. CASE i = m - 1
        <5>1. i + 2 = m + 1
          BY <1>6, <4>1
        <5> QED BY <3>1, <4>1, <5>1 DEF v
      <4>2. CASE i # m - 1
        <5>1. i \in 1 .. m - 2
          BY <1>6, <2>2, <4>2
        <5> QED BY <2>1, <3>1, <5>1
      <4> QED BY <4>1, <4>2
    <3> QED BY <1>10, <2>2, <3>1, <3>2
  <2>3. CASE ~(m > 1)
    BY <1>10, <2>1, <2>3
  <2> QED BY <2>2, <2>3
<1>14. yahdlc_state'.length = 1 + Len(Escaped(octets)[m + 1])
  BY <1>4, <1>10 DEF Place
<1>15. yahdlc_state'.length = Place(j, m + 1) + 0
  <2>1. Len(Escaped(octets)[m + 1]) \in Nat
    <3>1. m + 1 \in 0 .. Len(octets)
      BY <1>5, <1>6
    <3> QED BY <1>5, <3>1, EscapedLaw, LenProperties DEF FlagFree
  <2> QED BY <1>14, <2>1 DEF Place
<1>16. BegunAs(j, t)'
  <2>1. m + 1 <= Len(octets)
    BY <1>6
  <2>2. sent' = sent /\ ~yahdlc_state'.control_escape /\ yahdlc_state'.started
    BY <1>1, <1>10
  <2> HIDE DEF d, n
  <2> QED BY <1>10, <1>11, <1>12, <1>13, <1>15, <2>1, <2>2 DEF BegunAs, Place, d
<1>17. Stream' = Tail(Stream)
  BY <1>1, <1>9, StreamTail
<1>18. InProgressAs(j, line, t)'
  BY <1>1, <1>3, <1>10, <1>16, <1>17 DEF InProgressAs
<1> QED BY <1>8, <1>18

LEMMA TakeOctetProgress ==
  ASSUME DecoderInv, NEW j \in DOMAIN sent, InProgress(j), TakeOctet
  PROVE  InProgress(j)'
<1> PICK line, t : line = Line(j) /\ t = WithFcs(sent[j])
  OBVIOUS
<1>1. InProgressAs(j, line, t)'
  BY IntactReads, OctetProgress DEF InProgress
<1>2. UNCHANGED sent
  BY DEF TakeOctet, Elsewhere
<1> QED BY <1>1, <1>2 DEF InProgress, InProgressAs, BegunAs, Line

\* So does any other octet but a flag.
LEMMA TakeOctetStep ==
  ASSUME DecoderInv, NEW c \in 0 .. Len(sent), DecodedUpTo(c), TakeOctet
  PROVE  DecodedUpTo(c)'
<1>1. /\ chunk # <<>> /\ First # Flag
      /\ UNCHANGED <<arrived, wire, sent, received, damaged>>
  BY DEF TakeOctet, Elsewhere
<1>2. chunk' = chunk \/ chunk' = Tail(chunk)
  BY DEF TakeOctet, Consume
<1>3. ASSUME NEW j \in DOMAIN sent \ damaged, j > c, Unreached(j) PROVE Unreached(j)'
  <2>1. CASE chunk' = chunk
    BY <1>1, <1>3, <2>1 DEF Unreached, Stream, Line
  <2>2. CASE chunk' = Tail(chunk)
    BY <1>1, <1>3, <2>2, NotHere, StaysUnreached
  <2> QED BY <1>2, <2>1, <2>2
<1>4. \A j \in DOMAIN sent : ~Complete(j)
  BY <1>1 DEF Complete, CompleteAs
<1>5. ASSUME NEW j \in DOMAIN sent, InProgress(j) PROVE InProgress(j)'
  BY <1>5, TakeOctetProgress
<1>6. ASSUME NEW j \in DOMAIN sent \ damaged, j > c
      PROVE  Unreached(j)' \/ (j = c + 1 /\ InProgress(j)')
  BY <1>3, <1>4, <1>5, <1>6 DEF DecodedUpTo
<1>7. Embeds((1 .. c) \ damaged, sent, received)
  BY DEF DecodedUpTo
<1> QED BY <1>1, <1>6, <1>7 DEF DecodedUpTo

\* A flag in a frame is behind its last octet.
LEMMA WholeLine ==
  ASSUME DecoderInv, chunk # <<>>, First = Flag, NEW j \in DOMAIN sent,
         NEW line, NEW t, ReadsAs(j, line, t), InProgressAs(j, line, t) \/ CompleteAs(j, t)
  PROVE  /\ BegunAs(j, t) /\ yahdlc_state.started /\ ~yahdlc_state.control_escape
         /\ yahdlc_state.frame_byte_index = Len(WithFcs(sent[j]))
         /\ yahdlc_state.length \in Nat /\ yahdlc_state.length >= 5
<1>1. BegunAs(j, t) /\ yahdlc_state.started
  BY DEF InProgressAs, CompleteAs, BegunAs
<1>2. yahdlc_state.frame_byte_index = Len(WithFcs(sent[j]))
  <2>1. CASE InProgressAs(j, line, t)
    <3>1. First = line[yahdlc_state.length + 1]
      BY <2>1, LineProgress
    <3> QED BY <1>1, <3>1, BegunReads
  <2>2. CASE CompleteAs(j, t)
    BY <2>2 DEF CompleteAs
  <2> QED BY <2>1, <2>2
<1>3. ~yahdlc_state.control_escape /\ yahdlc_state.length = Len(Line(j)) - 1
  BY <1>1, <1>2, BegunLaw
<1>4. Len(Line(j)) \in Nat /\ Len(Line(j)) >= 6
  BY FrameLaw
<1> QED BY <1>1, <1>2, <1>3, <1>4

LEMMA Whole ==
  ASSUME DecoderInv, chunk # <<>>, First = Flag, NEW j \in DOMAIN sent,
         InProgress(j) \/ Complete(j)
  PROVE  yahdlc_state.started /\ yahdlc_state.length \in Nat /\ yahdlc_state.length >= 5
BY IntactReads, WholeLine DEF InProgress, Complete

\* The first flag of a frame is taken.
LEMMA OpeningFlagOfLine ==
  ASSUME DecoderInv, IdleInv, SkipFlag \/ StartFrame,
         NEW j \in DOMAIN sent, NEW line, NEW t, ReadsAs(j, line, t),
         Piece(Stream, line, j, 0, 0)
  PROVE  /\ InProgressAs(j, line, t)' /\ yahdlc_state'.length = 1
         /\ Stream[1].of = j /\ 2 \in DOMAIN Stream /\ Stream[2].of = j
         /\ yahdlc_state.started => yahdlc_state.length = 1
<1> DEFINE d == yahdlc_state
<1>1. /\ chunk # <<>> /\ First = Flag /\ chunk' = Tail(chunk)
      /\ UNCHANGED <<arrived, wire, sent, received, damaged>>
  BY DEF SkipFlag, StartFrame, Consume, Elsewhere
<1>2. /\ Stream \in Travelling /\ Stream # <<>> /\ Stream[1] = chunk[1]
      /\ Stream' = Tail(Stream)
  BY <1>1, StreamType, StreamHead, StreamTail
<1>3. /\ line \in Seq(Octet) /\ Len(line) \in Nat /\ Len(line) >= 6 /\ line[2] # Flag
      /\ Sound(sent[j]) /\ j \in Nat
  <2>1. /\ Len(Line(j)) \in Nat /\ Len(Line(j)) >= 6 /\ Line(j)[2] # Flag
        /\ Sound(sent[j]) /\ j \in Nat
    BY FrameLaw
  <2>2. 2 \in 1 .. Len(Line(j))
    BY <2>1
  <2> QED BY <2>1, <2>2 DEF ReadsAs
<1>4. /\ Stream[1].of = j /\ Piece(Tail(Stream), line, j, 1, 0)
      /\ Stream[2].value = line[2] /\ Stream[2].of = j /\ 2 \in DOMAIN Stream
  <2>1. Piece(Stream, line, j, 0, 0)
    OBVIOUS
  <2>2. Stream[0 + 1] = [value |-> line[0 + 1], of |-> j]
    BY <1>2, <1>3, <2>1, PieceNext
  <2>3. Piece(Tail(Stream), line, j, 0 + 1, 0)
    BY <1>2, <1>3, <2>1, PieceTail
  <2>4. Stream[0 + 2] = [value |-> line[0 + 2], of |-> j]
    <3>1. 2 \in 1 .. Len(line) - 0
      BY <1>3
    <3> QED BY <2>1, <3>1 DEF Piece
  <2>5. 2 \in DOMAIN Stream
    <3>1. 2 <= Len(Stream) /\ DOMAIN Stream = 1 .. Len(Stream) /\ Len(Stream) \in Nat
      BY <1>2, <1>3, <2>1, LenProperties DEF Piece, Travelling
    <3> QED BY <3>1
  <2> QED BY <2>2, <2>3, <2>4, <2>5
<1>5. ~FlagFollows
  BY <1>1, <1>3, <1>4, StreamHead
<1>6. /\ SkipFlag => d.started /\ d.length = 1
      /\ StartFrame => ~d.started
  BY <1>5 DEF SkipFlag, StartFrame, RepeatedFlag
<1>7. yahdlc_state' = [yahdlc_reset_state EXCEPT !.started = TRUE, !.length = 1]
  BY <1>6 DEF IdleInv, SkipFlag, StartFrame
<1> DEFINE octets == WithFcs(sent[j])
<1>8. octets \in Seq(Octet) /\ Len(octets) \in Nat /\ t \in Seq(Octet)
  BY <1>3, FrameOctets, LenProperties DEF ReadsAs
<1>9. Registers(t)[0] = FcsInit /\ Escaped(octets)[0] = <<>>
  BY <1>8, RegistersLaw, EscapedLaw
<1>10. /\ yahdlc_state'.started = TRUE /\ yahdlc_state'.length = 1
       /\ yahdlc_state'.frame_byte_index = 0 /\ yahdlc_state'.fcs = FcsInit
       /\ yahdlc_state'.dest = <<>> /\ yahdlc_state'.control_escape = FALSE
  BY <1>7 DEF yahdlc_reset_state
<1>11. BegunAs(j, t)'
  <2> HIDE DEF octets
  <2>1. /\ 0 <= Len(octets) /\ ~(0 > 1) /\ 1 = 1 + Len(Escaped(octets)[0]) + 0
        /\ \A i \in DOMAIN <<>> : <<>>[i] = t[i + 2]
    BY <1>8, <1>9
  <2>2. octets = WithFcs(sent'[j])
    BY <1>1 DEF octets
  <2> QED BY <1>9, <1>10, <2>1, <2>2 DEF BegunAs, Place
<1>12. InProgressAs(j, line, t)'
  BY <1>1, <1>2, <1>4, <1>10, <1>11 DEF InProgressAs
<1> QED BY <1>4, <1>6, <1>10, <1>12

LEMMA OpeningFlag ==
  ASSUME DecoderInv, IdleInv, SkipFlag \/ StartFrame,
         NEW j \in DOMAIN sent, Piece(Stream, Line(j), j, 0, 0)
  PROVE  /\ InProgress(j)' /\ Stream[1].of = j
         /\ yahdlc_state.started => yahdlc_state.length = 1
<1> PICK line, t : line = Line(j) /\ t = WithFcs(sent[j])
  OBVIOUS
<1>1. /\ InProgressAs(j, line, t)' /\ Stream[1].of = j
      /\ yahdlc_state.started => yahdlc_state.length = 1
  BY IntactReads, OpeningFlagOfLine
<1>2. UNCHANGED sent
  BY DEF SkipFlag, StartFrame, Elsewhere
<1> QED BY <1>1, <1>2 DEF InProgress, InProgressAs, BegunAs, Line

\* A flag is taken that begins the next frame nothing happened to: that frame is in
\* progress, and all frames in front of it were damaged.
LEMMA OpeningFlagStep ==
  ASSUME DecoderInv, LabelInv, IdleInv, NEW c \in 0 .. Len(sent), DecodedUpTo(c),
         SkipFlag \/ StartFrame,
         NEW j \in DOMAIN sent \ damaged, j > c, Piece(Stream, Line(j), j, 0, 0)
  PROVE  DecodedUpTo(j - 1)'
<1> DEFINE d == yahdlc_state
<1>1. /\ chunk # <<>> /\ First = Flag /\ chunk' = Tail(chunk)
      /\ UNCHANGED <<arrived, wire, sent, received, damaged>>
  BY DEF SkipFlag, StartFrame, Consume, Elsewhere
<1>2. Stream \in Travelling /\ j \in Nat
  BY StreamType, FrameLaw
<1>3. InProgress(j)' /\ Stream[1].of = j /\ (d.started => d.length = 1)
  BY OpeningFlag
<1>4. ASSUME NEW i \in DOMAIN sent \ damaged, i > c, i < j PROVE FALSE
  <2>1. Unreached(i) \/ InProgress(i) \/ Complete(i)
    BY <1>4 DEF DecodedUpTo
  <2>2. CASE Unreached(i)
    <3>1. PICK a \in 0 .. Len(Stream) : Piece(Stream, Line(i), i, 0, a)
      BY <2>2 DEF Unreached
    <3>2. a \in Nat /\ Len(Stream) \in Nat /\ DOMAIN Stream = 1 .. Len(Stream)
      BY <1>2, LenProperties DEF Travelling
    <3>3. Line(i) \in Seq(Octet) /\ 0 < Len(Line(i)) /\ i \in Nat
      BY FrameLaw
    <3>4. a + 1 \in 1 .. Len(Stream) /\ Stream[a + 1].of = i
      <4>1. /\ a + 1 \in 1 .. Len(Stream)
            /\ Stream[a + 1] = [value |-> Line(i)[0 + 1], of |-> i]
        BY <1>2, <3>1, <3>2, <3>3, PieceNext
      <4> QED BY <4>1
    <3>5. a # 0
      BY <1>2, <1>3, <1>4, <3>3, <3>4
    <3>6. Stream[1].of <= Stream[a + 1].of
      <4>1. 1 \in DOMAIN Stream /\ a + 1 \in DOMAIN Stream /\ 1 < a + 1
        BY <3>2, <3>4, <3>5
      <4> QED BY <4>1 DEF LabelInv, Labelled
    <3> QED BY <1>2, <1>3, <1>4, <3>3, <3>4, <3>6
  <2>3. CASE InProgress(i)
    <3>1. Stream[1].of = i /\ i \in Nat
      BY <1>1, <2>3, ProgressLaw, FrameLaw
    <3> QED BY <1>2, <1>3, <1>4, <3>1
  <2>4. CASE Complete(i)
    BY <1>1, <1>3, <2>4, Whole
  <2> QED BY <2>1, <2>2, <2>3, <2>4
<1>5. DOMAIN sent = 1 .. Len(sent) /\ Len(sent) \in Nat
  BY LenProperties DEF DecoderInv
<1>6. Embeds((1 .. j - 1) \ damaged, sent, received)
  <2>1. Embeds((1 .. c) \ damaged, sent, received)
    BY DEF DecodedUpTo
  <2>2. (1 .. j - 1) \ damaged \subseteq (1 .. c) \ damaged
    BY <1>2, <1>4, <1>5
  <2> QED BY <2>1, <2>2, EmbedsLess
<1>7. ASSUME NEW i \in DOMAIN sent \ damaged, i > j - 1
       PROVE  Unreached(i)' \/ (i = (j - 1) + 1 /\ InProgress(i)')
  <2>1. CASE i = j
    BY <1>2, <1>3, <2>1
  <2>2. CASE i # j
    <3>1. i > j /\ i # c + 1 /\ i > c
      BY <1>2, <1>5, <1>7, <2>2
    <3>2. Unreached(i)
      BY <3>1 DEF DecodedUpTo
    <3>3. Stream[1].of # i
      BY <1>3, <2>2
    <3> QED BY <1>1, <3>2, <3>3, NotHere, StaysUnreached
  <2> QED BY <2>1, <2>2
<1> QED BY <1>1, <1>6, <1>7 DEF DecodedUpTo

\* A flag in a frame is skipped in front of another flag only.
LEMMA FlagInLine ==
  ASSUME DecoderInv, SkipFlag \/ StartFrame, NEW j \in DOMAIN sent,
         NEW line, NEW t, ReadsAs(j, line, t), InProgressAs(j, line, t) \/ CompleteAs(j, t)
  PROVE  CompleteAs(j, t)'
<1> DEFINE d == yahdlc_state
<1>1. /\ chunk # <<>> /\ First = Flag /\ chunk' = Tail(chunk)
      /\ UNCHANGED <<arrived, wire, sent, received, damaged>>
  BY DEF SkipFlag, StartFrame, Consume, Elsewhere
<1>2. /\ BegunAs(j, t) /\ d.started /\ d.frame_byte_index = Len(WithFcs(sent[j]))
      /\ d.length # 1
  BY <1>1, WholeLine
<1>3. SkipFlag /\ FlagFollows /\ yahdlc_state' = yahdlc_state
  BY <1>2 DEF SkipFlag, StartFrame, RepeatedFlag
<1>4. Len(chunk) > 1 /\ chunk[2].value = Flag
  BY <1>3 DEF FlagFollows
<1>5. chunk' # <<>> /\ chunk'[1] = chunk[2]
  <2>1. /\ chunk \in Travelling /\ Len(chunk) \in Nat
        /\ Tail(chunk) \in Travelling /\ Len(Tail(chunk)) = Len(chunk) - 1
        /\ \A i \in 1 .. Len(Tail(chunk)) : Tail(chunk)[i] = chunk[i + 1]
    BY <1>1, LenProperties, HeadTailProperties DEF DecoderInv, Travelling
  <2>2. 1 \in 1 .. Len(Tail(chunk)) /\ 1 + 1 = 2 /\ Len(Tail(chunk)) # 0
    BY <1>4, <2>1
  <2>3. Tail(chunk) # <<>>
    BY <2>2, EmptySeq
  <2> QED BY <1>1, <2>1, <2>2, <2>3
<1>6. First' = Flag
  BY <1>4, <1>5 DEF First
<1>7. BegunAs(j, t)'
  BY <1>1, <1>2, <1>3 DEF BegunAs, Place
<1> QED BY <1>1, <1>2, <1>3, <1>5, <1>6, <1>7 DEF CompleteAs

LEMMA FlagInFrame ==
  ASSUME DecoderInv, SkipFlag \/ StartFrame, NEW j \in DOMAIN sent,
         InProgress(j) \/ Complete(j)
  PROVE  Complete(j)'
<1> PICK line, t : line = Line(j) /\ t = WithFcs(sent[j])
  OBVIOUS
<1>1. CompleteAs(j, t)'
  BY IntactReads, FlagInLine DEF InProgress, Complete
<1>2. UNCHANGED sent
  BY DEF SkipFlag, StartFrame, Elsewhere
<1> QED BY <1>1, <1>2 DEF Complete, CompleteAs, BegunAs

\* A flag is taken that begins no frame nothing happened to: a frame in progress is
\* complete, and its last flag, or one behind it, comes next.
LEMMA OtherFlagStep ==
  ASSUME DecoderInv, NEW c \in 0 .. Len(sent), DecodedUpTo(c), SkipFlag \/ StartFrame,
         \A j \in DOMAIN sent \ damaged : j > c => ~Piece(Stream, Line(j), j, 0, 0)
  PROVE  DecodedUpTo(c)'
<1>1. /\ chunk # <<>> /\ First = Flag /\ chunk' = Tail(chunk)
      /\ UNCHANGED <<arrived, wire, sent, received, damaged>>
  BY DEF SkipFlag, StartFrame, Consume, Elsewhere
<1>2. ASSUME NEW j \in DOMAIN sent \ damaged, j > c, Unreached(j) PROVE Unreached(j)'
  BY <1>1, <1>2, StaysUnreached
<1>3. \A j \in DOMAIN sent : InProgress(j) \/ Complete(j) => Complete(j)'
  BY FlagInFrame
<1>4. ASSUME NEW j \in DOMAIN sent \ damaged, j > c
      PROVE  Unreached(j)' \/ (j = c + 1 /\ Complete(j)')
  BY <1>2, <1>3, <1>4 DEF DecodedUpTo
<1>5. Embeds((1 .. c) \ damaged, sent, received)
  BY DEF DecodedUpTo
<1> QED BY <1>1, <1>4, <1>5 DEF DecodedUpTo

\* A frame that was read as it is ends with a good checksum and is decoded to what was sent.
LEMMA DecodedLine ==
  ASSUME DecoderInv, chunk # <<>>, First = Flag, NEW j \in DOMAIN sent,
         NEW line, NEW t, t = WithFcs(sent[j]), ReadsAs(j, line, t),
         InProgressAs(j, line, t) \/ CompleteAs(j, t)
  PROVE  GoodFrame(yahdlc_state) /\ Decoded(yahdlc_state) = sent[j]
<1> DEFINE d == yahdlc_state
           f == sent[j]
           octets == WithFcs(f)
           n == Len(octets)
<1>1. /\ BegunAs(j, octets) /\ d.frame_byte_index = n /\ d.length \in Nat /\ d.length >= 5
      /\ Sound(f)
  BY WholeLine, FrameLaw
<1>2. /\ octets \in Seq(Octet) /\ n = Len(f.data) + 4
      /\ octets[2] = yahdlc_frame_control_type(f.control)
      /\ \A i \in 1 .. Len(f.data) : octets[i + 2] = f.data[i]
      /\ Registers(octets)[n] = FcsGood
  BY <1>1, FrameOctets
<1>3. f.data \in Seq(Octet) /\ Len(f.data) \in Nat /\ f \in Message
  BY <1>1, LenProperties DEF Sound, Message
<1>4. GoodFrame(d)
  <2>1. d.fcs = Registers(octets)[d.frame_byte_index]
    BY <1>1 DEF BegunAs
  <2>2. d.fcs = FcsGood
    BY <1>1, <1>2, <2>1
  <2>3. d.length >= 4
    BY <1>1
  <2> QED BY <2>2, <2>3 DEF GoodFrame
<1>5. yahdlc_get_control_type(d.frame_control) = f.control
  <2>1. d.frame_control = octets[2]
    BY <1>1, <1>2, <1>3 DEF BegunAs
  <2>2. f.control \in Sendable
    BY <1>1 DEF Sound
  <2> QED BY <1>2, <2>1, <2>2, ControlReversible
<1>6. SubSeq(d.dest, 1, Len(d.dest) - 2) = f.data
  <2> DEFINE s == d.dest
             u == f.data
  <2>1. s \in Seq(Octet) /\ Len(s) = Len(u) + 2
    <3>1. d \in DecoderState /\ Len(d.dest) = n - 2
      BY <1>1, <1>2, <1>3 DEF DecoderInv, DecoderOK
    <3> HIDE DEF octets
    <3> QED BY <1>2, <1>3, <3>1 DEF DecoderState
  <2>2. \A i \in 1 .. Len(u) : s[i] = u[i]
    <3>1. DOMAIN s = 1 .. Len(s)
      BY <2>1, LenProperties
    <3>2. \A i \in 1 .. Len(u) : i \in DOMAIN s
      BY <1>3, <2>1, <3>1
    <3>3. \A i \in DOMAIN s : s[i] = octets[i + 2]
      BY <1>1 DEF BegunAs
    <3> QED BY <1>2, <3>2, <3>3
  <2>3. u \in Seq(Octet) /\ Len(u) \in Nat
    BY <1>3
  <2> HIDE DEF s, u
  <2> DEFINE w == SubSeq(s, 1, Len(s) - 2)
  <2>4. \A i \in 1 .. Len(s) - 2 : s[i] \in Octet
    BY <2>1, <2>3, ElementOfSeq
  <2>5. Len(s) - 2 = Len(u) /\ Len(s) - 2 \in Int
    BY <2>1, <2>3
  <2>6. /\ w \in Seq(Octet) /\ Len(w) = IF 1 <= Len(s) - 2 THEN Len(s) - 2 - 1 + 1 ELSE 0
        /\ \A i \in 1 .. Len(s) - 2 - 1 + 1 : w[i] = s[1 + i - 1]
    BY <2>4, <2>5, SubSeqProperties
  <2> HIDE DEF w
  <2>7. Len(w) = Len(u)
    BY <2>3, <2>5, <2>6
  <2>8. ASSUME NEW i \in 1 .. Len(w) PROVE w[i] = u[i]
    <3>1. i \in 1 .. Len(u) /\ i \in 1 .. Len(s) - 2 - 1 + 1 /\ 1 + i - 1 = i
      BY <2>3, <2>5, <2>7
    <3> QED BY <2>2, <2>6, <3>1
  <2>9. w = u
    BY <2>3, <2>6, <2>7, <2>8, SeqEqual
  <2> QED BY <2>9 DEF w, s, u
<1>7. Decoded(d) = [control |-> f.control, data |-> f.data]
  BY <1>5, <1>6 DEF Decoded
<1>8. f = [control |-> f.control, data |-> f.data]
  BY <1>3 DEF Message
<1> QED BY <1>4, <1>7, <1>8

LEMMA DecodedLaw ==
  ASSUME DecoderInv, chunk # <<>>, First = Flag, NEW j \in DOMAIN sent,
         InProgress(j) \/ Complete(j)
  PROVE  GoodFrame(yahdlc_state) /\ Decoded(yahdlc_state) = sent[j]
BY IntactReads, DecodedLine DEF InProgress, Complete

\* The rest of the chunk is kept, or thrown away with all it has octets of.
LEMMA EndFrameUnreached ==
  ASSUME DecoderInv, EndFrame, NEW j \in DOMAIN sent, j \notin damaged', Unreached(j)
  PROVE  Unreached(j)'
<1> DEFINE line == Line(j)
           t == arrived \o wire
<1>1. chunk # <<>> /\ UNCHANGED <<arrived, wire, sent>>
  BY DEF EndFrame
<1>2. \/ chunk' = chunk
      \/ chunk' = <<>> /\ damaged' = damaged \cup {chunk[i].of : i \in DOMAIN chunk}
  BY DEF EndFrame, Remaining
<1>3. CASE chunk' = chunk
  BY <1>1, <1>3 DEF Unreached, Stream, Line
<1>4. CASE chunk' = <<>> /\ damaged' = damaged \cup {chunk[i].of : i \in DOMAIN chunk}
  <2>1. /\ chunk \in Travelling /\ t \in Travelling /\ Stream = chunk \o t
        /\ DOMAIN chunk = 1 .. Len(chunk)
        /\ Len(t) \in Nat /\ Len(chunk) \in Nat
    BY ChunkAndRest, LenProperties DEF Travelling
  <2>2. Stream' = t
    BY <1>1, <1>4, ChunkAndRest DEF Stream
  <2>3. PICK a \in 0 .. Len(Stream) : Piece(Stream, line, j, 0, a)
    BY DEF Unreached
  <2>4. line \in Seq(Octet) /\ 0 < Len(line) /\ Len(line) \in Nat
    BY FrameLaw
  <2>5. \A i \in 1 .. Len(chunk) : chunk[i].of # j
    BY <1>4, <2>1
  <2>6. a \in Nat /\ Len(Stream) = Len(chunk) + Len(t)
    <3>1. Len(Stream) = Len(chunk) + Len(t)
      <4> HIDE DEF t
      <4> QED BY <2>1, ConcatProperties DEF Travelling
    <3> QED BY <2>1, <2>3, <3>1
  <2> HIDE DEF line, t
  <2>7. a >= Len(chunk) /\ Piece(t, line, j, 0, a - Len(chunk))
    BY <2>1, <2>3, <2>4, <2>5, <2>6, PieceBehind
  <2>8. a - Len(chunk) \in 0 .. Len(t)
    BY <2>1, <2>3, <2>6, <2>7
  <2>9. line = yahdlc_frame_data(sent'[j])
    BY <1>1 DEF line, Line
  <2> QED BY <2>2, <2>7, <2>8, <2>9 DEF Unreached, Line
<1> QED BY <1>2, <1>3, <1>4

\* A flag ends the frame in the decoder.  If that one was not damaged it is received
\* now; if not, whatever is received is one frame more.
LEMMA EndFrameStep ==
  ASSUME DecoderInv, LabelInv, NEW c \in 0 .. Len(sent), DecodedUpTo(c), EndFrame
  PROVE  \E e \in 0 .. Len(sent') : DecodedUpTo(e)'
<1> DEFINE d == yahdlc_state
<1>1. /\ chunk # <<>> /\ First = Flag /\ sent' = sent /\ damaged \subseteq damaged'
  BY DEF EndFrame
<1>2. received' = IF GoodFrame(d) THEN Append(received, Decoded(d)) ELSE received
  BY DEF EndFrame
<1>3. DOMAIN sent = 1 .. Len(sent) /\ Len(sent) \in Nat
  BY LenProperties DEF DecoderInv
<1>4. Embeds((1 .. c) \ damaged, sent, received) /\ received \in Seq(Message)
  BY DEF DecodedUpTo, DecoderInv
<1>5. CASE \E j \in DOMAIN sent \ damaged : j = c + 1 /\ (InProgress(j) \/ Complete(j))
  <2> DEFINE e == c + 1
  <2>1. e \in DOMAIN sent \ damaged /\ (InProgress(e) \/ Complete(e))
    BY <1>5
  <2>2. GoodFrame(d) /\ Decoded(d) = sent[e]
    BY <1>1, <2>1, DecodedLaw
  <2>3. received' = Append(received, sent[e])
    BY <1>2, <2>2
  <2>4. Embeds(((1 .. c) \ damaged) \cup {e}, sent, received')
    <3>1. (1 .. c) \ damaged \in SUBSET Nat /\ e \in Nat /\ \A i \in (1 .. c) \ damaged : i < e
      BY <1>3
    <3>2. sent[e] \in Message
      BY <2>1, FrameLaw DEF Sound
    <3> HIDE DEF e
    <3> QED BY <1>4, <2>3, <3>1, <3>2, EmbedsNext
  <2>5. Embeds((1 .. e) \ damaged', sent', received')
    <3>1. (1 .. e) \ damaged' \subseteq ((1 .. c) \ damaged) \cup {e}
      BY <1>1, <1>3
    <3> HIDE DEF e
    <3> QED BY <1>1, <2>4, <3>1, EmbedsLess
  <2>6. ASSUME NEW j \in DOMAIN sent' \ damaged', j > e PROVE Unreached(j)'
    <3>1. j \in DOMAIN sent \ damaged /\ j > c /\ j # c + 1
      BY <1>1, <1>3, <2>6
    <3>2. Unreached(j)
      BY <3>1 DEF DecodedUpTo
    <3> QED BY <2>6, <3>1, <3>2, EndFrameUnreached
  <2>7. e \in 0 .. Len(sent')
    BY <1>1, <1>3, <2>1
  <2>8. DecodedUpTo(e)'
    <3> HIDE DEF e
    <3> QED BY <2>5, <2>6 DEF DecodedUpTo
  <2> QED BY <2>7, <2>8
<1>6. CASE \A j \in DOMAIN sent \ damaged : j = c + 1 => ~InProgress(j) /\ ~Complete(j)
  <2>1. Embeds((1 .. c) \ damaged, sent, received')
    <3>1. Decoded(d) \in Message
      BY DecodedType DEF DecoderInv, DecoderOK
    <3> QED BY <1>2, <1>4, <3>1, EmbedsMore
  <2>2. Embeds((1 .. c) \ damaged', sent', received')
    <3>1. (1 .. c) \ damaged' \subseteq (1 .. c) \ damaged
      BY <1>1
    <3> QED BY <1>1, <2>1, <3>1, EmbedsLess
  <2>3. ASSUME NEW j \in DOMAIN sent' \ damaged', j > c PROVE Unreached(j)'
    <3>1. j \in DOMAIN sent \ damaged
      BY <1>1, <2>3
    <3>2. Unreached(j)
      BY <1>6, <2>3, <3>1 DEF DecodedUpTo
    <3> QED BY <2>3, <3>1, <3>2, EndFrameUnreached
  <2>4. DecodedUpTo(c)'
    BY <2>2, <2>3 DEF DecodedUpTo
  <2> QED BY <1>1, <2>4
<1> QED BY <1>5, <1>6

\* What has arrived is handed over, and no octet moves.
LEMMA dcProcessDataStep ==
  ASSUME DecoderInv, NEW c \in 0 .. Len(sent), DecodedUpTo(c), dcProcessData
  PROVE  DecodedUpTo(c)' /\ Stream' = Stream
<1>1. /\ chunk = <<>> /\ chunk' = arrived /\ arrived' = <<>>
      /\ UNCHANGED <<yahdlc_state, wire, sent, received, damaged>>
  BY DEF dcProcessData
<1>2. Stream' = Stream
  <2>1. <<>> \o arrived = arrived /\ arrived \o <<>> = arrived
    BY ConcatEmptySeq DEF DecoderInv, Travelling
  <2> QED BY <1>1, <2>1 DEF Stream
<1>3. \A j \in DOMAIN sent : ~Complete(j)
  BY <1>1 DEF Complete, CompleteAs
<1>4. ASSUME NEW j \in DOMAIN sent, Unreached(j) PROVE Unreached(j)'
  BY <1>1, <1>2, <1>4 DEF Unreached, Line
<1>5. ASSUME NEW j \in DOMAIN sent, InProgress(j) PROVE InProgress(j)'
  BY <1>1, <1>2, <1>5 DEF InProgress, InProgressAs, BegunAs, Place, Line
<1>6. ASSUME NEW j \in DOMAIN sent \ damaged, j > c
      PROVE  Unreached(j)' \/ (j = c + 1 /\ InProgress(j)')
  BY <1>3, <1>4, <1>5, <1>6 DEF DecodedUpTo
<1>7. Embeds((1 .. c) \ damaged, sent, received)
  BY DEF DecodedUpTo
<1> QED BY <1>1, <1>2, <1>6, <1>7 DEF DecodedUpTo
-----------------------------------------------------------------------------
(* The steps of the others *)

\* A sequence is its first element and the others.
LEMMA HeadAndTail ==
  ASSUME NEW s \in Travelling, s # <<>>
  PROVE  s = <<s[1]>> \o Tail(s) /\ s[1] \in Carried /\ Tail(s) \in Travelling
<1> DEFINE x == s[1]
           t == Tail(s)
           u == <<x>> \o t
<1>1. /\ t \in Travelling /\ Len(t) = Len(s) - 1 /\ Len(s) \in Nat \ {0}
      /\ \A i \in 1 .. Len(s) - 1 : t[i] = s[i + 1]
  BY HeadTailProperties, EmptySeq DEF Travelling
<1>2. x \in Carried
  <2>1. 1 \in 1 .. Len(s)
    BY <1>1
  <2> QED BY <2>1, ElementOfSeq DEF Travelling
<1> HIDE DEF x, t
<1>3. <<x>> \in Seq(Carried) /\ Len(<<x>>) = 1 /\ <<x>>[1] = x
  BY <1>2
<1>4. /\ u \in Seq(Carried) /\ Len(u) = 1 + Len(t)
      /\ \A i \in 1 .. 1 + Len(t) : u[i] = IF i <= 1 THEN <<x>>[i] ELSE t[i - 1]
  BY <1>1, <1>3, ConcatProperties DEF Travelling
<1> HIDE DEF u
<1>5. Len(s) = Len(u)
  BY <1>1, <1>4
<1>6. ASSUME NEW i \in 1 .. Len(s) PROVE s[i] = u[i]
  <2>1. CASE i = 1
    BY <1>1, <1>3, <1>4, <2>1 DEF x
  <2>2. CASE i # 1
    <3>1. i - 1 \in 1 .. Len(s) - 1 /\ (i - 1) + 1 = i /\ i \in 1 .. 1 + Len(t) /\ ~(i <= 1)
      BY <1>1, <2>2
    <3> QED BY <1>1, <1>4, <3>1
  <2> QED BY <2>1, <2>2
<1>7. s = u
  BY <1>4, <1>5, <1>6, SeqEqual DEF Travelling
<1> QED BY <1>1, <1>2, <1>7 DEF u, x, t

\* Carry changes one octet of the stream, or, when it is one of a frame that stays
\* undamaged, does no more than to put something behind.
LEMMA CarryStream ==
  ASSUME DecoderInv, Carry
  PROVE  \E s, t, y \in Travelling, x \in Carried :
            /\ Stream = s \o (<<x>> \o t) /\ Stream' = s \o (y \o t)
            /\ \A i \in DOMAIN y : y[i].of = x.of
            /\ damaged' \subseteq damaged \cup {x.of}
            /\ x.of \notin damaged' => \E z \in Travelling : Stream' = Stream \o z
<1> DEFINE s == arrived
           t == Tail(wire)
           x == wire[1]
<1>1. /\ wire # <<>> /\ chunk = <<>> /\ wire' = t /\ chunk' = chunk
  BY DEF Carry
<1>2. s \in Travelling /\ t \in Travelling /\ x \in Carried /\ wire = <<x>> \o t
      /\ Head(wire) = x
  BY <1>1, HeadAndTail DEF DecoderInv
<1>3. PICK out \in {<<>>} \cup {<<v>> : v \in Noise \cup {Head(wire).value}},
           added \in {<<>>} \cup {<<v>> : v \in Noise} :
        LET intact == out = <<Head(wire).value>>
            octets == out \o added
        IN  /\ arrived' = arrived \o
                 [i \in DOMAIN octets |-> [value |-> octets[i], of |-> Head(wire).of]]
            /\ damaged' = IF intact /\ (added = <<>> \/ wire' = <<>>)
                            THEN damaged ELSE damaged \cup {Head(wire).of}
  BY DEF Carry
<1> DEFINE octets == out \o added
           y == [i \in DOMAIN octets |-> [value |-> octets[i], of |-> x.of]]
<1>4. /\ x.value \in Octet /\ x.of \in Nat
      /\ out \in Seq(Octet) /\ added \in Seq(Octet) /\ octets \in Seq(Octet)
  <2>1. x.value \in Octet /\ x.of \in Nat
    BY <1>2 DEF Carried
  <2>2. \A v \in Octet : <<v>> \in Seq(Octet)
    OBVIOUS
  <2>3. Noise \subseteq Octet /\ <<>> \in Seq(Octet)
    BY LineAssumption
  <2>4. out \in Seq(Octet) /\ added \in Seq(Octet)
    <3> HIDE DEF x
    <3> QED BY <1>2, <2>1, <2>2, <2>3
  <2> QED BY <2>1, <2>4, ConcatProperties
<1>5. /\ y \in Travelling /\ arrived' = s \o y /\ \A i \in DOMAIN y : y[i].of = x.of
  <2>1. y \in Travelling
    <3> HIDE DEF octets
    <3> QED BY <1>4, LabelledType
  <2> QED BY <1>2, <1>3, <2>1
<1>6. /\ x.of \notin damaged' => out = <<x.value>> /\ (added = <<>> \/ t = <<>>)
  <2> HIDE DEF octets, y, x, t
  <2> QED BY <1>1, <1>2, <1>3
<1>7. ASSUME out = <<x.value>>
      PROVE  y # <<>> /\ y[1] = x /\ (added = <<>> => Tail(y) = <<>>)
  <2>1. /\ Len(out) = 1 /\ out[1] = x.value /\ Len(added) \in Nat
        /\ added = <<>> => Len(added) = 0
    BY <1>4, <1>7, LenProperties
  <2>2. /\ Len(octets) = 1 + Len(added) /\ DOMAIN octets = 1 .. 1 + Len(added)
        /\ octets[1] = x.value
    <3>1. /\ Len(octets) = Len(out) + Len(added)
          /\ \A i \in 1 .. Len(out) + Len(added) :
               octets[i] = IF i <= Len(out) THEN out[i] ELSE added[i - Len(out)]
      BY <1>4, ConcatProperties
    <3>2. DOMAIN octets = 1 .. Len(octets)
      BY <1>4, LenProperties
    <3>3. 1 \in 1 .. Len(out) + Len(added) /\ 1 <= Len(out)
      BY <2>1
    <3> HIDE DEF octets
    <3> QED BY <2>1, <3>1, <3>2, <3>3
  <2> HIDE DEF octets
  <2>3. 1 \in DOMAIN octets
    BY <2>1, <2>2
  <2>4. y[1] = [value |-> x.value, of |-> x.of]
    BY <2>2, <2>3
  <2>5. y[1] = x
    BY <1>2, <2>4 DEF Carried
  <2>6. DOMAIN y = 1 .. Len(y) /\ DOMAIN y = 1 .. 1 + Len(added) /\ Len(y) \in Nat
    BY <1>5, <2>2, LenProperties DEF Travelling
  <2> HIDE DEF y, x
  <2>7. Len(y) = 1 + Len(added)
    <3>1. 1 + Len(added) \in 1 .. 1 + Len(added)
      BY <2>1
    <3>2. 1 + Len(added) <= Len(y) /\ Len(y) # 0
      BY <2>1, <2>6, <3>1
    <3>3. Len(y) \in 1 .. Len(y)
      BY <2>6, <3>2
    <3>4. Len(y) <= 1 + Len(added)
      BY <2>6, <3>3
    <3>5. Len(y) \in Nat
      BY <2>6
    <3> QED BY <2>1, <3>2, <3>4, <3>5
  <2>8. y # <<>>
    BY <2>1, <2>7
  <2>9. ASSUME added = <<>> PROVE Tail(y) = <<>>
    <3>1. Tail(y) \in Travelling /\ Len(Tail(y)) = 0
      BY <1>5, <2>1, <2>7, <2>8, <2>9, HeadTailProperties DEF Travelling
    <3> QED BY <3>1, EmptySeq DEF Travelling
  <2> QED BY <2>5, <2>8, <2>9
<1> HIDE DEF octets, y, x, t
<1>8. Stream = s \o (<<x>> \o t)
  <2>1. <<>> \o arrived = arrived
    BY ConcatEmptySeq DEF DecoderInv, Travelling
  <2> QED BY <1>1, <1>2, <2>1 DEF Stream
<1>9. Stream' = s \o (y \o t)
  <2>1. arrived' \in Travelling
    BY <1>2, <1>5, ConcatProperties DEF Travelling
  <2>2. <<>> \o arrived' = arrived'
    BY <2>1, ConcatEmptySeq DEF Travelling
  <2>3. Stream' = (s \o y) \o t
    BY <1>1, <1>5, <2>2 DEF Stream
  <2> QED BY <1>2, <1>5, <2>3, ConcatAssociative DEF Travelling
<1>10. ASSUME x.of \notin damaged' PROVE \E z \in Travelling : Stream' = Stream \o z
  <2> DEFINE z == Tail(y)
  <2>1. y = <<x>> \o z /\ z \in Travelling /\ (z = <<>> \/ t = <<>>)
    <3>1. y # <<>> /\ y[1] = x /\ (z = <<>> \/ t = <<>>)
      BY <1>6, <1>7, <1>10
    <3> HIDE DEF z
    <3>2. y = <<y[1]>> \o z /\ z \in Travelling
      BY <1>5, <3>1, HeadAndTail DEF z
    <3> QED BY <3>1, <3>2
  <2> HIDE DEF z
  <2>2. <<x>> \in Travelling /\ s \in Travelling /\ <<x>> \o t \in Travelling
        /\ <<x>> \o z \in Travelling
    <3>1. <<x>> \in Travelling
      BY <1>2 DEF Travelling
    <3> QED BY <1>2, <2>1, <3>1, ConcatProperties DEF Travelling
  <2>3. CASE z = <<>>
    <3>1. y = <<x>> /\ Stream' = Stream
      BY <1>8, <1>9, <2>1, <2>2, <2>3, ConcatEmptySeq DEF Travelling
    <3>2. Stream' = Stream \o <<>> /\ <<>> \in Travelling
      <4>1. Stream \in Travelling
        BY StreamType
      <4> QED BY <3>1, <4>1, ConcatEmptySeq DEF Travelling
    <3> QED BY <3>2
  <2>4. CASE t = <<>>
    <3>1. Stream = s \o <<x>>
      BY <1>8, <2>2, <2>4, ConcatEmptySeq DEF Travelling
    <3>2. Stream' = s \o (<<x>> \o z)
      BY <1>9, <2>1, <2>2, <2>4, ConcatEmptySeq DEF Travelling
    <3>3. Stream' = (s \o <<x>>) \o z
      <4>1. s \in Seq(Carried) /\ <<x>> \in Seq(Carried) /\ z \in Seq(Carried)
        BY <2>1, <2>2 DEF Travelling
      <4>2. (s \o <<x>>) \o z = s \o (<<x>> \o z)
        BY <4>1, ConcatAssociative
      <4> QED BY <3>2, <4>2
    <3> QED BY <2>1, <3>1, <3>3
  <2> QED BY <2>1, <2>3, <2>4
<1>11. damaged' \subseteq damaged \cup {x.of}
  BY <1>2, <1>3
<1> QED BY <1>2, <1>5, <1>8, <1>9, <1>10, <1>11

\* A line that is there begins within the octets on the way.
LEMMA UnreachedAt ==
  ASSUME NEW s \in Travelling, NEW line \in Seq(Octet), NEW j, NEW a \in Nat,
         Piece(s, line, j, 0, a)
  PROVE  a \in 0 .. Len(s)
<1>1. Len(s) \in Nat /\ Len(line) \in Nat /\ a + Len(line) - 0 <= Len(s)
  BY LenProperties DEF Travelling, Piece
<1> QED BY <1>1

\* What is left of the line of a frame that Carry does not damage is left afterwards,
\* and what the decoder sees next is what it was.
LEMMA CarryPiece ==
  ASSUME DecoderInv, DecoderInv', Carry, NEW j \in DOMAIN sent, j \notin damaged',
         NEW k \in Nat, k < Len(Line(j)), NEW a \in Nat, Piece(Stream, Line(j), j, k, a)
  PROVE  \E b \in Nat : Piece(Stream', Line(j), j, k, b) /\ (a = 0 => b = 0)
<1> DEFINE line == Line(j)
<1>1. line \in Seq(Octet) /\ Len(line) \in Nat
  BY FrameLaw
<1>2. PICK s \in Travelling, t \in Travelling, y \in Travelling, x \in Carried :
        /\ Stream = s \o (<<x>> \o t) /\ Stream' = s \o (y \o t)
        /\ x.of \notin damaged' => \E z \in Travelling : Stream' = Stream \o z
  BY CarryStream
<1>3. Stream \in Travelling
  BY StreamType
<1> HIDE DEF line
<1>4. CASE x.of = j
  <2>1. PICK z \in Travelling : Stream' = Stream \o z
    BY <1>2, <1>4
  <2>2. k \in 0 .. Len(line) /\ Piece(Stream, line, j, k, a)
    BY <1>1 DEF line
  <2>3. Piece(Stream \o z, line, j, k, a)
    BY <1>1, <1>3, <2>2, PieceInFront
  <2> QED BY <2>1, <2>3 DEF line
<1>5. CASE x.of # j
  <2>1. Piece(s \o (<<x>> \o t), line, j, k, a) /\ k < Len(line)
    BY <1>2 DEF line
  <2>2. \E b \in Nat : Piece(s \o (y \o t), line, j, k, b) /\ (a = 0 => b = 0)
    BY <1>1, <1>5, <2>1, PieceBeside
  <2> QED BY <1>2, <2>2 DEF line
<1> QED BY <1>4, <1>5

\* The line carries one octet, and damages no frame but the one it belongs to.
LEMMA CarryStep ==
  ASSUME DecoderInv, DecoderInv', NEW c \in 0 .. Len(sent), DecodedUpTo(c), Carry
  PROVE  DecodedUpTo(c)'
<1>1. /\ chunk = <<>> /\ UNCHANGED <<yahdlc_state, chunk, sent, received>>
      /\ damaged \subseteq damaged'
  BY DEF Carry
<1>2. Stream \in Travelling /\ Stream' \in Travelling
  BY StreamType, StreamTypeNext
<1>3. ASSUME NEW j \in DOMAIN sent, j \notin damaged', Unreached(j) PROVE Unreached(j)'
  <2>1. PICK a \in 0 .. Len(Stream) : Piece(Stream, Line(j), j, 0, a)
    BY <1>3 DEF Unreached
  <2>2. Line(j) \in Seq(Octet) /\ 0 < Len(Line(j))
    BY FrameLaw
  <2>3. a \in Nat
    BY <1>2, LenProperties DEF Travelling
  <2>4. PICK b \in Nat : Piece(Stream', Line(j), j, 0, b)
    BY <1>3, <2>1, <2>2, <2>3, CarryPiece
  <2>5. b \in 0 .. Len(Stream')
    BY <1>2, <2>2, <2>4, UnreachedAt
  <2>6. Line(j) = yahdlc_frame_data(sent'[j])
    BY <1>1 DEF Line
  <2> QED BY <2>4, <2>5, <2>6 DEF Unreached, Line
<1>4. ASSUME NEW j \in DOMAIN sent, j \notin damaged', InProgress(j) PROVE InProgress(j)'
  <2> DEFINE k == yahdlc_state.length
  <2>1. BegunAs(j, WithFcs(sent[j])) /\ Piece(Stream, Line(j), j, k, 0)
    BY <1>4 DEF InProgress, InProgressAs
  <2>2. k \in 1 .. Len(Line(j)) - 1 /\ Len(Line(j)) \in Nat
    BY <2>1, BegunLaw, FrameLaw
  <2>3. k \in Nat /\ k < Len(Line(j))
    BY <2>2
  <2> HIDE DEF k
  <2>4. PICK b \in Nat : Piece(Stream', Line(j), j, k, b) /\ (0 = 0 => b = 0)
    BY <1>4, <2>1, <2>3, CarryPiece
  <2>5. Piece(Stream', Line(j), j, k, 0)
    BY <2>4
  <2> QED BY <1>1, <2>1, <2>5 DEF InProgress, InProgressAs, BegunAs, Place, Line, k
<1>5. \A j \in DOMAIN sent : ~Complete(j)
  BY <1>1 DEF Complete, CompleteAs
<1>6. ASSUME NEW j \in DOMAIN sent, j \notin damaged', j > c
      PROVE  Unreached(j)' \/ (j = c + 1 /\ InProgress(j)')
  BY <1>1, <1>3, <1>4, <1>5, <1>6 DEF DecodedUpTo
<1>7. Embeds((1 .. c) \ damaged', sent, received)
  <2>1. Embeds((1 .. c) \ damaged, sent, received)
    BY DEF DecodedUpTo
  <2>2. (1 .. c) \ damaged' \subseteq (1 .. c) \ damaged
    BY <1>1
  <2> QED BY <2>1, <2>2, EmbedsLess
<1> QED BY <1>1, <1>6, <1>7 DEF DecodedUpTo

\* A frame is put behind all that is on the way.
LEMMA SendStream ==
  ASSUME DecoderInv, DecoderInv', Send, NEW k \in Nat, k = Len(sent) + 1
  PROVE  /\ Len(sent') = k /\ \A i \in DOMAIN sent : sent'[i] = sent[i]
         /\ k \in DOMAIN sent' /\ DOMAIN sent' = DOMAIN sent \cup {k}
         /\ Line(k)' \in Seq(Octet)
         /\ wire' = [i \in DOMAIN Line(k)' |-> [value |-> Line(k)'[i], of |-> k]]
         /\ Stream' = Stream \o wire'
<1>1. PICK f \in Frames :
        LET octets == yahdlc_frame_data(f)
        IN  /\ sent' = Append(sent, f)
            /\ wire' = [i \in DOMAIN octets |-> [value |-> octets[i], of |-> k]]
  BY DEF Send
<1>2. wire = <<>> /\ UNCHANGED <<chunk, arrived>>
  BY DEF Send
<1>3. /\ Len(sent) \in Nat /\ DOMAIN sent = 1 .. Len(sent)
      /\ Len(sent') = k /\ DOMAIN sent' = 1 .. Len(sent')
      /\ \A i \in 1 .. Len(sent) : sent'[i] = sent[i]
      /\ sent'[k] = f
  BY <1>1, LenProperties, AppendProperties DEF DecoderInv
<1>4. Line(k)' = yahdlc_frame_data(f)
  BY <1>3 DEF Line
<1>5. Line(k)' \in Seq(Octet)
  <2>1. Sound(f)
    BY FramesAssumption DEF Sound
  <2> QED BY <1>4, <2>1, LineLaw
<1>6. Stream' = Stream \o wire'
  <2>1. chunk \o arrived \in Seq(Carried)
    BY ConcatProperties DEF DecoderInv, Travelling
  <2>2. (chunk \o arrived) \o <<>> = chunk \o arrived
    BY <2>1, ConcatEmptySeq
  <2> QED BY <1>2, <2>2 DEF Stream
<1>7. k \in DOMAIN sent' /\ DOMAIN sent' = DOMAIN sent \cup {k}
  BY <1>3
<1> QED BY <1>1, <1>3, <1>4, <1>5, <1>6, <1>7

\* The frame that is sent comes behind all octets on the way, whole and to the end.
LEMMA SentPiece ==
  ASSUME DecoderInv, DecoderInv', Send, NEW k \in Nat, k = Len(sent) + 1
  PROVE  /\ Len(Stream) \in Nat /\ Len(Stream') = Len(Stream) + Len(Line(k)')
         /\ Len(Line(k)') \in Nat /\ Len(Line(k)') >= 6
         /\ \A p \in DOMAIN Stream : p \in 1 .. Len(Stream) /\ Stream'[p] = Stream[p]
         /\ \A p \in DOMAIN Stream' :
              \/ p \in DOMAIN Stream
              \/ p \in Nat /\ p > Len(Stream) /\ p <= Len(Stream') /\ Stream'[p].of = k
         /\ \A m \in 0 .. Len(Line(k)') - 1 : Piece(Stream', Line(k)', k, m, Len(Stream) + m)
<1> DEFINE line == Line(k)'
           a == Len(Stream)
<1>1. /\ k \in DOMAIN sent' /\ line \in Seq(Octet)
      /\ wire' = [i \in DOMAIN line |-> [value |-> line[i], of |-> k]]
      /\ Stream' = Stream \o wire'
  BY SendStream
<1>2. /\ Stream \in Travelling /\ Stream' \in Travelling /\ wire' \in Travelling
  BY StreamType, StreamTypeNext DEF DecoderInv
<1>3. Len(line) \in Nat /\ Len(line) >= 6 /\ DOMAIN line = 1 .. Len(line)
  <2>1. Len(line) \in Nat /\ DOMAIN line = 1 .. Len(line)
    BY <1>1, LenProperties
  <2>2. Len(line) >= 6
    <3>1. sent' \in Seq(Frames) /\ sent'[k] \in Frames
      BY <1>1, LenProperties, ElementOfSeq DEF DecoderInv
    <3>2. Sound(sent'[k])
      BY <3>1, FramesAssumption DEF Sound
    <3> QED BY <3>2, LineBegins DEF Line
  <2> QED BY <2>1, <2>2
<1> HIDE DEF line
<1>4. wire' = [i \in 1 .. Len(line) |-> [value |-> line[i], of |-> k]]
  BY <1>1, <1>3
<1>5. Len(wire') = Len(line) /\ a \in Nat
  <2>1. DOMAIN wire' = 1 .. Len(line)
    BY <1>4
  <2>2. DOMAIN wire' = 1 .. Len(wire') /\ Len(wire') \in Nat /\ a \in Nat
    BY <1>2, LenProperties DEF Travelling
  <2> QED BY <1>3, <2>1, <2>2
<1>6. /\ Len(Stream') = a + Len(line) /\ DOMAIN Stream' = 1 .. a + Len(line)
      /\ DOMAIN Stream = 1 .. a
      /\ \A i \in 1 .. a + Len(line) : Stream'[i] = IF i <= a THEN Stream[i] ELSE wire'[i - a]
  <2>0. Stream' = Stream \o wire'
    BY <1>1
  <2>1. /\ Len(Stream') = a + Len(line)
        /\ \A i \in 1 .. a + Len(line) : Stream'[i] = IF i <= a THEN Stream[i] ELSE wire'[i - a]
    <3>1. /\ Len(Stream') = a + Len(wire')
          /\ \A i \in 1 .. a + Len(wire') :
                Stream'[i] = IF i <= a THEN Stream[i] ELSE wire'[i - a]
      BY <1>2, <2>0, ConcatProperties DEF Travelling
    <3> HIDE DEF a
    <3> QED BY <1>5, <3>1
  <2>2. DOMAIN Stream' = 1 .. Len(Stream') /\ DOMAIN Stream = 1 .. a
    BY <1>2, LenProperties DEF Travelling
  <2> QED BY <2>1, <2>2
<1> HIDE DEF a
<1>7. ASSUME NEW p \in DOMAIN Stream PROVE p \in 1 .. a /\ Stream'[p] = Stream[p]
  <2>1. p \in 1 .. a /\ p \in 1 .. a + Len(line) /\ p <= a
    BY <1>3, <1>5, <1>6
  <2> QED BY <1>6, <2>1
<1>8. ASSUME NEW p \in DOMAIN Stream'
      PROVE  \/ p \in DOMAIN Stream
             \/ p \in Nat /\ p > a /\ p <= Len(Stream') /\ Stream'[p].of = k
  <2>1. p \in 1 .. a + Len(line) /\ p \in Nat
    BY <1>3, <1>5, <1>6
  <2>2. CASE p <= a
    BY <1>5, <1>6, <2>1, <2>2
  <2>3. CASE ~(p <= a)
    <3>1. p - a \in 1 .. Len(line) /\ p > a /\ p <= a + Len(line)
      BY <1>3, <1>5, <2>1, <2>3
    <3>2. Stream'[p] = wire'[p - a] /\ wire'[p - a].of = k
      BY <1>4, <1>6, <2>1, <2>3, <3>1
    <3> QED BY <1>6, <2>1, <3>1, <3>2
  <2> QED BY <2>2, <2>3
<1>9. ASSUME NEW m \in 0 .. Len(line) - 1 PROVE Piece(Stream', line, k, m, a + m)
  <2>1. m \in Nat /\ a + m + Len(line) - m <= Len(Stream')
    BY <1>3, <1>5, <1>6
  <2>2. ASSUME NEW i \in 1 .. Len(line) - m
        PROVE  Stream'[a + m + i] = [value |-> line[m + i], of |-> k]
    <3>1. /\ m + i \in 1 .. Len(line) /\ a + m + i \in 1 .. a + Len(line)
          /\ ~(a + m + i <= a) /\ (a + m + i) - a = m + i
      BY <1>3, <1>5, <2>1
    <3> QED BY <1>4, <1>6, <3>1
  <2> QED BY <2>1, <2>2 DEF Piece
<1> QED BY <1>3, <1>5, <1>6, <1>7, <1>8, <1>9 DEF a, line

\* A piece on the way is there after a send.
LEMMA PieceSent ==
  ASSUME DecoderInv, DecoderInv', Send, NEW j \in DOMAIN sent,
         NEW k \in Nat, k < Len(Line(j)), NEW a \in Nat, Piece(Stream, Line(j), j, k, a)
  PROVE  Piece(Stream', Line(j)', j, k, a)
<1> PICK n \in Nat : n = Len(sent) + 1
  BY LenProperties DEF DecoderInv
<1>1. /\ Stream' = Stream \o wire' /\ sent'[j] = sent[j]
      /\ Stream \in Travelling /\ wire' \in Travelling
  BY SendStream, StreamType DEF DecoderInv
<1>2. Line(j)' = Line(j)
  BY <1>1 DEF Line
<1> DEFINE line == Line(j)
<1>3. line \in Seq(Octet) /\ Len(line) \in Nat
  BY FrameLaw
<1> HIDE DEF line
<1>4. k \in 0 .. Len(line) /\ Piece(Stream, line, j, k, a)
  BY <1>3 DEF line
<1>5. Piece(Stream \o wire', line, j, k, a)
  BY <1>1, <1>3, <1>4, PieceInFront
<1> QED BY <1>1, <1>2, <1>5 DEF line

\* What the decoder holds, and what is left of the frame, is the same after a send.
LEMMA ProgressSent ==
  ASSUME DecoderInv, DecoderInv', Send, NEW j \in DOMAIN sent
  PROVE  /\ j \in DOMAIN sent' /\ Line(j)' = Line(j)
         /\ InProgress(j) => InProgress(j)'
         /\ Complete(j) => Complete(j)'
<1> PICK k \in Nat : k = Len(sent) + 1
  BY LenProperties DEF DecoderInv
<1>1. /\ Len(sent') = k /\ \A i \in DOMAIN sent : sent'[i] = sent[i]
      /\ k \in DOMAIN sent' /\ DOMAIN sent' = DOMAIN sent \cup {k}
      /\ Stream' = Stream \o wire'
      /\ UNCHANGED <<yahdlc_state, chunk, received, damaged>>
  BY SendStream DEF Send
<1>2. Stream \in Travelling /\ wire' \in Travelling
  BY StreamType DEF DecoderInv
<1>3. Line(j)' = Line(j)
  BY <1>1 DEF Line
<1>5. ASSUME InProgress(j) PROVE InProgress(j)'
  <2> DEFINE n == yahdlc_state.length
  <2>1. BegunAs(j, WithFcs(sent[j])) /\ Piece(Stream, Line(j), j, n, 0)
    BY <1>5 DEF InProgress, InProgressAs
  <2>2. n \in 1 .. Len(Line(j)) - 1 /\ Len(Line(j)) \in Nat /\ Line(j) \in Seq(Octet)
    BY <2>1, BegunLaw, FrameLaw
  <2>3. n \in 0 .. Len(Line(j)) /\ 0 \in Nat
    BY <2>2
  <2> HIDE DEF n
  <2>4. Piece(Stream', Line(j), j, n, 0)
    BY <1>1, <1>2, <2>1, <2>2, <2>3, PieceInFront
  <2> QED BY <1>1, <1>3, <2>1, <2>4 DEF InProgress, InProgressAs, BegunAs, Place, n
<1>6. ASSUME Complete(j) PROVE Complete(j)'
  BY <1>1, <1>6 DEF Complete, CompleteAs, BegunAs, Place, First
<1> QED BY <1>1, <1>3, <1>5, <1>6

\* The frame that is sent is on the way, all of it and behind all others.
LEMMA SendStep ==
  ASSUME DecoderInv, DecoderInv', LabelInv, NEW c \in 0 .. Len(sent), DecodedUpTo(c), Send
  PROVE  DecodedUpTo(c)'
<1>1. UNCHANGED <<received, damaged>>
  BY DEF Send
<1> PICK k \in Nat : k = Len(sent) + 1
  BY LenProperties DEF DecoderInv
<1>2. /\ \A i \in DOMAIN sent : sent'[i] = sent[i]
      /\ DOMAIN sent' = DOMAIN sent \cup {k}
  BY SendStream
<1>3. /\ Stream \in Travelling /\ Stream' \in Travelling /\ Len(Stream) \in Nat
      /\ Len(sent) \in Nat /\ DOMAIN sent = 1 .. Len(sent)
  BY StreamType, StreamTypeNext, LenProperties DEF DecoderInv, Travelling
<1>4. ASSUME NEW j \in DOMAIN sent, Unreached(j) PROVE Unreached(j)'
  <2>1. PICK a \in 0 .. Len(Stream) : Piece(Stream, Line(j), j, 0, a)
    BY <1>4 DEF Unreached
  <2>2. Line(j) \in Seq(Octet) /\ 0 < Len(Line(j)) /\ a \in Nat
    BY <1>3, FrameLaw
  <2>3. Piece(Stream', Line(j)', j, 0, a) /\ Line(j)' = Line(j)
    BY <2>1, <2>2, PieceSent, ProgressSent
  <2>4. a \in 0 .. Len(Stream')
    BY <1>3, <2>2, <2>3, UnreachedAt
  <2> QED BY <2>3, <2>4 DEF Unreached
<1>5. Unreached(k)'
  <2> DEFINE n == Len(Line(k)')
  <2>1. /\ n \in Nat /\ n >= 6 /\ Len(Stream') = Len(Stream) + n
        /\ \A m \in 0 .. n - 1 : Piece(Stream', Line(k)', k, m, Len(Stream) + m)
    BY SentPiece
  <2>2. 0 \in 0 .. n - 1 /\ Len(Stream) + 0 \in 0 .. Len(Stream')
    BY <1>3, <2>1
  <2>3. Piece(Stream', Line(k)', k, 0, Len(Stream) + 0)
    BY <2>1, <2>2
  <2> QED BY <2>2, <2>3 DEF Unreached
<1>6. ASSUME NEW j \in DOMAIN sent', j \notin damaged', j > c
      PROVE  Unreached(j)' \/ (j = c + 1 /\ (InProgress(j)' \/ Complete(j)'))
  <2>1. CASE j = k
    BY <1>5, <2>1
  <2>2. CASE j \in DOMAIN sent
    BY <1>1, <1>4, <1>6, <2>2, ProgressSent DEF DecodedUpTo
  <2> QED BY <1>2, <2>1, <2>2
<1>7. Embeds((1 .. c) \ damaged, sent', received)
  <2>1. Embeds((1 .. c) \ damaged, sent, received)
    BY DEF DecodedUpTo
  <2>2. \A i \in (1 .. c) \ damaged : sent'[i] = sent[i]
    BY <1>2, <1>3
  <2> QED BY <2>1, <2>2, EmbedsSource
<1> QED BY <1>1, <1>6, <1>7 DEF DecodedUpTo
-----------------------------------------------------------------------------
(* The invariant *)

\* Frames stay in order when an octet is taken.
LEMMA LabelledTail ==
  ASSUME NEW s \in Travelling, s # <<>>, NEW frames, Labelled(s, frames)
  PROVE  Labelled(Tail(s), frames)
<1>1. s = <<s[1]>> \o Tail(s) /\ s[1] \in Carried /\ Tail(s) \in Travelling
  BY HeadAndTail
<1>2. <<s[1]>> \in Travelling
  BY <1>1 DEF Travelling
<1> DEFINE x == <<s[1]>>
           t == Tail(s)
<1>3. x \in Travelling /\ t \in Travelling /\ Labelled(x \o t, frames)
  BY <1>1, <1>2
<1> HIDE DEF x, t
<1>4. Labelled(t, frames)
  BY <1>3, LabelledSplit
<1> QED BY <1>4 DEF t

\* Each step preserves IdleInv: the decoder starts every frame afresh.
LEMMA IdleStep ==
  ASSUME DecoderInv, IdleInv, Next
  PROVE  IdleInv'
<1> DEFINE d == yahdlc_state
<1>1. ASSUME UNCHANGED yahdlc_state PROVE IdleInv'
  BY <1>1 DEF IdleInv
<1>2. ASSUME yahdlc_state' = yahdlc_reset_state PROVE IdleInv'
  BY <1>2 DEF IdleInv, yahdlc_reset_state
<1>3. d \in DecoderState
  BY DEF DecoderInv, DecoderOK
<1>4. d.length \in Nat /\ (d.started => d.length >= 1)
  BY <1>3 DEF DecoderState, IdleInv
<1>5. ASSUME d.started, yahdlc_state'.started, yahdlc_state'.length = d.length + 1
      PROVE  IdleInv'
  BY <1>4, <1>5 DEF IdleInv
<1>6. CASE SkipOctet \/ SkipFlag \/ Send \/ Carry \/ dcProcessData
  BY <1>1, <1>6 DEF SkipOctet, SkipFlag, Send, Carry, dcProcessData
<1>7. CASE StartFrame
  <2>1. d = yahdlc_reset_state
    BY <1>7 DEF StartFrame, IdleInv
  <2>2. yahdlc_state' = [yahdlc_reset_state EXCEPT !.started = TRUE, !.length = 1]
    BY <1>7, <2>1 DEF StartFrame
  <2>3. yahdlc_state'.started /\ yahdlc_state'.length = 1
    BY <2>2 DEF yahdlc_reset_state
  <2> QED BY <2>2, <2>3 DEF IdleInv
<1>8. CASE TakeEscape
  <2>1. yahdlc_state'.started = d.started /\ yahdlc_state'.length = d.length + 1
    BY <1>3, <1>8 DEF TakeEscape, DecoderState
  <2> QED BY <1>5, <1>8, <2>1 DEF TakeEscape
<1>9. CASE TakeOctet
  <2>1. CASE yahdlc_state' = yahdlc_reset_state
    BY <1>2, <2>1
  <2>2. CASE yahdlc_state' # yahdlc_reset_state
    <3>1. yahdlc_state'.started = d.started /\ yahdlc_state'.length = d.length + 1
      BY <1>3, <1>9, <2>2 DEF TakeOctet, DecoderState
    <3> QED BY <1>5, <1>9, <3>1 DEF TakeOctet
  <2> QED BY <2>1, <2>2
<1>10. CASE EndFrame
  BY <1>2, <1>10 DEF EndFrame
<1> QED BY <1>6, <1>7, <1>8, <1>9, <1>10 DEF Next, Decode

\* Each step preserves LabelInv: octets are lost or added, and never overtake.
LEMMA LabelStep ==
  ASSUME DecoderInv, DecoderInv', LabelInv, Next
  PROVE  LabelInv'
<1>1. /\ Stream \in Travelling /\ damaged \subseteq DOMAIN sent
      /\ Labelled(Stream, DOMAIN sent)
  BY StreamType DEF LabelInv
<1>2. ASSUME Stream' = Stream, UNCHANGED <<sent, damaged>> PROVE LabelInv'
  BY <1>1, <1>2 DEF LabelInv
<1>3. ASSUME chunk # <<>>, chunk' = Tail(chunk), UNCHANGED <<arrived, wire, sent, damaged>>
      PROVE  LabelInv'
  <2>1. Stream # <<>> /\ Stream' = Tail(Stream)
    BY <1>3, StreamHead, StreamTail
  <2>2. Labelled(Stream', DOMAIN sent)
    BY <1>1, <2>1, LabelledTail
  <2> QED BY <1>1, <1>3, <2>2 DEF LabelInv
<1>4. CASE SkipOctet \/ SkipFlag \/ StartFrame \/ TakeEscape
  BY <1>3, <1>4 DEF SkipOctet, SkipFlag, StartFrame, TakeEscape, Consume, Elsewhere
<1>5. CASE TakeOctet
  <2>1. chunk # <<>> /\ UNCHANGED <<arrived, wire, sent, damaged>>
    BY <1>5 DEF TakeOctet, Elsewhere
  <2>2. chunk' = chunk \/ chunk' = Tail(chunk)
    BY <1>5 DEF TakeOctet, Consume
  <2> QED BY <1>2, <1>3, <2>1, <2>2 DEF Stream
<1>6. CASE EndFrame
  <2>1. UNCHANGED <<arrived, wire, sent>>
    BY <1>6 DEF EndFrame
  <2>2. \/ chunk' = chunk /\ damaged' = damaged
        \/ chunk' = <<>> /\ damaged' = damaged \cup {chunk[i].of : i \in DOMAIN chunk}
    BY <1>6 DEF EndFrame, Remaining
  <2>3. CASE chunk' = chunk /\ damaged' = damaged
    BY <1>2, <2>1, <2>3 DEF Stream
  <2>4. CASE chunk' = <<>> /\ damaged' = damaged \cup {chunk[i].of : i \in DOMAIN chunk}
    <3> DEFINE t == arrived \o wire
    <3>1. chunk \in Travelling /\ t \in Travelling /\ Stream = chunk \o t
      BY ChunkAndRest
    <3>2. Stream' = t
      BY <2>1, <2>4, ChunkAndRest DEF Stream
    <3> HIDE DEF t
    <3>3. Labelled(chunk, DOMAIN sent) /\ Labelled(t, DOMAIN sent)
      BY <1>1, <3>1, LabelledSplit
    <3>4. damaged' \subseteq DOMAIN sent
      BY <1>1, <2>4, <3>3 DEF Labelled
    <3> QED BY <2>1, <3>2, <3>3, <3>4 DEF LabelInv
  <2> QED BY <2>2, <2>3, <2>4
<1>7. CASE Send
  <2> PICK k \in Nat : k = Len(sent) + 1
    BY LenProperties DEF DecoderInv
  <2>1. /\ DOMAIN sent' = DOMAIN sent \cup {k} /\ k \in DOMAIN sent'
        /\ wire' = [i \in DOMAIN Line(k)' |-> [value |-> Line(k)'[i], of |-> k]]
        /\ Stream' = Stream \o wire'
    BY <1>7, SendStream
  <2>2. wire' \in Travelling /\ DOMAIN sent = 1 .. Len(sent) /\ Len(sent) \in Nat
    BY LenProperties DEF DecoderInv
  <2>3. \A p \in DOMAIN wire' : wire'[p].of = k
    BY <2>1
  <2>4. Labelled(wire', DOMAIN sent') /\ Labelled(Stream, DOMAIN sent')
    BY <1>1, <2>1, <2>3 DEF Labelled
  <2>5. \A p \in DOMAIN Stream, q \in DOMAIN wire' : Stream[p].of <= wire'[q].of
    <3>1. \A p \in DOMAIN Stream : Stream[p].of \in 1 .. Len(sent)
      BY <1>1, <2>2 DEF Labelled
    <3>2. \A i \in 1 .. Len(sent) : i <= k
      BY <2>2
    <3> QED BY <2>3, <3>1, <3>2
  <2>6. Labelled(Stream', DOMAIN sent')
    <3> HIDE DEF DecoderInv
    <3> QED BY <1>1, <2>1, <2>2, <2>4, <2>5, LabelledJoin
  <2>7. damaged' = damaged
    BY <1>7 DEF Send
  <2> QED BY <1>1, <2>1, <2>6, <2>7 DEF LabelInv
<1>8. CASE Carry
  <2>1. PICK s \in Travelling, t \in Travelling, y \in Travelling, x \in Carried :
          /\ Stream = s \o (<<x>> \o t) /\ Stream' = s \o (y \o t)
          /\ \A i \in DOMAIN y : y[i].of = x.of
          /\ damaged' \subseteq damaged \cup {x.of}
    BY <1>8, CarryStream
  <2>2. sent' = sent
    BY <1>8 DEF Carry
  <2> DEFINE X == <<x>>
             xt == X \o t
             yt == y \o t
  <2>3. /\ X \in Travelling /\ DOMAIN X = {1} /\ X[1] = x
        /\ xt \in Travelling /\ yt \in Travelling
    <3>1. X \in Travelling /\ DOMAIN X = {1} /\ X[1] = x
      BY DEF Travelling
    <3> HIDE DEF X
    <3> QED BY <3>1, ConcatProperties DEF Travelling
  <2> HIDE DEF X
  <2>4. /\ Labelled(s, DOMAIN sent) /\ Labelled(xt, DOMAIN sent)
        /\ \A p \in DOMAIN s, q \in DOMAIN xt : s[p].of <= xt[q].of
    <3>1. Labelled(s \o xt, DOMAIN sent)
      BY <1>1, <2>1 DEF X
    <3> HIDE DEF xt
    <3> QED BY <2>3, <3>1, LabelledSplit
  <2>5. /\ Labelled(X, DOMAIN sent) /\ Labelled(t, DOMAIN sent)
        /\ \A p \in DOMAIN X, q \in DOMAIN t : X[p].of <= t[q].of
    BY <2>3, <2>4, LabelledSplit
  <2>6. x.of \in DOMAIN sent /\ \A q \in DOMAIN t : x.of <= t[q].of
    BY <2>3, <2>5 DEF Labelled
  <2>7. x.of \in Nat /\ Labelled(y, DOMAIN sent)
    BY <2>1, <2>6 DEF Labelled, Carried
  <2>8. Labelled(yt, DOMAIN sent)
    BY <2>1, <2>5, <2>6, <2>7, LabelledJoin
  <2>9. \A p \in DOMAIN s, q \in DOMAIN yt : s[p].of <= yt[q].of
    <3>1. \A q \in DOMAIN yt : \/ q \in DOMAIN y /\ yt[q] = y[q]
                               \/ q - Len(y) \in DOMAIN t /\ yt[q] = t[q - Len(y)]
      BY ConcatCases
    <3>2. /\ 1 \in DOMAIN xt /\ xt[1] = x
          /\ \A q \in DOMAIN t : Len(X) + q \in DOMAIN xt /\ xt[Len(X) + q] = t[q]
      BY <2>3, ConcatCases
    <3> HIDE DEF xt, yt
    <3>3. \A p \in DOMAIN s : s[p].of <= x.of /\ \A q \in DOMAIN t : s[p].of <= t[q].of
      BY <2>4, <3>2
    <3> QED BY <2>1, <3>1, <3>3
  <2>10. Labelled(s \o yt, DOMAIN sent)
    <3> HIDE DEF yt
    <3> QED BY <2>3, <2>4, <2>8, <2>9, LabelledJoin
  <2> QED BY <1>1, <2>1, <2>2, <2>6, <2>10 DEF LabelInv
<1>9. CASE dcProcessData
  <2>1. Stream' = Stream
    <3>1. <<>> \o arrived = arrived /\ arrived \o <<>> = arrived
      BY ConcatEmptySeq DEF DecoderInv, Travelling
    <3> QED BY <1>9, <3>1 DEF dcProcessData, Stream
  <2> QED BY <1>2, <1>9, <2>1 DEF dcProcessData
<1> QED BY <1>4, <1>5, <1>6, <1>7, <1>8, <1>9 DEF Next, Decode

\* Nothing was sent.
LEMMA UndamagedInit == Init => UndamagedInv
<1> SUFFICES ASSUME Init PROVE UndamagedInv
  OBVIOUS
<1>1. /\ yahdlc_state = yahdlc_reset_state /\ sent = <<>> /\ received = <<>> /\ damaged = {}
      /\ Stream = <<>> \o <<>> \o <<>>
  BY DEF Init, Stream
<1>2. Stream = <<>>
  BY <1>1
<1>3. LabelInv
  BY <1>1, <1>2 DEF LabelInv, Labelled
<1>4. IdleInv
  BY <1>1 DEF IdleInv, yahdlc_reset_state
<1>5. DecodedUpTo(0)
  <2>1. Embeds({}, sent, received)
    <3> DEFINE g == [i \in {} |-> 0]
    <3>1. g \in [{} -> DOMAIN received]
      OBVIOUS
    <3> QED BY <3>1 DEF Embeds
  <2>2. (1 .. 0) \ damaged = {}
    OBVIOUS
  <2> QED BY <1>1, <2>1, <2>2 DEF DecodedUpTo
<1>6. 0 \in 0 .. Len(sent)
  BY <1>1
<1> QED BY <1>3, <1>4, <1>5, <1>6 DEF UndamagedInv

\* A flag between two frames is skipped, or taken for the first one of a frame.
LEMMA FlagStep ==
  ASSUME DecoderInv, LabelInv, IdleInv, NEW c \in 0 .. Len(sent), DecodedUpTo(c),
         SkipFlag \/ StartFrame
  PROVE  \E e \in 0 .. Len(sent') : DecodedUpTo(e)'
<1>1. sent' = sent
  BY DEF SkipFlag, StartFrame, Elsewhere
<1>2. CASE \E j \in DOMAIN sent \ damaged : j > c /\ Piece(Stream, Line(j), j, 0, 0)
  <2>1. PICK j \in DOMAIN sent \ damaged : j > c /\ Piece(Stream, Line(j), j, 0, 0)
    BY <1>2
  <2>2. DecodedUpTo(j - 1)'
    BY <2>1, OpeningFlagStep
  <2>3. j - 1 \in 0 .. Len(sent')
    BY <1>1, <2>1, LenProperties DEF DecoderInv
  <2> QED BY <2>2, <2>3
<1>3. CASE \A j \in DOMAIN sent \ damaged : j > c => ~Piece(Stream, Line(j), j, 0, 0)
  BY <1>1, <1>3, OtherFlagStep
<1> QED BY <1>2, <1>3

\* Each step preserves UndamagedInv.
LEMMA UndamagedStep ==
  DecoderInv /\ DecoderInv' /\ UndamagedInv /\ [Next]_vars => UndamagedInv'
<1> SUFFICES ASSUME DecoderInv, DecoderInv', UndamagedInv, [Next]_vars
             PROVE  UndamagedInv'
  OBVIOUS
<1>1. LabelInv /\ IdleInv
  BY DEF UndamagedInv
<1>2. PICK c \in 0 .. Len(sent) : DecodedUpTo(c)
  BY DEF UndamagedInv
<1>3. CASE Next
  <2>1. LabelInv' /\ IdleInv'
    BY <1>1, <1>3, LabelStep, IdleStep
  <2>2. CASE SkipOctet
    <3>1. DecodedUpTo(c)' /\ sent' = sent
      BY <1>2, <2>2, SkipOctetStep DEF SkipOctet, Elsewhere
    <3> QED BY <2>1, <3>1 DEF UndamagedInv
  <2>3. CASE SkipFlag \/ StartFrame
    BY <1>1, <1>2, <2>1, <2>3, FlagStep DEF UndamagedInv
  <2>4. CASE TakeEscape
    <3>1. DecodedUpTo(c)' /\ sent' = sent
      BY <1>2, <2>4, TakeEscapeStep DEF TakeEscape, Elsewhere
    <3> QED BY <2>1, <3>1 DEF UndamagedInv
  <2>5. CASE TakeOctet
    <3>1. DecodedUpTo(c)' /\ sent' = sent
      BY <1>2, <2>5, TakeOctetStep DEF TakeOctet, Elsewhere
    <3> QED BY <2>1, <3>1 DEF UndamagedInv
  <2>6. CASE EndFrame
    BY <1>1, <1>2, <2>1, <2>6, EndFrameStep DEF UndamagedInv
  <2>7. CASE Send
    <3>1. DecodedUpTo(c)'
      BY <1>1, <1>2, <2>7, SendStep
    <3>2. c \in 0 .. Len(sent')
      <4> PICK k \in Nat : k = Len(sent) + 1
        BY LenProperties DEF DecoderInv
      <4>1. Len(sent') = k
        BY <2>7, SendStream
      <4>2. Len(sent) \in Nat
        BY LenProperties DEF DecoderInv
      <4> QED BY <4>1, <4>2
    <3> QED BY <2>1, <3>1, <3>2 DEF UndamagedInv
  <2>8. CASE Carry
    <3>1. DecodedUpTo(c)' /\ sent' = sent
      BY <1>2, <2>8, CarryStep DEF Carry
    <3> QED BY <2>1, <3>1 DEF UndamagedInv
  <2>9. CASE dcProcessData
    <3>1. DecodedUpTo(c)' /\ sent' = sent
      BY <1>2, <2>9, dcProcessDataStep DEF dcProcessData
    <3> QED BY <2>1, <3>1 DEF UndamagedInv
  <2> QED BY <1>3, <2>2, <2>3, <2>4, <2>5, <2>6, <2>7, <2>8, <2>9 DEF Next, Decode
<1>4. CASE UNCHANGED vars
  <2>1. UNCHANGED <<yahdlc_state, chunk, sent, received, damaged>> /\ Stream' = Stream
    BY <1>4 DEF vars, Stream
  <2>2. LabelInv' /\ IdleInv'
    BY <1>1, <2>1 DEF LabelInv, IdleInv
  <2>3. ASSUME NEW j \in DOMAIN sent
        PROVE  /\ Unreached(j) => Unreached(j)'
               /\ InProgress(j) => InProgress(j)'
               /\ Complete(j) => Complete(j)'
    <3>1. Unreached(j) => Unreached(j)'
      BY <2>1 DEF Unreached, Line
    <3>2. InProgress(j) => InProgress(j)'
      BY <2>1 DEF InProgress, InProgressAs, BegunAs, Place, Line
    <3>3. Complete(j) => Complete(j)'
      BY <2>1 DEF Complete, CompleteAs, BegunAs, Place, First
    <3> QED BY <3>1, <3>2, <3>3
  <2>4. DecodedUpTo(c)'
    BY <1>2, <2>1, <2>3 DEF DecodedUpTo
  <2> QED BY <2>1, <2>2, <2>4 DEF UndamagedInv
<1> QED BY <1>3, <1>4

\* When nothing is on the way the invariant is the property.
LEMMA NothingLeft ==
  ASSUME DecoderInv, UndamagedInv, AllCarried
  PROVE  Embeds(DOMAIN sent \ damaged, sent, received)
<1>1. PICK c \in 0 .. Len(sent) : DecodedUpTo(c)
  BY DEF UndamagedInv
<1>2. chunk = <<>> /\ Stream = <<>>
  <2>1. chunk = <<>> /\ arrived = <<>> /\ wire = <<>>
    BY DEF AllCarried
  <2>2. Stream = <<>> \o <<>> \o <<>>
    BY <2>1 DEF Stream
  <2> QED BY <2>1, <2>2
<1>3. ASSUME NEW j \in DOMAIN sent \ damaged, j > c PROVE FALSE
  <2>1. ASSUME NEW k \in Nat, k < Len(Line(j)), NEW a \in Nat, Piece(Stream, Line(j), j, k, a)
        PROVE  FALSE
    <3> DEFINE line == Line(j)
    <3>1. Stream \in Travelling /\ line \in Seq(Octet)
      BY StreamType, FrameLaw
    <3> HIDE DEF line
    <3>2. k < Len(line) /\ Piece(Stream, line, j, k, a)
      BY <2>1 DEF line
    <3> QED BY <1>2, <3>1, <3>2, PieceNext
  <2>2. Len(Line(j)) \in Nat /\ Len(Line(j)) >= 6
    BY FrameLaw
  <2>3. CASE Unreached(j)
    <3>1. PICK a \in 0 .. Len(Stream) : Piece(Stream, Line(j), j, 0, a)
      BY <2>3 DEF Unreached
    <3>2. a \in Nat
      BY <1>2
    <3> QED BY <2>1, <2>2, <3>1, <3>2
  <2>4. CASE InProgress(j)
    <3>1. /\ BegunAs(j, WithFcs(sent[j]))
          /\ Piece(Stream, Line(j), j, yahdlc_state.length, 0)
      BY <2>4 DEF InProgress, InProgressAs
    <3>2. yahdlc_state.length \in 1 .. Len(Line(j)) - 1
      BY <3>1, BegunLaw
    <3>3. yahdlc_state.length \in Nat /\ yahdlc_state.length < Len(Line(j))
      BY <2>2, <3>2
    <3> QED BY <2>1, <3>1, <3>3
  <2>5. CASE Complete(j)
    BY <1>2, <2>5 DEF Complete, CompleteAs
  <2> QED BY <1>1, <1>3, <2>3, <2>4, <2>5 DEF DecodedUpTo
<1>4. DOMAIN sent \ damaged \subseteq (1 .. c) \ damaged
  <2>1. DOMAIN sent = 1 .. Len(sent) /\ Len(sent) \in Nat
    BY LenProperties DEF DecoderInv
  <2> QED BY <1>3, <2>1
<1>5. Embeds((1 .. c) \ damaged, sent, received)
  BY <1>1 DEF DecodedUpTo
<1> QED BY <1>4, <1>5, EmbedsLess

\* Both invariants hold in each behaviour.
LEMMA UndamagedInvariant == Spec => [](DecoderInv /\ UndamagedInv)
BY DecoderInit, DecoderStep, UndamagedInit, UndamagedStep, PTL DEF Spec

\* The inductive invariant, the same one a run checks: of the frames that nothing
\* happened to, those up to some frame are decoded and the others are on the way, the
\* first of them perhaps half decoded.
THEOREM UndamagedInvCorrect == Spec => []UndamagedInv
BY UndamagedInvariant, PTL

\* Whatever the line does to other frames, wherever chunks are cut and whichever calls
\* an external method ends: once everything has been carried, each frame whose octets
\* all arrived was decoded, unchanged and in order.
THEOREM UndamagedReceivedCorrect == Spec => []UndamagedReceived
<1>1. DecoderInv /\ UndamagedInv => UndamagedReceived
  BY NothingLeft DEF UndamagedReceived
<1> QED BY <1>1, UndamagedInvariant, PTL
-----------------------------------------------------------------------------
(* The lines that a frame may arrive as, if the line was gentle *)

\* Each octet of a frame has a place of its own.
LEMMA PlaceGrows ==
  ASSUME DecoderInv, NEW j \in DOMAIN sent, NEW m \in 1 .. Len(WithFcs(sent[j])),
         NEW k \in 1 .. Len(WithFcs(sent[j])), m < k
  PROVE  Place(j, m) < Place(j, k)
<1> DEFINE f == sent[j]
           octets == WithFcs(f)
           n == Len(octets)
<1>1. Sound(f) /\ octets \in Seq(Octet) /\ n \in Nat
  BY FrameLaw, FrameOctets, LenProperties
<1>2. Taken(f, m + 1) = Taken(f, m) + 1 \/ Taken(f, m + 1) = Taken(f, m) + 2
  <2>1. m \in 0 .. n - 1
    BY <1>1
  <2> QED BY <1>1, <2>1, LineLaw
<1>3. /\ Taken(f, m) \in Nat /\ Taken(f, k) \in Nat /\ Taken(f, m + 1) \in Nat
      /\ Taken(f, m + 1) <= Taken(f, k)
  <2>1. m \in 0 .. n /\ k \in 0 .. n /\ m + 1 \in 0 .. n /\ k \in m + 1 .. n
    BY <1>1
  <2>2. ASSUME NEW i \in 0 .. n PROVE Len(Escaped(octets)[i]) \in Nat
    <3>1. Escaped(octets)[i] \in Seq(Octet)
      BY <1>1, EscapedLaw DEF FlagFree
    <3> QED BY <3>1, LenProperties
  <2>3. Len(Escaped(octets)[m + 1]) <= Len(Escaped(octets)[k])
    BY <1>1, <2>1, EscapedGrows
  <2>4. /\ Len(Escaped(octets)[m]) \in Nat /\ Len(Escaped(octets)[k]) \in Nat
        /\ Len(Escaped(octets)[m + 1]) \in Nat
    BY <2>1, <2>2
  <2>5. ASSUME NEW a \in Nat, NEW b \in Nat, NEW e \in Nat, e <= b
        PROVE  1 + a \in Nat /\ 1 + b \in Nat /\ 1 + e \in Nat /\ 1 + e <= 1 + b
    BY <2>5
  <2> HIDE DEF octets
  <2> QED BY <2>3, <2>4, <2>5 DEF Taken, octets
<1>4. Place(j, m) = Taken(f, m) /\ Place(j, k) = Taken(f, k)
  BY DEF Place, Taken
<1> QED BY <1>2, <1>3, <1>4

\* On each of its lines the decoder reads the frame's octets, or others that differ from
\* them in one.
LEMMA VariantLaw ==
  ASSUME DecoderInv, NEW j \in DOMAIN sent, NEW l \in Variants(j)
  PROVE  LET octets == WithFcs(sent[j])
             t == Read(j, l)
         IN  /\ ReadsAs(j, l, t)
             /\ t = octets \/ \E k \in 1 .. Len(octets) : ShortBurst(octets, t, k)
<1> DEFINE octets == WithFcs(sent[j])
           n == Len(octets)
           line == Line(j)
           t == Read(j, l)
<1>1. /\ Sound(sent[j]) /\ line \in Seq(Octet) /\ Len(line) \in Nat
      /\ octets \in Seq(Octet) /\ n \in Nat /\ DOMAIN octets = 1 .. n
      /\ DOMAIN line = 1 .. Len(line)
  BY FrameLaw, FrameOctets, LenProperties
<1>2. ReadsAs(j, line, octets)
  BY IntactReads
<1>3. \A m \in 1 .. n :
        /\ octets[m] = LET v == line[Place(j, m)] IN IF octets[m] \in {Flag, Escape} THEN Flip(v) ELSE v
        /\ t[m] = LET v == l[Place(j, m)] IN IF octets[m] \in {Flag, Escape} THEN Flip(v) ELSE v
  BY <1>1, <1>2 DEF ReadsAs, Read
<1>4. DOMAIN t = 1 .. n
  BY <1>1 DEF Read
<1>5. CASE l = line
  <2>1. octets = [m \in 1 .. n |-> octets[m]] /\ t = [m \in 1 .. n |-> t[m]]
    <3>1. octets = [m \in 1 .. n |-> octets[m]]
      BY <1>1
    <3>2. t = [m \in 1 .. n |-> t[m]]
      BY <1>1 DEF Read
    <3> QED BY <3>1, <3>2
  <2> HIDE DEF t, octets, n, line
  <2>2. \A m \in 1 .. n : t[m] = octets[m]
    BY <1>3, <1>5
  <2>3. t = octets
    BY <2>1, <2>2
  <2> QED BY <1>2, <1>5, <2>3 DEF t, octets, n, line
<1>6. ASSUME l # line
      PROVE  \E i \in 1 .. Len(line) : line[i] \in Ordinary
               /\ \E v \in Ordinary : l = [line EXCEPT ![i] = v]
  BY <1>1, <1>6 DEF Variants
<1> HIDE DEF t, octets, n, line
<1>7. CASE l # line
  <2>1. PICK i \in 1 .. Len(line), v \in Ordinary :
               line[i] \in Ordinary /\ l = [line EXCEPT ![i] = v]
    BY <1>6, <1>7
  <2>2. /\ l[i] = v /\ v \in Octet /\ v \notin {Flag, Escape} /\ line[i] \notin {Flag, Escape}
        /\ \A k \in 1 .. Len(line) : k # i => l[k] = line[k]
    BY <1>1, <2>1 DEF Ordinary
  <2>3. l \in Seq(Octet) /\ Len(l) = Len(line)
    <3>1. l \in [1 .. Len(line) -> Octet]
      <4>1. line \in [1 .. Len(line) -> Octet]
        BY <1>1, ElementOfSeq
      <4> QED BY <2>1, <2>2, <4>1
    <3>2. DOMAIN l = 1 .. Len(line)
      BY <3>1
    <3>3. l \in Seq(Octet)
      BY <1>1, <3>1, IsASeq
    <3> QED BY <1>1, <3>2, <3>3, LenProperties
  <2>4. \A k \in 1 .. Len(line) : /\ l[k] = Flag <=> line[k] = Flag
                                  /\ l[k] = Escape <=> line[k] = Escape
    BY <2>2
  <2>5. \A m \in 1 .. n : Place(j, m) \in 1 .. Len(line)
    <3>1. \A m \in 0 .. n : Taken(sent[j], m) \in 1 .. Len(line) - 1
      BY <1>1, LineLaw DEF Line, line, octets, n
    <3>2. \A m \in 1 .. n : Place(j, m) = Taken(sent[j], m)
      BY DEF Place, Taken
    <3>3. \A m \in 1 .. n : m \in 0 .. n
      BY <1>1
    <3>4. \A k \in 1 .. Len(line) - 1 : k \in 1 .. Len(line)
      BY <1>1
    <3> QED BY <3>1, <3>2, <3>3, <3>4
  <2>6. t \in Seq(Octet) /\ Len(t) = n
    <3>1. ASSUME NEW m \in 1 .. n PROVE t[m] \in Octet
      <4>1. l[Place(j, m)] \in Octet
        BY <2>3, <2>5, ElementOfSeq
      <4> QED BY <1>3, <4>1, FlipType
    <3>2. t = [m \in 1 .. n |-> t[m]]
      BY <1>1 DEF Read, t, octets, n
    <3>3. t \in [1 .. n -> Octet]
      BY <3>1, <3>2
    <3>4. t \in Seq(Octet)
      BY <1>1, <3>3, IsASeq
    <3> QED BY <1>1, <1>4, <3>4, LenProperties
  <2>7. ReadsAs(j, l, t)
    <3>1. /\ l \in Seq(Octet) /\ Len(l) = Len(Line(j))
          /\ t \in Seq(Octet) /\ Len(t) = Len(WithFcs(sent[j]))
          /\ \A k \in 1 .. Len(Line(j)) : /\ l[k] = Flag <=> Line(j)[k] = Flag
                                          /\ l[k] = Escape <=> Line(j)[k] = Escape
      BY <2>3, <2>4, <2>6 DEF line, octets, n
    <3>2. \A m \in 1 .. Len(WithFcs(sent[j])) :
            t[m] = LET w == l[Place(j, m)]
                   IN  IF WithFcs(sent[j])[m] \in {Flag, Escape} THEN Flip(w) ELSE w
      BY <1>3 DEF octets, n
    <3> QED BY <3>1, <3>2 DEF ReadsAs
  <2>8. ASSUME NEW m \in 1 .. n, octets[m] # t[m] PROVE Place(j, m) = i
    <3>1. l[Place(j, m)] # line[Place(j, m)]
      BY <1>3, <2>8
    <3> QED BY <2>2, <2>5, <3>1
  <2>9. CASE t = octets
    BY <2>7, <2>9 DEF t, octets
  <2>10. CASE t # octets
    <3>1. PICK k \in 1 .. n : octets[k] # t[k]
      <4>1. octets = [m \in 1 .. n |-> octets[m]] /\ t = [m \in 1 .. n |-> t[m]]
        <5>1. octets = [m \in 1 .. n |-> octets[m]]
          BY <1>1
        <5>2. t = [m \in 1 .. n |-> t[m]]
          BY <1>1 DEF Read, t, octets, n
        <5> QED BY <5>1, <5>2
      <4> QED BY <2>10, <4>1
    <3>2. ASSUME NEW m \in 1 .. n, octets[m] # t[m] PROVE m = k
      <4>1. Place(j, m) = i /\ Place(j, k) = i /\ i \in Nat
        BY <2>8, <3>1, <3>2
      <4>2. ~(m < k) /\ ~(k < m)
        BY <4>1, PlaceGrows DEF octets, n
      <4> QED BY <1>1, <4>2
    <3>3. ShortBurst(octets, t, k)
      <4>1. \A m \in 1 .. Len(octets) : octets[m] # t[m] => m = k \/ m = k + 1
        BY <3>2 DEF n
      <4>2. Len(octets) = Len(t) /\ octets # t
        BY <2>6, <2>10 DEF n
      <4> QED BY <4>1, <4>2 DEF ShortBurst
    <3> QED BY <2>7, <3>3 DEF t, octets, n
  <2> QED BY <2>9, <2>10
<1> QED BY <1>5, <1>7

\* The lines of a frame have a flag in front and one at the end, and no other.
LEMMA VariantLine ==
  ASSUME DecoderInv, NEW j \in DOMAIN sent, NEW l \in Variants(j)
  PROVE  /\ l \in Seq(Octet) /\ Len(l) = Len(Line(j)) /\ Len(l) \in Nat /\ Len(l) >= 6
         /\ ReadsAs(j, l, Read(j, l)) /\ l[1] = Flag /\ l[2] # Flag
         /\ \A k \in 0 .. Len(l) - 1 : l[k + 1] = Flag => k = 0 \/ k = Len(l) - 1
<1> DEFINE line == Line(j)
<1>1. /\ Sound(sent[j]) /\ Len(line) \in Nat /\ Len(line) >= 6
      /\ line[1] = Flag /\ line[2] # Flag
  BY FrameLaw
<1>2. \A i \in 2 .. Len(line) - 1 : line[i] # Flag
  BY <1>1, LineLaw DEF Line
<1> HIDE DEF line
<1>3. ReadsAs(j, l, Read(j, l))
  BY VariantLaw
<1>4. /\ l \in Seq(Octet) /\ Len(l) = Len(line)
      /\ \A i \in 1 .. Len(line) : l[i] = Flag <=> line[i] = Flag
  BY <1>3 DEF ReadsAs, line
<1>5. 1 \in 1 .. Len(line) /\ 2 \in 1 .. Len(line)
  BY <1>1
<1>6. ASSUME NEW k \in 0 .. Len(line) - 1, l[k + 1] = Flag
      PROVE  k = 0 \/ k = Len(line) - 1
  <2>1. k + 1 \in 1 .. Len(line) /\ (k = 0 \/ k = Len(line) - 1 \/ k + 1 \in 2 .. Len(line) - 1)
    BY <1>1
  <2> QED BY <1>2, <1>4, <1>6, <2>1
<1> QED BY <1>1, <1>3, <1>4, <1>5, <1>6 DEF line

\* A step that leaves alone what was sent and damages no less keeps the lines of a frame.
Keeps(j) == sent'[j] = sent[j] /\ damaged \subseteq damaged' /\ (damage > 0 => damage' > 0)
KeepsAll == sent' = sent /\ damaged \subseteq damaged' /\ (damage > 0 => damage' > 0)

LEMMA VariantsKept ==
  ASSUME NEW j, Keeps(j)
  PROVE  /\ Line(j)' = Line(j) /\ \A m : Place(j, m)' = Place(j, m)
         /\ Variants(j) \subseteq Variants(j)'
         /\ \A l : Read(j, l)' = Read(j, l)
<1>1. Line(j)' = Line(j) /\ WithFcs(sent'[j]) = WithFcs(sent[j])
  BY DEF Keeps, Line
<1>2. \A m : Place(j, m)' = Place(j, m)
  BY <1>1 DEF Place
<1>3. Variants(j) \subseteq Variants(j)'
  <2>1. damage > 0 /\ j \in damaged => damage' > 0 /\ j \in damaged'
    BY DEF Keeps
  <2> SUFFICES ASSUME NEW l \in Variants(j), l # Line(j) PROVE l \in Variants(j)'
    BY <1>1 DEF Variants
  <2> PICK line : line = Line(j)
    OBVIOUS
  <2>2. damage > 0 /\ j \in damaged
    BY DEF Variants
  <2>3. PICK i \in DOMAIN line, v \in Ordinary : line[i] \in Ordinary /\ l = [line EXCEPT ![i] = v]
    BY DEF Variants
  <2>4. damage' > 0 /\ j \in damaged' /\ Line(j)' = line
    BY <1>1, <2>1, <2>2
  <2> DEFINE hit == {k \in DOMAIN line : damage' > 0 /\ j \in damaged' /\ line[k] \in Ordinary}
  <2>5. Variants(j)' = {line} \cup {[line EXCEPT ![k] = w] : k \in hit, w \in Ordinary}
    BY <2>4 DEF Variants
  <2>6. i \in hit
    BY <2>3, <2>4
  <2> DEFINE With(k, w) == [line EXCEPT ![k] = w]
  <2>7. l = With(i, v) /\ Variants(j)' = {line} \cup {With(k, w) : k \in hit, w \in Ordinary}
    BY <2>3, <2>5
  <2> HIDE DEF hit, With
  <2> QED BY <2>6, <2>7
<1>4. \A l : Read(j, l)' = Read(j, l)
  BY <1>1, <1>2 DEF Read
<1> QED BY <1>1, <1>2, <1>3, <1>4

\* A frame that arrives behind what is there still does.
LEMMA ArrivesKept ==
  ASSUME NEW j, Keeps(j), NEW a, Arrives(Stream', j, a)
  PROVE  \E line \in Variants(j)' : Piece(Stream', line, j, 0, a)
BY VariantsKept DEF Arrives

\* What is thrown away in front does not matter to a frame behind it.
LEMMA ArrivesRest ==
  ASSUME DecoderInv, NEW s \in Travelling, NEW t \in Travelling, NEW j \in DOMAIN sent,
         NEW a \in Nat, a >= Len(s), Arrives(s \o t, j, a)
  PROVE  Arrives(t, j, a - Len(s))
<1>1. PICK line \in Variants(j) : Piece(s \o t, line, j, 0, a)
  BY DEF Arrives
<1>2. line \in Seq(Octet) /\ 0 \in 0 .. Len(line)
  BY VariantLine
<1>3. Piece(t, line, j, 0, a - Len(s))
  BY <1>1, <1>2, PieceRest
<1> QED BY <1>3 DEF Arrives

\* Nor does it matter to the order of the frames.
LEMMA FramesRest ==
  ASSUME DecoderInv, NEW s \in Travelling, NEW t \in Travelling,
         Labelled(s \o t, DOMAIN sent), FrameAfterFrame(s \o t)
  PROVE  FrameAfterFrame(t)
<1> DEFINE u == s \o t
<1>1. /\ u \in Travelling /\ Len(u) = Len(s) + Len(t)
      /\ Len(s) \in Nat /\ Len(t) \in Nat /\ DOMAIN t = 1 .. Len(t)
  BY ConcatProperties, LenProperties DEF Travelling
<1>2. \A q \in DOMAIN t : Len(s) + q \in DOMAIN u /\ u[Len(s) + q] = t[q]
  BY ConcatCases
<1>3. Labelled(u, DOMAIN sent) /\ FrameAfterFrame(u)
  OBVIOUS
<1> SUFFICES ASSUME NEW q \in DOMAIN t
             PROVE  LET j == t[q].of
                    IN  \E line \in Variants(j), k \in 0 .. Len(Line(j)) - 1 :
                          LET end == q - 1 + Len(Line(j)) - k
                          IN  /\ Piece(t, line, j, k, q - 1)
                              /\ end = Len(t) \/ \E i \in DOMAIN sent : i > j /\ Arrives(t, i, end)
  BY DEF FrameAfterFrame
<1> DEFINE j == t[q].of
           p == Len(s) + q
<1>4. p \in DOMAIN u /\ u[p].of = j /\ j \in DOMAIN sent /\ q \in Nat /\ q > 0
  BY <1>1, <1>2, <1>3 DEF Labelled
<1> HIDE DEF p, j
<1>5. PICK line \in Variants(j), k \in 0 .. Len(Line(j)) - 1 :
        LET end == p - 1 + Len(Line(j)) - k
        IN  /\ Piece(u, line, j, k, p - 1)
            /\ end = Len(u) \/ \E i \in DOMAIN sent : i > j /\ Arrives(u, i, end)
  <2> HIDE DEF u
  <2>1. \A r \in DOMAIN u : \E l \in Variants(u[r].of), k \in 0 .. Len(Line(u[r].of)) - 1 :
          LET end == r - 1 + Len(Line(u[r].of)) - k
          IN  /\ Piece(u, l, u[r].of, k, r - 1)
              /\ end = Len(u) \/ \E i \in DOMAIN sent : i > u[r].of /\ Arrives(u, i, end)
    BY <1>3, Zenon DEF FrameAfterFrame
  <2> QED BY <1>4, <2>1
<1> DEFINE end == p - 1 + Len(Line(j)) - k
<1>6. Len(Line(j)) \in Nat /\ Len(Line(j)) >= 6 /\ line \in Seq(Octet) /\ Len(line) = Len(Line(j))
  BY <1>4, FrameLaw, VariantLine
<1>7. /\ k \in Nat /\ k < Len(Line(j)) /\ k \in 0 .. Len(line)
      /\ p - 1 \in Nat /\ p - 1 >= Len(s) /\ p - 1 - Len(s) = q - 1
      /\ end \in Nat /\ end >= Len(s) /\ end - Len(s) = q - 1 + Len(Line(j)) - k
  <2> PICK a \in Nat, n \in Nat : a = Len(s) /\ n = Len(Line(j)) /\ n >= 6
    BY <1>1, <1>6
  <2>1. k \in 0 .. n - 1 /\ q \in Nat /\ q > 0
    BY <1>4
  <2>2. p = a + q /\ p \in Nat
    BY <2>1 DEF p
  <2>3. /\ k \in Nat /\ k < n /\ k \in 0 .. n
        /\ p - 1 \in Nat /\ p - 1 >= a /\ (p - 1) - a = q - 1
        /\ (p - 1) + (n - k) \in Nat /\ (p - 1) + (n - k) >= a
        /\ ((p - 1) + (n - k)) - a = (q - 1) + (n - k)
    BY <2>1, <2>2
  <2>4. Len(line) = n
    BY <1>6
  <2>5. k \in Nat /\ k < Len(Line(j)) /\ k \in 0 .. Len(line)
    BY <2>3, <2>4, Zenon
  <2>6. p - 1 \in Nat /\ p - 1 >= Len(s) /\ p - 1 - Len(s) = q - 1
    BY <2>3, Zenon
  <2>7. end \in Nat /\ end >= Len(s) /\ end - Len(s) = q - 1 + Len(Line(j)) - k
    BY <2>3, Zenon
  <2> QED BY <2>5, <2>6, <2>7
<1>8. Piece(t, line, j, k, q - 1)
  <2>1. Piece(t, line, j, k, p - 1 - Len(s))
    <3>1. Piece(s \o t, line, j, k, p - 1)
      BY <1>5
    <3> QED BY <1>6, <1>7, <3>1, PieceRest
  <2> QED BY <1>7, <2>1
<1>9. \/ end - Len(s) = Len(t)
      \/ \E i \in DOMAIN sent : i > j /\ Arrives(t, i, end - Len(s))
  <2>1. \/ end = Len(u)
        \/ \E i \in DOMAIN sent : i > j /\ Arrives(u, i, end)
    BY <1>5
  <2> HIDE DEF end
  <2> QED BY <1>1, <1>7, <2>1, ArrivesRest
<1>10. \E l \in Variants(j), m \in 0 .. Len(Line(j)) - 1 :
          /\ Piece(t, l, j, m, q - 1)
          /\ \/ q - 1 + Len(Line(j)) - m = Len(t)
             \/ \E i \in DOMAIN sent : i > j /\ Arrives(t, i, q - 1 + Len(Line(j)) - m)
  <2> HIDE DEF end
  <2> QED BY <1>7, <1>8, <1>9
<1> QED BY <1>10 DEF j

\* The octets of later frames stay behind.
LEMMA LaterRest ==
  ASSUME NEW s \in Travelling, NEW t \in Travelling, Stream = s \o t, Stream' = t,
         NEW c, NEW k \in Nat, Later(c, k), NEW m \in Nat, m >= k - Len(s)
  PROVE  Later(c, m)'
<1>1. Len(s) \in Nat /\ DOMAIN t = 1 .. Len(t) /\ Len(t) \in Nat
  BY LenProperties DEF Travelling
<1>2. \A q \in DOMAIN t : Len(s) + q \in DOMAIN Stream /\ Stream[Len(s) + q] = t[q]
  BY ConcatCases
<1>3. ASSUME NEW q \in DOMAIN t, q > m PROVE t[q].of > c
  <2>1. Len(s) + q > k
    BY <1>1, <1>3
  <2> QED BY <1>2, <2>1 DEF Later
<1> QED BY <1>3 DEF Later

\* Behind a frame that is on the way come later frames.
LEMMA WholeThenLater ==
  ASSUME DecoderInv, LabelInv, NEW j \in DOMAIN sent, NEW end \in Nat,
         end = Len(Stream) \/ \E i \in DOMAIN sent : i > j /\ Arrives(Stream, i, end)
  PROVE  Later(j, end)
<1>1. /\ Stream \in Travelling /\ DOMAIN Stream = 1 .. Len(Stream) /\ Len(Stream) \in Nat
      /\ DOMAIN sent = 1 .. Len(sent) /\ Len(sent) \in Nat
  BY StreamType, LenProperties DEF Travelling, DecoderInv
<1>2. CASE end = Len(Stream)
  BY <1>1, <1>2 DEF Later
<1>3. CASE \E i \in DOMAIN sent : i > j /\ Arrives(Stream, i, end)
  <2>0. PICK i \in DOMAIN sent : i > j /\ Arrives(Stream, i, end)
    BY <1>3
  <2>1. PICK line : line \in Variants(i) /\ i > j /\ Piece(Stream, line, i, 0, end)
    BY <2>0 DEF Arrives
  <2>2. line \in Seq(Octet) /\ 0 < Len(line)
    BY <2>1, VariantLine
  <2>3. end + 1 \in 1 .. Len(Stream) /\ Stream[end + 1] = [value |-> line[0 + 1], of |-> i]
    <3>1. Stream \in Travelling /\ 0 \in Nat
      BY <1>1
    <3> QED BY <2>1, <2>2, <3>1, PieceNext
  <2>4. ASSUME NEW p \in DOMAIN Stream, p > end PROVE Stream[p].of > j
    <3>1. Stream[p].of \in Nat /\ p \in Nat /\ i \in Nat /\ j \in Nat
      <4>1. Stream[p].of \in DOMAIN sent
        BY DEF LabelInv, Labelled
      <4>2. ASSUME NEW n \in Nat, NEW l \in 1 .. n PROVE l \in Nat
        OBVIOUS
      <4> QED BY <1>1, <4>1, <4>2
    <3>2. CASE p = end + 1
      BY <2>1, <2>3, <3>2
    <3>3. CASE p # end + 1
      <4>1. end + 1 < p
        BY <2>4, <3>1, <3>3
      <4>2. Stream[end + 1].of <= Stream[p].of
        BY <1>1, <2>3, <4>1 DEF LabelInv, Labelled
      <4>3. Stream[end + 1].of = i
        BY <2>3
      <4> QED BY <2>1, <3>1, <4>2, <4>3
    <3> QED BY <3>2, <3>3
  <2> QED BY <2>4 DEF Later
<1> QED BY <1>2, <1>3

\* A flag at the decoder is the first octet of a frame, or the last one.
LEMMA FlagAhead ==
  ASSUME DecoderInv, LabelInv, FrameAfterFrame(Stream), chunk # <<>>, First = Flag
  PROVE  \E j \in DOMAIN sent :
            /\ Stream[1].of = j
            /\ \/ Arrives(Stream, j, 0) /\ Later(j, Len(Line(j)))
               \/ /\ Later(j, 1)
                  /\ Len(Stream) = 1 \/ \E i \in DOMAIN sent : Arrives(Stream, i, 1)
<1> DEFINE j == Stream[1].of
<1>1. /\ Stream \in Travelling /\ Stream # <<>> /\ Stream[1] = chunk[1]
      /\ DOMAIN Stream = 1 .. Len(Stream) /\ Len(Stream) \in Nat
  BY StreamType, StreamHead, LenProperties DEF Travelling
<1>2. 1 \in DOMAIN Stream
  <2>1. Len(Stream) # 0
    BY <1>1, EmptySeq DEF Travelling
  <2> QED BY <1>1, <2>1
<1>3. j \in DOMAIN sent
  BY <1>2 DEF LabelInv, Labelled
<1> HIDE DEF j
<1>4. PICK line \in Variants(j), k \in 0 .. Len(Line(j)) - 1 :
        LET end == 1 - 1 + Len(Line(j)) - k
        IN  /\ Piece(Stream, line, j, k, 1 - 1)
            /\ end = Len(Stream) \/ \E i \in DOMAIN sent : i > j /\ Arrives(Stream, i, end)
  BY <1>2 DEF FrameAfterFrame, j
<1>5. /\ Len(Line(j)) \in Nat /\ Len(Line(j)) >= 6
      /\ line \in Seq(Octet) /\ Len(line) = Len(Line(j))
      /\ k \in Nat /\ k < Len(line)
  BY <1>3, FrameLaw, VariantLine
<1>6. Piece(Stream, line, j, k, 0)
  BY <1>4, 1 - 1 = 0
<1>7. line[k + 1] = Flag
  <2>1. Stream[0 + 1] = [value |-> line[k + 1], of |-> j]
    BY <1>1, <1>5, <1>6, PieceNext
  <2> QED BY <1>1, <2>1 DEF First
<1>8. k = 0 \/ k = Len(Line(j)) - 1
  BY <1>3, <1>5, <1>7, VariantLine
<1> DEFINE end == Len(Line(j)) - k
<1>9. end \in Nat /\ 1 - 1 + Len(Line(j)) - k = end
  BY <1>5
<1>10. \/ end = Len(Stream)
       \/ \E i \in DOMAIN sent : i > j /\ Arrives(Stream, i, end)
  BY <1>4, <1>9
<1>11. Later(j, end)
  <2> HIDE DEF end
  <2> QED BY <1>3, <1>9, <1>10, WholeThenLater
<1>12. CASE k = 0
  <2>1. end = Len(Line(j))
    BY <1>5, <1>12
  <2>2. Arrives(Stream, j, 0)
    BY <1>6, <1>12 DEF Arrives
  <2> HIDE DEF end
  <2> QED BY <1>3, <1>11, <2>1, <2>2 DEF j
<1>13. CASE k = Len(Line(j)) - 1
  <2>1. end = 1
    BY <1>5, <1>13
  <2> HIDE DEF end
  <2> QED BY <1>3, <1>10, <1>11, <2>1 DEF j
<1> QED BY <1>8, <1>12, <1>13

\* What holds of the frames on the way depends on what was sent and on what is damaged.
LEMMA FramesKept ==
  ASSUME FrameAfterFrame(Stream'), KeepsAll
  PROVE  FrameAfterFrame(Stream)'
<1>1. \A j : Keeps(j)
  BY DEF KeepsAll, Keeps
<1>2. \A j : Line(j)' = Line(j) /\ Variants(j) \subseteq Variants(j)'
  BY <1>1, VariantsKept
<1>3. \A j, a : Arrives(Stream', j, a) => \E l \in Variants(j)' : Piece(Stream', l, j, 0, a)
  BY <1>1, ArrivesKept
<1>4. sent' = sent
  BY DEF KeepsAll
<1> SUFFICES ASSUME NEW p \in DOMAIN Stream', NEW j, j = Stream'[p].of
             PROVE  \E line \in Variants(j)', k \in 0 .. Len(Line(j)') - 1 :
                       LET end == p - 1 + Len(Line(j)') - k
                       IN  /\ Piece(Stream', line, j, k, p - 1)
                           /\ \/ end = Len(Stream')
                              \/ \E i \in DOMAIN sent' :
                                    i > j /\ \E l \in Variants(i)' : Piece(Stream', l, i, 0, end)
  BY DEF FrameAfterFrame, Arrives
<1>5. PICK line \in Variants(j), k \in 0 .. Len(Line(j)) - 1 :
        LET end == p - 1 + Len(Line(j)) - k
        IN  /\ Piece(Stream', line, j, k, p - 1)
            /\ end = Len(Stream') \/ \E i \in DOMAIN sent : i > j /\ Arrives(Stream', i, end)
  BY DEF FrameAfterFrame
<1>6. line \in Variants(j)' /\ k \in 0 .. Len(Line(j)') - 1
  BY <1>2
<1> DEFINE end == p - 1 + Len(Line(j)) - k
<1>7. end = p - 1 + Len(Line(j)') - k
  BY <1>2
<1>8. \/ end = Len(Stream')
      \/ \E i \in DOMAIN sent' : i > j /\ \E l \in Variants(i)' : Piece(Stream', l, i, 0, end)
  <2> HIDE DEF end
  <2>1. end = Len(Stream') \/ \E i \in DOMAIN sent : i > j /\ Arrives(Stream', i, end)
    BY <1>5 DEF end
  <2> QED BY <1>3, <1>4, <2>1
<1> HIDE DEF end
<1> QED BY <1>5, <1>6, <1>7, <1>8

\* An octet is taken: what was behind it comes next.
LEMMA FramesTail ==
  ASSUME DecoderInv, LabelInv, FrameAfterFrame(Stream), chunk # <<>>,
         chunk' = Tail(chunk), UNCHANGED <<arrived, wire, sent, damaged, damage>>
  PROVE  /\ FrameAfterFrame(Stream)' /\ KeepsAll
         /\ \A c, k, m \in Nat : m >= k - 1 /\ Later(c, k) => Later(c, m)'
<1> DEFINE x == <<Stream[1]>>
           t == Tail(Stream)
<1>1. Stream \in Travelling /\ Stream # <<>> /\ Stream' = t
  BY StreamType, StreamHead, StreamTail
<1>2. Stream = x \o t /\ x \in Travelling /\ t \in Travelling /\ Len(x) = 1
  <2>1. Stream = x \o t /\ Stream[1] \in Carried /\ t \in Travelling
    BY <1>1, HeadAndTail
  <2> QED BY <2>1 DEF Travelling
<1>3. Labelled(Stream, DOMAIN sent)
  BY DEF LabelInv
<1> HIDE DEF x, t
<1>4. FrameAfterFrame(t)
  <2>1. Labelled(x \o t, DOMAIN sent) /\ FrameAfterFrame(x \o t)
    BY <1>2, <1>3
  <2> QED BY <1>2, <2>1, FramesRest
<1>5. KeepsAll
  BY DEF KeepsAll
<1>6. FrameAfterFrame(Stream)'
  BY <1>1, <1>4, <1>5, FramesKept
<1>7. ASSUME NEW c \in Nat, NEW k \in Nat, NEW m \in Nat, m >= k - 1, Later(c, k)
      PROVE  Later(c, m)'
  BY <1>1, <1>2, <1>7, LaterRest
<1> QED BY <1>5, <1>6, <1>7

\* Numbers of frames.
LEMMA FrameNumbers ==
  ASSUME DecoderInv
  PROVE  /\ DOMAIN sent = 1 .. Len(sent) /\ Len(sent) \in Nat
         /\ \A j \in DOMAIN sent : j \in Nat /\ j \in 0 .. Len(sent)
         /\ \A c \in 0 .. Len(sent) : c \in Nat
<1>1. DOMAIN sent = 1 .. Len(sent) /\ Len(sent) \in Nat
  BY LenProperties DEF DecoderInv
<1>2. ASSUME NEW n \in Nat
      PROVE  (\A j \in 1 .. n : j \in Nat /\ j \in 0 .. n) /\ (\A c \in 0 .. n : c \in Nat)
  OBVIOUS
<1> QED BY <1>1, <1>2

\* The decoder is in a frame after a step, if what it holds and what comes behind say so.
LEMMA InsideNext ==
  ASSUME NEW j, Keeps(j), NEW line \in Variants(j), NEW t, t = Read(j, line), NEW n,
         \/ InProgressAs(j, line, t)' /\ n = Len(Line(j)') - yahdlc_state'.length /\ Later(j, n)'
         \/ CompleteAs(j, t)' /\ Later(j, 1)'
  PROVE  Inside(j)'
<1>1. line \in Variants(j)' /\ t = Read(j, line)'
  BY VariantsKept
<1>2. CASE InProgressAs(j, line, t)' /\ n = Len(Line(j)') - yahdlc_state'.length /\ Later(j, n)'
  <2>1. Later(j, Len(Line(j)) - yahdlc_state.length)'
    BY <1>2 DEF Later
  <2> QED BY <1>1, <1>2, <2>1 DEF Inside
<1>3. CASE CompleteAs(j, t)' /\ Later(j, 1)'
  BY <1>1, <1>3 DEF Inside
<1> QED BY <1>2, <1>3

\* No frame begins at an octet that is not a flag, or not its own.
LEMMA NotHereGentle ==
  ASSUME DecoderInv, chunk # <<>>, NEW j \in DOMAIN sent, First # Flag \/ Stream[1].of # j
  PROVE  ~Arrives(Stream, j, 0)
<1> SUFFICES ASSUME NEW line \in Variants(j), Piece(Stream, line, j, 0, 0) PROVE FALSE
  BY DEF Arrives
<1>1. line \in Seq(Octet) /\ 0 < Len(line) /\ line[1] = Flag
  BY VariantLine
<1>2. Stream \in Travelling /\ Stream[1] = chunk[1]
  BY StreamType, StreamHead
<1>3. Stream[0 + 1] = [value |-> line[0 + 1], of |-> j]
  BY <1>1, <1>2, PieceNext
<1> QED BY <1>1, <1>2, <1>3 DEF First

\* Outside a frame nothing is required of what comes next.
LEMMA FaithfulIdle ==
  ASSUME DecoderInv, LabelInv, FrameAfterFrame(Stream), NEW c \in 0 .. Len(sent),
         FaithfulUpTo(c), chunk # <<>>, chunk' = Tail(chunk),
         UNCHANGED <<arrived, wire, sent, received, damaged, damage>>, ~yahdlc_state'.started
  PROVE  FaithfulUpTo(c)'
<1>1. c \in Nat
  BY FrameNumbers
<1>2. Later(c, 1)'
  <2>1. 1 \in Nat /\ 1 >= 1 - 1
    OBVIOUS
  <2> QED BY <1>1, <2>1, FramesTail DEF FaithfulUpTo
<1>3. Embeds(DOMAIN received, received, SubSeq(sent, 1, c))
  BY DEF FaithfulUpTo
<1> QED BY <1>2, <1>3 DEF FaithfulUpTo

\* An octet that is not a flag is one of a frame that was begun and is all there.
LEMMA FaithfulOctet ==
  ASSUME DecoderInv, NEW c \in 0 .. Len(sent), FaithfulUpTo(c),
         yahdlc_state.started, chunk # <<>>, First # Flag
  PROVE  \E j \in DOMAIN sent :
            /\ j > c
            /\ \E line \in Variants(j) : InProgressAs(j, line, Read(j, line))
            /\ Later(j, Len(Line(j)) - yahdlc_state.length)
<1>1. Stream # <<>>
  BY StreamHead
<1>2. \A j \in DOMAIN sent : ~Arrives(Stream, j, 0) /\ \A t : ~CompleteAs(j, t)
  BY NotHereGentle DEF CompleteAs
<1>3. PICK j \in DOMAIN sent : j > c /\ Inside(j)
  BY <1>1, <1>2 DEF FaithfulUpTo
<1> QED BY <1>2, <1>3 DEF Inside

\* Such an octet is taken, and the decoder is further on in the same frame.
LEMMA FaithfulTake ==
  ASSUME DecoderInv, LabelInv, FrameAfterFrame(Stream), NEW c \in 0 .. Len(sent),
         FaithfulUpTo(c), TakeEscape \/ TakeOctet
  PROVE  FaithfulUpTo(c)' /\ chunk' = Tail(chunk)
<1> DEFINE d == yahdlc_state
<1>1. /\ chunk # <<>> /\ First # Flag /\ d.started
      /\ UNCHANGED <<arrived, wire, sent, received, damaged, damage>>
  BY DEF TakeEscape, TakeOctet, Elsewhere, Flag, Escape
<1>2. PICK j \in DOMAIN sent :
         /\ j > c
         /\ \E line \in Variants(j) : InProgressAs(j, line, Read(j, line))
         /\ Later(j, Len(Line(j)) - d.length)
  BY <1>1, FaithfulOctet
<1> PICK line \in Variants(j) : InProgressAs(j, line, Read(j, line))
  BY <1>2
<1> PICK t : t = Read(j, line)
  OBVIOUS
<1>3. d \in DecoderState /\ d.length \in Nat /\ ReadsAs(j, line, t)
  BY VariantLine DEF DecoderInv, DecoderOK, DecoderState
<1>4. InProgressAs(j, line, t)' /\ chunk' = Tail(chunk) /\ yahdlc_state'.length = d.length + 1
  <2>1. CASE TakeEscape
    <3>1. chunk' = Tail(chunk) /\ yahdlc_state'.length = d.length + 1
      BY <1>3, <2>1 DEF TakeEscape, Consume, DecoderState
    <3> QED BY <1>3, <2>1, <3>1, EscapeProgress
  <2>2. CASE TakeOctet
    <3>1. InProgressAs(j, line, t)' /\ ~(d.frame_byte_index > 1 /\ Full(d))
      BY <1>3, <2>2, OctetProgress
    <3>2. chunk' = Tail(chunk) /\ yahdlc_state'.length = d.length + 1
      BY <1>3, <2>2, <3>1 DEF TakeOctet, Consume, DecoderState
    <3> QED BY <3>1, <3>2
  <2> QED BY <2>1, <2>2
<1>5. c \in Nat /\ j \in Nat
  BY FrameNumbers
<1>6. Len(Line(j)) - d.length \in Nat /\ Len(Line(j)) - (d.length + 1) \in Nat
      /\ Line(j)' = Line(j) /\ Keeps(j)
  <2>1. d.length \in 1 .. Len(Line(j)) - 1
    BY BegunLaw DEF InProgressAs
  <2>2. Len(Line(j)) \in Nat
    BY FrameLaw
  <2>3. Line(j)' = Line(j) /\ Keeps(j)
    BY <1>1 DEF Line, Keeps
  <2> QED BY <2>1, <2>2, <2>3
<1>7. \A k, m \in Nat : m >= k - 1 => /\ Later(j, k) => Later(j, m)'
                                      /\ Later(c, k) => Later(c, m)'
  BY <1>1, <1>4, <1>5, FramesTail
<1>8. Later(c, 1)'
  <2>1. 1 \in Nat /\ 1 >= 1 - 1 /\ Later(c, 1)
    BY DEF FaithfulUpTo
  <2> QED BY <1>7, <2>1
<1> PICK n \in Nat : n = Len(Line(j)) - (d.length + 1)
  BY <1>6
<1>9. Later(j, n)'
  <2> DEFINE k == Len(Line(j)) - d.length
  <2>1. k \in Nat /\ n >= k - 1 /\ Later(j, k)
    BY <1>2, <1>3, <1>6
  <2> HIDE DEF k
  <2> QED BY <1>7, <2>1
<1>10. n = Len(Line(j)') - yahdlc_state'.length
  BY <1>4, <1>6
<1>11. j \in DOMAIN sent' /\ Embeds(DOMAIN received', received', SubSeq(sent', 1, c))
  BY <1>1 DEF FaithfulUpTo
<1>12. Inside(j)'
  BY <1>4, <1>6, <1>9, <1>10, InsideNext
<1> QED BY <1>2, <1>4, <1>8, <1>11, <1>12 DEF FaithfulUpTo

\* The last flag of a frame is behind everything else of it.
LEMMA LastFlag ==
  ASSUME DecoderInv, chunk # <<>>, First = Flag, NEW j \in DOMAIN sent, Inside(j)
  PROVE  /\ Later(j, 1)
         /\ \E line \in Variants(j) :
              \/ InProgressAs(j, line, Read(j, line))
              \/ CompleteAs(j, Read(j, line))
<1> DEFINE d == yahdlc_state
<1> PICK line \in Variants(j) :
       LET t == Read(j, line)
       IN  \/ InProgressAs(j, line, t) /\ Later(j, Len(Line(j)) - d.length)
           \/ CompleteAs(j, t) /\ Later(j, 1)
  BY DEF Inside
<1> PICK t : t = Read(j, line)
  OBVIOUS
<1>1. CASE InProgressAs(j, line, t) /\ Later(j, Len(Line(j)) - d.length)
  <2>1. BegunAs(j, t) /\ d.frame_byte_index = Len(WithFcs(sent[j]))
    BY <1>1, VariantLine, WholeLine
  <2>2. d.length = Len(Line(j)) - 1 /\ Len(Line(j)) \in Nat
    BY <2>1, BegunLaw, FrameLaw
  <2>3. Len(Line(j)) - d.length = 1
    BY <2>2
  <2> QED BY <1>1, <2>3
<1> QED BY <1>1

\* The decoder has taken a flag, and another one comes next; or it begins one.
LEMMA FaithfulOpening ==
  ASSUME DecoderInv, LabelInv, IdleInv, FrameAfterFrame(Stream), NEW c \in 0 .. Len(sent),
         FaithfulUpTo(c), SkipFlag \/ StartFrame,
         NEW j \in DOMAIN sent, Arrives(Stream, j, 0), Later(j, Len(Line(j)))
  PROVE  FaithfulUpTo(c)'
<1>1. /\ chunk # <<>> /\ First = Flag /\ chunk' = Tail(chunk)
      /\ UNCHANGED <<arrived, wire, sent, received, damaged, damage>>
  BY DEF SkipFlag, StartFrame, Consume, Elsewhere
<1>2. c \in Nat /\ j \in Nat /\ Len(Line(j)) \in Nat /\ Len(Line(j)) >= 6
  BY FrameNumbers, FrameLaw
<1> PICK line \in Variants(j) : Piece(Stream, line, j, 0, 0)
  BY DEF Arrives
<1> PICK t : t = Read(j, line)
  OBVIOUS
<1>3. /\ InProgressAs(j, line, t)' /\ yahdlc_state'.length = 1
      /\ 2 \in DOMAIN Stream /\ Stream[2].of = j
  BY VariantLine, OpeningFlagOfLine
<1>4. j > c
  <2>1. Later(c, 1) /\ 2 > 1
    BY DEF FaithfulUpTo
  <2> QED BY <1>3, <2>1 DEF Later
<1>5. \A k, m \in Nat : m >= k - 1 => /\ Later(j, k) => Later(j, m)'
                                      /\ Later(c, k) => Later(c, m)'
  BY <1>1, <1>2, FramesTail
<1>6. Later(c, 1)'
  <2>1. 1 \in Nat /\ 1 >= 1 - 1 /\ Later(c, 1)
    BY DEF FaithfulUpTo
  <2> QED BY <1>5, <2>1
<1>7. Len(Line(j)) - 1 \in Nat
  <2> PICK l \in Nat : l = Len(Line(j)) /\ l >= 6
    BY <1>2
  <2> QED OBVIOUS
<1> PICK n \in Nat : n = Len(Line(j)) - 1
  BY <1>7
<1>8. Later(j, n)'
  <2>1. n >= Len(Line(j)) - 1
    OBVIOUS
  <2> QED BY <1>2, <1>5, <2>1
<1>9. n = Len(Line(j)') - yahdlc_state'.length /\ Keeps(j)
  BY <1>1, <1>3 DEF Line, Keeps
<1>10. Inside(j)'
  BY <1>3, <1>8, <1>9, InsideNext
<1>11. j \in DOMAIN sent' /\ Embeds(DOMAIN received', received', SubSeq(sent', 1, c))
  BY <1>1 DEF FaithfulUpTo
<1> QED BY <1>4, <1>6, <1>10, <1>11 DEF FaithfulUpTo

\* A flag is taken: the first one of a frame, the last one of the frame in the decoder, or
\* the last one of a frame whose beginning was thrown away.
LEMMA FaithfulFlag ==
  ASSUME DecoderInv, LabelInv, IdleInv, FrameAfterFrame(Stream), NEW c \in 0 .. Len(sent),
         FaithfulUpTo(c), SkipFlag \/ StartFrame
  PROVE  FaithfulUpTo(c)'
<1> DEFINE d == yahdlc_state
<1>1. /\ chunk # <<>> /\ First = Flag /\ chunk' = Tail(chunk)
      /\ UNCHANGED <<arrived, wire, sent, received, damaged, damage>>
  BY DEF SkipFlag, StartFrame, Consume, Elsewhere
<1>2. c \in Nat /\ Stream \in Travelling /\ Stream # <<>> /\ Stream' = Tail(Stream)
      /\ \A i : Keeps(i)
  <2>1. \A i : Keeps(i)
    BY <1>1 DEF Keeps
  <2> QED BY <1>1, <2>1, FrameNumbers, StreamType, StreamHead, StreamTail
<1>3. Later(c, 1)'
  <2>1. 1 \in Nat /\ 1 >= 1 - 1 /\ Later(c, 1)
    BY DEF FaithfulUpTo
  <2> QED BY <1>1, <1>2, <2>1, FramesTail
<1>4. Embeds(DOMAIN received', received', SubSeq(sent', 1, c)) /\ DOMAIN sent' = DOMAIN sent
  BY <1>1 DEF FaithfulUpTo
<1>5. PICK j \in DOMAIN sent :
         /\ Stream[1].of = j
         /\ \/ Arrives(Stream, j, 0) /\ Later(j, Len(Line(j)))
            \/ /\ Later(j, 1)
               /\ Len(Stream) = 1 \/ \E i \in DOMAIN sent : Arrives(Stream, i, 1)
  BY <1>1, FlagAhead
<1>6. CASE Arrives(Stream, j, 0) /\ Later(j, Len(Line(j)))
  BY <1>6, FaithfulOpening
<1>7. CASE \E i \in DOMAIN sent : i > c /\ Inside(i)
  <2>1. PICK i \in DOMAIN sent : i > c /\ Inside(i)
    BY <1>7
  <2>2. /\ Later(i, 1)
        /\ \E line \in Variants(i) : \/ InProgressAs(i, line, Read(i, line))
                                     \/ CompleteAs(i, Read(i, line))
    BY <1>1, <2>1, LastFlag
  <2> PICK line \in Variants(i) : \/ InProgressAs(i, line, Read(i, line))
                                  \/ CompleteAs(i, Read(i, line))
    BY <2>2
  <2> PICK t : t = Read(i, line)
    OBVIOUS
  <2>3. CompleteAs(i, t)'
    BY VariantLine, FlagInLine
  <2>4. Later(i, 1)'
    <3>1. 1 \in Nat /\ 1 >= 1 - 1 /\ i \in Nat
      BY FrameNumbers
    <3> QED BY <1>1, <2>2, <3>1, FramesTail
  <2>5. Inside(i)'
    BY <1>2, <2>3, <2>4, InsideNext
  <2> QED BY <1>3, <1>4, <2>1, <2>5 DEF FaithfulUpTo
<1>8. CASE /\ Later(j, 1)
           /\ Len(Stream) = 1 \/ \E i \in DOMAIN sent : Arrives(Stream, i, 1)
  <2>1. CASE d.started
    <3>1. CASE \E i \in DOMAIN sent : Arrives(Stream, i, 0)
      <4>1. PICK i \in DOMAIN sent : Arrives(Stream, i, 0)
        BY <3>1
      <4>2. PICK line \in Variants(i) : Piece(Stream, line, i, 0, 0)
        BY <4>1 DEF Arrives
      <4>3. i = j /\ 2 \in DOMAIN Stream /\ Stream[2].of = j /\ 2 > 1
        BY <1>5, <4>2, VariantLine, OpeningFlagOfLine
      <4>4. j \in Nat
        BY FrameNumbers
      <4>5. Stream[2].of > j
        BY <1>8, <4>3 DEF Later
      <4> QED BY <4>3, <4>4, <4>5
    <3> QED BY <1>2, <1>7, <2>1, <3>1 DEF FaithfulUpTo
  <2>2. CASE ~d.started /\ SkipFlag
    <3>1. ~yahdlc_state'.started
      BY <2>2 DEF SkipFlag
    <3> QED BY <1>3, <1>4, <3>1 DEF FaithfulUpTo
  <2>3. CASE ~d.started /\ StartFrame
    <3>1. yahdlc_state'.length = 1
      BY <2>3 DEF StartFrame, DecoderInv, DecoderOK, DecoderState
    <3>2. Stream' = <<>> \/ \E i \in DOMAIN sent : Arrives(Stream', i, 0)
      <4>1. CASE Len(Stream) = 1
        <5>1. Tail(Stream) \in Travelling /\ Len(Tail(Stream)) = 0
          BY <1>2, <4>1, HeadTailProperties DEF Travelling
        <5> QED BY <1>2, <5>1, EmptySeq DEF Travelling
      <4>2. CASE \E i \in DOMAIN sent : Arrives(Stream, i, 1)
        <5>1. PICK i \in DOMAIN sent : Arrives(Stream, i, 1)
          BY <4>2
        <5>2. PICK line \in Variants(i) : Piece(Stream, line, i, 0, 1)
          BY <5>1 DEF Arrives
        <5>3. line \in Seq(Octet) /\ 0 < Len(line)
          BY VariantLine
        <5>4. Piece(Tail(Stream), line, i, 0, 1 - 1)
          BY <1>2, <5>2, <5>3, PieceTail
        <5>5. Piece(Stream', line, i, 0, 0)
          BY <1>2, <5>4, 1 - 1 = 0
        <5> QED BY <5>5 DEF Arrives
      <4> QED BY <1>8, <4>1, <4>2
    <3>3. \A i \in DOMAIN sent : Arrives(Stream', i, 0) => Arrives(Stream, i, 0)'
      BY <1>2, ArrivesKept DEF Arrives
    <3>4. Stream' = <<>> \/ \E i \in DOMAIN sent' : Arrives(Stream, i, 0)'
      BY <1>4, <3>2, <3>3
    <3> QED BY <1>3, <1>4, <3>1, <3>4 DEF FaithfulUpTo
  <2> QED BY <2>1, <2>2, <2>3
<1> QED BY <1>5, <1>6, <1>8

\* The first m elements of a sequence.
LEMMA PrefixLaw ==
  ASSUME NEW S, NEW t \in Seq(S), NEW m \in 0 .. Len(t)
  PROVE  DOMAIN SubSeq(t, 1, m) = 1 .. m /\ \A i \in 1 .. m : SubSeq(t, 1, m)[i] = t[i]
<1>1. Len(t) \in Nat /\ m \in Int /\ \A i \in 1 .. m : t[i] \in S
  BY LenProperties, ElementOfSeq
<1>2. /\ SubSeq(t, 1, m) \in Seq(S)
      /\ Len(SubSeq(t, 1, m)) = IF 1 <= m THEN m - 1 + 1 ELSE 0
      /\ \A i \in 1 .. m - 1 + 1 : SubSeq(t, 1, m)[i] = t[1 + i - 1]
  BY <1>1, SubSeqProperties
<1>3. Len(SubSeq(t, 1, m)) = m /\ m - 1 + 1 = m /\ \A i \in 1 .. m : 1 + i - 1 = i
  BY <1>1, <1>2
<1>4. DOMAIN SubSeq(t, 1, m) = 1 .. m
  BY <1>2, <1>3, LenProperties
<1> QED BY <1>2, <1>3, <1>4

\* One frame more is received, and it is a later one than all before.
LEMMA EmbedsAppended ==
  ASSUME NEW S, NEW t \in Seq(S), NEW r, NEW R, r \in Seq(R), NEW c \in 0 .. Len(t),
         NEW j \in 1 .. Len(t), j > c, t[j] \in R,
         Embeds(DOMAIN r, r, SubSeq(t, 1, c))
  PROVE  Embeds(DOMAIN Append(r, t[j]), Append(r, t[j]), SubSeq(t, 1, j))
<1> DEFINE q == Append(r, t[j])
           n == Len(r) + 1
           a == SubSeq(t, 1, c)
           b == SubSeq(t, 1, j)
<1>1. /\ Len(t) \in Nat /\ Len(r) \in Nat /\ DOMAIN r = 1 .. Len(r) /\ n \in Nat
      /\ DOMAIN q = 1 .. n /\ q[n] = t[j] /\ \A i \in 1 .. Len(r) : q[i] = r[i]
  BY LenProperties, AppendProperties
<1>2. c \in Nat /\ j \in Nat /\ j >= 1
  BY <1>1
<1>3. /\ DOMAIN a = 1 .. c /\ \A i \in 1 .. c : a[i] = t[i]
      /\ DOMAIN b = 1 .. j /\ \A i \in 1 .. j : b[i] = t[i]
  <2>1. c \in 0 .. Len(t) /\ j \in 0 .. Len(t)
    BY <1>1
  <2> QED BY <2>1, PrefixLaw
<1>4. PICK g \in [1 .. Len(r) -> 1 .. c] :
        /\ \A i \in 1 .. Len(r) : r[i] = a[g[i]]
        /\ \A i, k \in 1 .. Len(r) : i < k => g[i] < g[k]
  BY <1>1, <1>3 DEF Embeds
<1> DEFINE h == [i \in 1 .. n |-> IF i = n THEN j ELSE g[i]]
<1>5. h[n] = j /\ \A i \in 1 .. Len(r) : h[i] = g[i] /\ g[i] \in 1 .. c /\ i < n
  BY <1>1, <1>4
<1>6. \A i \in 1 .. n : i = n \/ i \in 1 .. Len(r)
  BY <1>1
<1>7. h \in [1 .. n -> 1 .. j]
  <2>1. \A i \in 1 .. n : (IF i = n THEN j ELSE g[i]) \in 1 .. j
    BY <1>2, <1>5, <1>6
  <2> QED BY <2>1
<1> HIDE DEF h, q, a, b, n
<1>8. \A i \in 1 .. n : q[i] = b[h[i]]
  <2>1. j \in 1 .. j /\ \A l \in 1 .. c : l \in 1 .. j
    BY <1>2
  <2>2. q[n] = b[h[n]]
    BY <1>1, <1>3, <1>5, <2>1
  <2>3. ASSUME NEW i \in 1 .. Len(r) PROVE q[i] = b[h[i]]
    <3>1. h[i] = g[i] /\ g[i] \in 1 .. c /\ g[i] \in 1 .. j
      BY <1>5, <2>1
    <3> QED BY <1>1, <1>3, <1>4, <3>1
  <2> QED BY <1>6, <2>2, <2>3
<1>9. ASSUME NEW i \in 1 .. n, NEW k \in 1 .. n, i < k PROVE h[i] < h[k]
  <2>1. i \in 1 .. Len(r)
    BY <1>1, <1>6, <1>9
  <2>2. CASE k = n
    BY <1>2, <1>5, <2>1, <2>2
  <2>3. CASE k \in 1 .. Len(r)
    BY <1>4, <1>5, <1>9, <2>1, <2>3
  <2> QED BY <1>6, <2>2, <2>3
<1> QED BY <1>1, <1>3, <1>7, <1>8, <1>9 DEF Embeds, q, b

\* A flag ends the frame in the decoder.  If its octets are those that were sent, it is the
\* next one to be received; if one of them is not, the checksum is wrong.
LEMMA GentleFrame ==
  ASSUME DecoderInv, chunk # <<>>, First = Flag, NEW j \in DOMAIN sent, Inside(j)
  PROVE  \/ GoodFrame(yahdlc_state) /\ Decoded(yahdlc_state) = sent[j]
         \/ ~GoodFrame(yahdlc_state)
<1> DEFINE octets == WithFcs(sent[j])
<1>1. PICK line \in Variants(j) : \/ InProgressAs(j, line, Read(j, line))
                                  \/ CompleteAs(j, Read(j, line))
  BY LastFlag
<1> PICK t : t = Read(j, line)
  OBVIOUS
<1>2. /\ ReadsAs(j, line, t)
      /\ t = octets \/ \E k \in 1 .. Len(octets) : ShortBurst(octets, t, k)
  BY VariantLaw
<1>3. CASE t = octets
  BY <1>1, <1>2, <1>3, DecodedLine
<1>4. CASE \E k \in 1 .. Len(octets) : ShortBurst(octets, t, k)
  <2>1. PICK k \in 1 .. Len(octets) : ShortBurst(octets, t, k)
    BY <1>4
  <2>2. octets \in Seq(Octet) /\ Registers(octets)[Len(octets)] = FcsGood
    BY FrameLaw, FrameOctets
  <2>3. t \in Seq(Octet) /\ Len(t) = Len(octets)
    BY <1>2 DEF ReadsAs
  <2>4. BegunAs(j, t) /\ yahdlc_state.frame_byte_index = Len(octets)
    BY <1>1, <1>2, WholeLine
  <2>5. yahdlc_state.fcs = Registers(t)[Len(t)]
    BY <2>3, <2>4 DEF BegunAs
  <2> HIDE DEF octets
  <2>6. Registers(octets)[Len(octets)] # Registers(t)[Len(t)]
    BY <2>1, <2>2, <2>3, BurstDetected
  <2> QED BY <2>2, <2>5, <2>6 DEF GoodFrame
<1> QED BY <1>2, <1>3, <1>4

\* Either way what comes behind is later.
LEMMA FaithfulEnd ==
  ASSUME DecoderInv, LabelInv, FrameAfterFrame(Stream), NEW c \in 0 .. Len(sent),
         FaithfulUpTo(c), EndFrame
  PROVE  FrameAfterFrame(Stream)' /\ \E e \in 0 .. Len(sent') : FaithfulUpTo(e)'
<1> DEFINE d == yahdlc_state
           t == arrived \o wire
<1>1. /\ chunk # <<>> /\ First = Flag /\ d.started /\ d.length # 1
      /\ UNCHANGED <<arrived, wire, sent, damage>> /\ yahdlc_state' = yahdlc_reset_state
      /\ chunk' = chunk \/ chunk' = <<>>
      /\ damaged \subseteq damaged'
      /\ received' = IF GoodFrame(d) THEN Append(received, Decoded(d)) ELSE received
  BY DEF EndFrame, RepeatedFlag, Remaining
<1>2. PICK j \in DOMAIN sent : j > c /\ Inside(j)
  BY <1>1 DEF FaithfulUpTo
<1>3. Later(j, 1)
  BY <1>1, <1>2, LastFlag
<1>4. received' = received \/ received' = Append(received, sent[j])
  BY <1>1, <1>2, GentleFrame
<1>5. /\ DOMAIN sent = 1 .. Len(sent) /\ Len(sent) \in Nat
      /\ j \in Nat /\ j \in 0 .. Len(sent) /\ c \in Nat
  BY FrameNumbers
<1>6. \E e \in {c, j} : Embeds(DOMAIN received', received', SubSeq(sent', 1, e))
  <2>1. Embeds(DOMAIN received, received, SubSeq(sent, 1, c))
    BY DEF FaithfulUpTo
  <2>2. sent \in Seq(Frames) /\ received \in Seq(Message) /\ sent[j] \in Message
    BY FrameLaw DEF DecoderInv, Sound
  <2>3. Embeds(DOMAIN Append(received, sent[j]), Append(received, sent[j]), SubSeq(sent, 1, j))
    BY <1>2, <1>5, <2>1, <2>2, EmbedsAppended
  <2>4. CASE received' = received
    BY <1>1, <2>1, <2>4
  <2>5. CASE received' = Append(received, sent[j])
    BY <1>1, <2>3, <2>5
  <2> QED BY <1>4, <2>4, <2>5
<1>7. KeepsAll
  BY <1>1 DEF KeepsAll
<1>8. FrameAfterFrame(Stream)' /\ Later(j, 1)' /\ Later(c, 1)'
  <2>0. Later(c, 1)
    BY DEF FaithfulUpTo
  <2>1. CASE chunk' = chunk
    <3>1. Stream' = Stream
      BY <1>1, <2>1 DEF Stream
    <3>2. FrameAfterFrame(Stream)'
      BY <1>7, <3>1, FramesKept
    <3>3. Later(j, 1)' /\ Later(c, 1)'
      BY <1>3, <2>0, <3>1 DEF Later
    <3> QED BY <3>2, <3>3
  <2>2. CASE chunk' = <<>>
    <3>1. /\ chunk \in Travelling /\ t \in Travelling /\ Stream = chunk \o t
          /\ Len(chunk) \in Nat /\ Len(chunk) # 0
      BY <1>1, ChunkAndRest, LenProperties, EmptySeq DEF Travelling
    <3>2. Stream' = t
      BY <1>1, <2>2, ChunkAndRest DEF Stream
    <3>3. Labelled(Stream, DOMAIN sent)
      BY DEF LabelInv
    <3> HIDE DEF t
    <3>4. FrameAfterFrame(t)
      <4>1. Labelled(chunk \o t, DOMAIN sent) /\ FrameAfterFrame(chunk \o t)
        BY <3>1, <3>3
      <4> QED BY <3>1, <4>1, FramesRest
    <3>5. FrameAfterFrame(Stream)'
      BY <1>7, <3>2, <3>4, FramesKept
    <3>6. Later(j, 1)' /\ Later(c, 1)'
      <4>1. 1 \in Nat /\ 1 >= 1 - Len(chunk)
        BY <3>1
      <4> QED BY <1>3, <2>0, <3>1, <3>2, <4>1, LaterRest
    <3> QED BY <3>5, <3>6
  <2> QED BY <1>1, <2>1, <2>2
<1>9. ~yahdlc_state'.started
  BY <1>1 DEF yahdlc_reset_state
<1>10. PICK e \in {c, j} : Embeds(DOMAIN received', received', SubSeq(sent', 1, e))
  BY <1>6
<1>11. FaithfulUpTo(e)'
  BY <1>8, <1>9, <1>10 DEF FaithfulUpTo
<1>12. e \in 0 .. Len(sent')
  BY <1>1, <1>5
<1> QED BY <1>8, <1>11, <1>12

\* Octets change hands, and none is lost or added.
LEMMA FaithfulSame ==
  ASSUME DecoderInv, FrameAfterFrame(Stream), NEW c \in 0 .. Len(sent), FaithfulUpTo(c),
         Stream' = Stream, UNCHANGED <<yahdlc_state, sent, received>>, KeepsAll,
         chunk = <<>> \/ UNCHANGED chunk
  PROVE  FrameAfterFrame(Stream)' /\ FaithfulUpTo(c)'
<1>1. FrameAfterFrame(Stream)' /\ \A j : Keeps(j)
  BY FramesKept DEF KeepsAll, Keeps
<1>2. \A k, m : Later(k, m) => Later(k, m)'
  BY DEF Later
<1>3. Later(c, 1)'
  BY <1>2 DEF FaithfulUpTo
<1>4. Embeds(DOMAIN received', received', SubSeq(sent', 1, c)) /\ DOMAIN sent' = DOMAIN sent
  BY DEF FaithfulUpTo
<1>5. CASE ~yahdlc_state.started
  <2>1. ~yahdlc_state'.started
    BY <1>5
  <2> QED BY <1>1, <1>3, <1>4, <2>1 DEF FaithfulUpTo
<1>6. CASE /\ yahdlc_state.length = 1
           /\ Stream = <<>> \/ \E j \in DOMAIN sent : Arrives(Stream, j, 0)
  <2>1. \A j : Arrives(Stream, j, 0) => Arrives(Stream, j, 0)'
    BY <1>1, ArrivesKept DEF Arrives
  <2>2. /\ yahdlc_state'.length = 1
        /\ Stream' = <<>> \/ \E j \in DOMAIN sent' : Arrives(Stream, j, 0)'
    BY <1>4, <1>6, <2>1
  <2> QED BY <1>1, <1>3, <1>4, <2>2 DEF FaithfulUpTo
<1>7. CASE \E j \in DOMAIN sent : j > c /\ Inside(j)
  <2>1. PICK j \in DOMAIN sent : j > c /\ Inside(j)
    BY <1>7
  <2>2. PICK line \in Variants(j) :
          LET t == Read(j, line)
          IN  \/ InProgressAs(j, line, t) /\ Later(j, Len(Line(j)) - yahdlc_state.length)
              \/ CompleteAs(j, t) /\ Later(j, 1)
    BY <2>1 DEF Inside
  <2> PICK t : t = Read(j, line)
    OBVIOUS
  <2>3. Line(j)' = Line(j) /\ (BegunAs(j, t) => BegunAs(j, t)')
    BY DEF Line, BegunAs, Place
  <2>4. CASE InProgressAs(j, line, t) /\ Later(j, Len(Line(j)) - yahdlc_state.length)
    <3>1. InProgressAs(j, line, t)'
      BY <2>3, <2>4 DEF InProgressAs
    <3>2. Later(j, Len(Line(j)) - yahdlc_state.length)' 
      BY <2>3, <2>4 DEF Later
    <3>3. PICK n : n = Len(Line(j)') - yahdlc_state'.length
      OBVIOUS
    <3>4. Later(j, n)'
      BY <3>2, <3>3 DEF Later
    <3>5. Inside(j)'
      BY <1>1, <3>1, <3>3, <3>4, InsideNext
    <3> QED BY <1>1, <1>3, <1>4, <2>1, <3>5 DEF FaithfulUpTo
  <2>5. CASE CompleteAs(j, t) /\ Later(j, 1)
    <3>1. CompleteAs(j, t)' /\ Later(j, 1)'
      BY <1>2, <2>3, <2>5 DEF CompleteAs, First
    <3>2. Inside(j)'
      BY <1>1, <3>1, InsideNext
    <3> QED BY <1>1, <1>3, <1>4, <2>1, <3>2 DEF FaithfulUpTo
  <2> QED BY <2>2, <2>4, <2>5
<1> QED BY <1>1, <1>5, <1>6, <1>7 DEF FaithfulUpTo

-----------------------------------------------------------------------------
(* An octet is changed *)

\* u is s with the value v in place q, where a value was that may become it.
Changed(s, u, q, v) ==
  /\ q \in DOMAIN s /\ s[q].value \in Ordinary /\ v \in Ordinary
  /\ Len(u) = Len(s)
  /\ \A p \in DOMAIN s : u[p] = IF p = q THEN [value |-> v, of |-> s[q].of] ELSE s[p]

LEMMA ChangedInside ==
  ASSUME NEW s \in Travelling, NEW t \in Travelling, NEW x \in Carried, NEW y \in Carried,
         x.of = y.of, {x.value, y.value} \subseteq Ordinary
  PROVE  Changed(s \o (<<x>> \o t), s \o (<<y>> \o t), Len(s) + 1, y.value)
<1> DEFINE a == <<x>> \o t
           b == <<y>> \o t
           q == Len(s) + 1
<1>1. Len(s) \in Nat /\ Len(t) \in Nat
  BY LenProperties DEF Travelling
<1>2. ASSUME NEW z \in Carried
      PROVE  LET c == <<z>> \o t
             IN  /\ c \in Seq(Carried) /\ Len(c) = 1 + Len(t) /\ c[1] = z
                 /\ \A i \in 2 .. 1 + Len(t) : c[i] = t[i - 1]
  <2>1. <<z>> \in Seq(Carried) /\ Len(<<z>>) = 1 /\ <<z>>[1] = z
    OBVIOUS
  <2>2. t \in Seq(Carried)
    BY DEF Travelling
  <2>3. /\ <<z>> \o t \in Seq(Carried) /\ Len(<<z>> \o t) = Len(<<z>>) + Len(t)
        /\ \A i \in 1 .. Len(<<z>>) + Len(t) :
             (<<z>> \o t)[i] = IF i <= Len(<<z>>) THEN <<z>>[i] ELSE t[i - Len(<<z>>)]
    BY <2>1, <2>2, ConcatProperties
  <2>4. \A i \in 2 .. 1 + Len(t) : i \in 1 .. 1 + Len(t) /\ ~(i <= 1)
    BY <1>1
  <2>5. 1 \in 1 .. 1 + Len(t) /\ 1 <= 1
    BY <1>1
  <2> QED BY <2>1, <2>3, <2>4, <2>5
<1>3. /\ a \in Seq(Carried) /\ b \in Seq(Carried) /\ Len(a) = 1 + Len(t) /\ Len(b) = 1 + Len(t)
      /\ a[1] = x /\ b[1] = y /\ \A i \in 2 .. 1 + Len(t) : a[i] = b[i]
  BY <1>2
<1> HIDE DEF a, b
<1> DEFINE c == s \o a
           e == s \o b
           n == Len(s) + (1 + Len(t))
<1>4. /\ Len(c) = n /\ Len(e) = n /\ DOMAIN c = 1 .. n
      /\ \A p \in 1 .. n : /\ c[p] = IF p <= Len(s) THEN s[p] ELSE a[p - Len(s)]
                           /\ e[p] = IF p <= Len(s) THEN s[p] ELSE b[p - Len(s)]
  <2>1. s \in Seq(Carried)
    BY DEF Travelling
  <2>2. ASSUME NEW z \in Seq(Carried)
        PROVE  /\ s \o z \in Seq(Carried) /\ Len(s \o z) = Len(s) + Len(z)
               /\ \A p \in 1 .. Len(s) + Len(z) :
                    (s \o z)[p] = IF p <= Len(s) THEN s[p] ELSE z[p - Len(s)]
    BY <2>1, ConcatProperties
  <2>3. /\ s \o a \in Seq(Carried) /\ Len(s \o a) = Len(s) + Len(a)
        /\ Len(s \o b) = Len(s) + Len(b)
        /\ \A p \in 1 .. Len(s) + Len(a) :
             (s \o a)[p] = IF p <= Len(s) THEN s[p] ELSE a[p - Len(s)]
        /\ \A p \in 1 .. Len(s) + Len(b) :
             (s \o b)[p] = IF p <= Len(s) THEN s[p] ELSE b[p - Len(s)]
    BY <1>3, <2>2, Zenon
  <2>4. DOMAIN (s \o a) = 1 .. Len(s \o a)
    BY <2>3, LenProperties
  <2> QED BY <1>3, <2>3, <2>4
<1> HIDE DEF c, e
<1>5. q \in 1 .. n /\ ~(q <= Len(s)) /\ q - Len(s) = 1
  BY <1>1
<1>6. c[q] = x /\ e[q] = y
  <2> HIDE DEF q, n
  <2> QED BY <1>3, <1>4, <1>5
<1>7. ASSUME NEW p \in 1 .. n, p # q PROVE e[p] = c[p]
  <2>1. CASE p <= Len(s)
    <3> HIDE DEF n
    <3> QED BY <1>4, <2>1
  <2>2. CASE ~(p <= Len(s))
    <3>1. p - Len(s) \in 2 .. 1 + Len(t)
      BY <1>1, <1>7, <2>2
    <3> HIDE DEF n
    <3> QED BY <1>3, <1>4, <2>2, <3>1
  <2> QED BY <2>1, <2>2
<1>8. y = [value |-> y.value, of |-> x.of]
  BY DEF Carried
<1> HIDE DEF q, n
<1>9. Changed(c, e, q, y.value)
  BY <1>4, <1>5, <1>6, <1>7, <1>8 DEF Changed
<1> QED BY <1>9 DEF c, e, a, b, q

LineWith(line, i, v) == [line EXCEPT ![i] = v]

\* An octet that is changed in a piece of a line changes the line it is a piece of.
LEMMA PieceChanged ==
  ASSUME NEW s \in Travelling, NEW u, NEW q, NEW v, Changed(s, u, q, v),
         NEW line \in Seq(Octet), NEW j, NEW k \in 0 .. Len(line), NEW a \in Nat,
         Piece(s, line, j, k, a)
  PROVE  \/ Piece(u, line, j, k, a)
         \/ /\ s[q].of = j
            /\ \E i \in DOMAIN line :
                  i > k /\ line[i] \in Ordinary /\ Piece(u, LineWith(line, i, v), j, k, a)
<1> PICK n \in Nat : n = Len(line)
  BY LenProperties
<1>1. /\ DOMAIN s = 1 .. Len(s) /\ Len(s) \in Nat /\ DOMAIN line = 1 .. n
      /\ k \in Nat /\ n - k \in Nat /\ q \in Nat
  <2>1. DOMAIN s = 1 .. Len(s) /\ Len(s) \in Nat /\ DOMAIN line = 1 .. n
    BY LenProperties DEF Travelling
  <2>2. q \in 1 .. Len(s)
    BY <2>1 DEF Changed
  <2> QED BY <2>1, <2>2
<1>2. /\ a + n - k <= Len(s) /\ Len(u) = Len(s)
      /\ \A i \in 1 .. n - k : s[a + i] = [value |-> line[k + i], of |-> j]
  BY DEF Piece, Changed
<1>3. \A i \in 1 .. n - k :
        /\ a + i \in DOMAIN s
        /\ u[a + i] = IF a + i = q THEN [value |-> v, of |-> s[q].of] ELSE s[a + i]
  <2>1. \A i \in 1 .. n - k : a + i \in DOMAIN s
    BY <1>1, <1>2
  <2> QED BY <2>1 DEF Changed
<1>4. CASE q - a \notin 1 .. n - k
  <2>1. \A i \in 1 .. n - k : a + i # q
    BY <1>1, <1>4
  <2>2. \A i \in 1 .. n - k : u[a + i] = [value |-> line[k + i], of |-> j]
    BY <1>2, <1>3, <2>1
  <2> QED BY <1>2, <2>2 DEF Piece
<1>5. CASE q - a \in 1 .. n - k
  <2> PICK m \in 1 .. n - k : m = q - a
    BY <1>5
  <2> DEFINE i == k + m
             l == [line EXCEPT ![i] = v]
  <2>1. a + m = q /\ i \in 1 .. n /\ i > k /\ m \in Nat
    BY <1>1
  <2>2. s[q] = [value |-> line[i], of |-> j]
    BY <1>2, <2>1
  <2>3. s[q].of = j /\ line[i] \in Ordinary
    BY <2>2 DEF Changed
  <2>4. Len(l) = n
    <3>1. l \in Seq(Octet \cup {v})
      <4>1. line \in Seq(Octet \cup {v})
        BY ElementOfSeq, IsASeq
      <4> QED BY <1>1, <2>1, <4>1, ExceptSeq
    <3>2. DOMAIN l = 1 .. n
      BY <1>1
    <3> HIDE DEF l
    <3>3. DOMAIN l = 1 .. Len(l) /\ Len(l) \in Nat
      BY <3>1, LenProperties
    <3> QED BY <3>2, <3>3
  <2>5. ASSUME NEW h \in 1 .. n - k PROVE u[a + h] = [value |-> l[k + h], of |-> j]
    <3>1. h \in Nat /\ k + h \in 1 .. n
      BY <1>1
    <3>2. CASE h = m
      <4>1. l[k + h] = v
        BY <1>1, <2>1, <3>2
      <4> HIDE DEF l
      <4> QED BY <1>3, <2>1, <2>3, <3>2, <4>1
    <3>3. CASE h # m
      <4>1. k + h # i /\ a + h # q
        BY <1>1, <2>1, <3>1, <3>3
      <4>2. l[k + h] = line[k + h]
        BY <1>1, <3>1, <4>1
      <4> HIDE DEF l
      <4> QED BY <1>2, <1>3, <4>1, <4>2
    <3> QED BY <3>2, <3>3
  <2>6. Piece(u, l, j, k, a)
    <3> HIDE DEF l
    <3> QED BY <1>2, <2>4, <2>5 DEF Piece
  <2> HIDE DEF i
  <2> QED BY <1>1, <2>1, <2>3, <2>6 DEF LineWith
<1> QED BY <1>4, <1>5
-----------------------------------------------------------------------------
(* The line *)

\* What the line does with an octet, and how it is counted.
LEMMA CarryCases ==
  ASSUME DecoderInv, damage \in Nat, Carry
  PROVE  \E out, added \in Seq(Octet) :
            LET x == Head(wire)
                octets == out \o added
                intact == out = <<x.value>>
            IN  /\ x \in Carried /\ wire = <<x>> \o Tail(wire) /\ Tail(wire) \in Travelling
                /\ Len(added) \in {0, 1} /\ Len(out) \in {0, 1}
                /\ damage' = damage + Len(added) + (IF intact THEN 0 ELSE 1)
                /\ arrived' = arrived \o
                     [i \in DOMAIN octets |-> [value |-> octets[i], of |-> x.of]]
                /\ damaged' = IF intact /\ (added = <<>> \/ Tail(wire) = <<>>)
                                THEN damaged ELSE damaged \cup {x.of}
<1>1. wire # <<>> /\ wire' = Tail(wire)
  BY DEF Carry
<1>2. wire[1] \in Carried /\ wire = <<wire[1]>> \o Tail(wire) /\ Tail(wire) \in Travelling
  BY <1>1, HeadAndTail DEF DecoderInv
<1>3. Head(wire) = wire[1]
  BY <1>1, <1>2 DEF DecoderInv
<1> PICK x : x = Head(wire)
  OBVIOUS
<1>4. PICK out \in {<<>>} \cup {<<v>> : v \in Noise \cup {x.value}},
           added \in {<<>>} \cup {<<v>> : v \in Noise} :
        LET intact == out = <<x.value>>
            octets == out \o added
        IN  /\ damage' = damage + Len(added) + (IF intact THEN 0 ELSE 1)
            /\ arrived' = arrived \o
                 [i \in DOMAIN octets |-> [value |-> octets[i], of |-> x.of]]
            /\ damaged' = IF intact /\ (added = <<>> \/ wire' = <<>>)
                            THEN damaged ELSE damaged \cup {x.of}
  BY DEF Carry
<1>5. ASSUME NEW o \in {<<>>} \cup {<<v>> : v \in Noise \cup {x.value}}
      PROVE  o \in Seq(Octet) /\ Len(o) \in {0, 1}
  <2>1. Noise \subseteq Octet /\ x.value \in Octet
    BY <1>2, <1>3, LineAssumption DEF Carried
  <2>2. \A v \in Octet : <<v>> \in Seq(Octet) /\ Len(<<v>>) = 1
    OBVIOUS
  <2>3. <<>> \in Seq(Octet) /\ Len(<<>>) = 0
    OBVIOUS
  <2> QED BY <2>1, <2>2, <2>3
<1>6. added \in {<<>>} \cup {<<v>> : v \in Noise \cup {x.value}}
  OBVIOUS
<1>7. /\ out \in Seq(Octet) /\ Len(out) \in {0, 1}
      /\ added \in Seq(Octet) /\ Len(added) \in {0, 1}
  BY <1>5, <1>6
<1> QED BY <1>1, <1>2, <1>3, <1>4, <1>7

\* What the line does not damage goes on as it is.
LEMMA CarryIntact ==
  ASSUME DecoderInv, damage \in Nat, Carry, damage' = damage
  PROVE  Stream' = Stream /\ KeepsAll
<1> PICK x : x = Head(wire)
  OBVIOUS
<1> PICK t : t = Tail(wire)
  OBVIOUS
<1>1. /\ chunk = <<>> /\ wire' = t /\ chunk' = chunk /\ sent' = sent
      /\ arrived \in Travelling
  BY DEF Carry, DecoderInv
<1>2. PICK out \in Seq(Octet), added \in Seq(Octet) :
        LET octets == out \o added
            intact == out = <<x.value>>
        IN  /\ x \in Carried /\ wire = <<x>> \o t /\ t \in Travelling
            /\ Len(added) \in {0, 1} /\ Len(out) \in {0, 1}
            /\ damage' = damage + Len(added) + (IF intact THEN 0 ELSE 1)
            /\ arrived' = arrived \o
                 [i \in DOMAIN octets |-> [value |-> octets[i], of |-> x.of]]
            /\ damaged' = IF intact /\ (added = <<>> \/ t = <<>>)
                            THEN damaged ELSE damaged \cup {x.of}
  BY CarryCases
<1>3. Len(added) = 0 /\ out = <<x.value>>
  BY <1>2
<1>4. added = <<>>
  BY <1>3, EmptySeq
<1>5. out \o added = <<x.value>>
  BY <1>3, <1>4
<1>6. arrived' = arrived \o <<x>>
  <2>1. x = [value |-> x.value, of |-> x.of]
    BY <1>2 DEF Carried
  <2> DEFINE octets == <<x.value>>
             y == [i \in DOMAIN octets |-> [value |-> octets[i], of |-> x.of]]
  <2>2. y = <<x>>
    BY <2>1
  <2>3. arrived' = arrived \o y
    BY <1>2, <1>5
  <2> HIDE DEF y
  <2> QED BY <2>2, <2>3
<1>7. Stream' = Stream
  <2>1. <<x>> \in Travelling
    BY <1>2 DEF Travelling
  <2>2. <<>> \o arrived = arrived /\ <<>> \o (arrived \o <<x>>) = arrived \o <<x>>
    BY <1>1, <2>1, ConcatEmptySeq, ConcatProperties DEF Travelling
  <2>3. (arrived \o <<x>>) \o t = arrived \o (<<x>> \o t)
    <3>1. arrived \in Seq(Carried) /\ <<x>> \in Seq(Carried) /\ t \in Seq(Carried)
      BY <1>1, <1>2, <2>1 DEF Travelling
    <3> QED BY <3>1, ConcatAssociative
  <2> QED BY <1>1, <1>2, <1>6, <2>2, <2>3 DEF Stream
<1>8. KeepsAll
  BY <1>1, <1>2 DEF KeepsAll
<1> QED BY <1>7, <1>8

\* A gentle line has changed one octet, the first one of its frame.
GentleChange(q, v) ==
  /\ Changed(Stream, Stream', q, v)
  /\ Stream[q].of \notin damaged /\ damaged' = damaged \cup {Stream[q].of}
  /\ damage' > 0 /\ sent' = sent

LEMMA GentleCarry ==
  ASSUME DecoderInv, damage \in Nat, Carry, Gentle, damage' # damage
  PROVE  \E q, v : GentleChange(q, v)
<1> PICK x : x = Head(wire)
  OBVIOUS
<1> PICK t : t = Tail(wire)
  OBVIOUS
<1>1. /\ chunk = <<>> /\ wire' = t /\ chunk' = chunk /\ sent' = sent
      /\ arrived \in Travelling
  BY DEF Carry, DecoderInv
<1>2. PICK out \in Seq(Octet), added \in Seq(Octet) :
        LET octets == out \o added
            intact == out = <<x.value>>
        IN  /\ x \in Carried /\ wire = <<x>> \o t /\ t \in Travelling
            /\ Len(added) \in {0, 1} /\ Len(out) \in {0, 1}
            /\ damage' = damage + Len(added) + (IF intact THEN 0 ELSE 1)
            /\ arrived' = arrived \o
                 [i \in DOMAIN octets |-> [value |-> octets[i], of |-> x.of]]
            /\ damaged' = IF intact /\ (added = <<>> \/ t = <<>>)
                            THEN damaged ELSE damaged \cup {x.of}
  BY CarryCases
<1>3. /\ Len(arrived') = Len(arrived) + 1 /\ x.of \notin damaged
      /\ {x.value, arrived'[Len(arrived')].value} \subseteq Ordinary
  BY DEF Gentle
<1> DEFINE octets == out \o added
           y == [i \in DOMAIN octets |-> [value |-> octets[i], of |-> x.of]]
<1>4. octets \in Seq(Octet) /\ Len(octets) = Len(out) + Len(added)
  BY ConcatProperties
<1>5. y \in Travelling /\ arrived' = arrived \o y /\ DOMAIN y = 1 .. Len(octets)
  <2>1. x.of \in Nat
    BY <1>2 DEF Carried
  <2>2. DOMAIN octets = 1 .. Len(octets)
    BY <1>4, LenProperties
  <2> HIDE DEF octets
  <2> QED BY <1>2, <1>4, <2>1, <2>2, LabelledType DEF octets
<1>6. Len(y) = 1 /\ Len(octets) = 1
  <2>1. Len(y) \in Nat /\ DOMAIN y = 1 .. Len(y) /\ Len(arrived) \in Nat
    BY <1>1, <1>5, LenProperties DEF Travelling
  <2>2. Len(arrived') = Len(arrived) + Len(y)
    BY <1>1, <1>5, ConcatProperties DEF Travelling
  <2>3. Len(octets) \in Nat
    BY <1>4, LenProperties
  <2> HIDE DEF y, octets
  <2>4. Len(y) = 1
    BY <1>3, <2>1, <2>2
  <2>5. 1 .. Len(octets) = 1 .. 1
    BY <1>5, <2>1, <2>4
  <2>6. Len(octets) = 1
    <3> PICK n \in Nat : n = Len(octets)
      BY <2>3
    <3>1. 1 .. n = 1 .. 1
      BY <2>5
    <3>2. n # 0 /\ (n > 1 => n \in 1 .. n)
      BY <3>1
    <3> QED BY <3>1, <3>2
  <2> QED BY <2>4, <2>6
<1>7. PICK v : v = octets[1]
  OBVIOUS
<1> PICK z : z = [value |-> v, of |-> x.of]
  OBVIOUS
<1>8. y[1] = z /\ y = <<z>> /\ z \in Carried
  <2>1. 1 \in DOMAIN octets /\ octets[1] \in Octet
    <3>1. DOMAIN octets = 1 .. Len(octets)
      BY <1>4, LenProperties
    <3> HIDE DEF octets
    <3> QED BY <1>4, <1>6, <3>1, ElementOfSeq
  <2>2. y[1] = z
    BY <1>7, <2>1
  <2>3. z \in Carried
    BY <1>2, <1>7, <2>1 DEF Carried
  <2> HIDE DEF y
  <2>4. y = <<z>>
    <3>1. <<z>> \in Travelling /\ Len(<<z>>) = 1 /\ <<z>>[1] = z
      BY <2>3 DEF Travelling
    <3>2. \A i \in 1 .. Len(y) : y[i] = <<z>>[i]
      BY <1>6, <2>2
    <3> QED BY <1>5, <1>6, <3>1, <3>2, SeqEqual DEF Travelling
  <2> QED BY <2>2, <2>3, <2>4
<1>9. arrived' = arrived \o <<z>> /\ v \in Ordinary /\ x.value \in Ordinary
  <2>1. arrived' = arrived \o <<z>>
    BY <1>5, <1>8
  <2>2. arrived'[Len(arrived) + 1] = z
    <3>1. Len(arrived) \in Nat
      BY <1>1, LenProperties DEF Travelling
    <3> QED BY <1>1, <1>8, <2>1, <3>1 DEF Travelling
  <2>3. arrived'[Len(arrived')].value = v
    BY <1>3, <2>2
  <2> QED BY <1>3, <2>1, <2>3
<1>10. /\ Stream = arrived \o (<<x>> \o t) /\ Stream' = arrived \o (<<z>> \o t)
  <2>1. <<z>> \in Travelling
    BY <1>8 DEF Travelling
  <2>2. <<>> \o arrived = arrived /\ <<>> \o (arrived \o <<z>>) = arrived \o <<z>>
    BY <1>1, <2>1, ConcatEmptySeq, ConcatProperties DEF Travelling
  <2>3. (arrived \o <<z>>) \o t = arrived \o (<<z>> \o t)
    <3>1. arrived \in Seq(Carried) /\ <<z>> \in Seq(Carried) /\ t \in Seq(Carried)
      BY <1>1, <1>2, <2>1 DEF Travelling
    <3> QED BY <3>1, ConcatAssociative
  <2> QED BY <1>1, <1>2, <1>9, <2>2, <2>3 DEF Stream
<1> PICK q : q = Len(arrived) + 1
  OBVIOUS
<1>11. Changed(Stream, Stream', q, v)
  <2>1. z.value = v /\ z.of = x.of
    OBVIOUS
  <2> QED BY <1>1, <1>2, <1>8, <1>9, <1>10, <2>1, ChangedInside
<1>12. Stream[q] = x
  <2>1. Len(arrived) \in Nat /\ Len(t) \in Nat
    BY <1>1, <1>2, LenProperties DEF Travelling
  <2>2. <<x>> \in Seq(Carried) /\ t \in Seq(Carried) /\ Len(<<x>>) = 1 /\ <<x>>[1] = x
    BY <1>2 DEF Travelling
  <2> DEFINE u == <<x>> \o t
  <2>3. u \in Seq(Carried) /\ Len(u) = 1 + Len(t) /\ u[1] = x
    <3>1. 1 \in 1 .. 1 + Len(t) /\ 1 <= 1
      BY <2>1
    <3> QED BY <2>2, <3>1, ConcatProperties
  <2> HIDE DEF u
  <2>4. q \in 1 .. Len(arrived) + Len(u) /\ ~(q <= Len(arrived)) /\ q - Len(arrived) = 1
    BY <2>1, <2>3
  <2>5. (arrived \o u)[q] = u[q - Len(arrived)]
    BY <1>1, <2>3, <2>4, ConcatProperties DEF Travelling
  <2> QED BY <1>10, <2>3, <2>4, <2>5 DEF u
<1>13. damaged' = damaged \cup {x.of} /\ damage' > 0
  <2>1. ~(out = <<x.value>> /\ Len(added) = 0)
    BY <1>2
  <2>2. out = <<x.value>> => Len(out) = 1
    OBVIOUS
  <2>3. out # <<x.value>>
    BY <1>2, <1>4, <1>6, <2>1, <2>2
  <2> QED BY <1>2, <2>3
<1> QED BY <1>1, <1>3, <1>11, <1>12, <1>13 DEF GentleChange

\* What is left of a frame is there, as another of its lines has it.
LEMMA GentlePiece ==
  ASSUME DecoderInv, NEW q, NEW v, GentleChange(q, v), NEW j \in DOMAIN sent,
         NEW line \in Variants(j), NEW k \in Nat, k <= Len(line), NEW a \in Nat,
         Piece(Stream, line, j, k, a)
  PROVE  \E l \in Variants(j)' :
            Piece(Stream', l, j, k, a) /\ \A i \in 1 .. k : l[i] = line[i]
<1>1. line \in Seq(Octet) /\ Len(line) \in Nat /\ DOMAIN line = 1 .. Len(line)
  BY VariantLine, LenProperties
<1>2. Line(j)' = Line(j) /\ Variants(j) \subseteq Variants(j)'
  <2>1. Keeps(j)
    BY DEF GentleChange, Keeps
  <2> QED BY <2>1, VariantsKept
<1>3. CASE Piece(Stream', line, j, k, a)
  BY <1>2, <1>3
<1>4. CASE ~Piece(Stream', line, j, k, a)
  <2> PICK u : u = Stream'
    OBVIOUS
  <2>1. /\ Stream[q].of = j
        /\ \E i \in DOMAIN line :
              i > k /\ line[i] \in Ordinary /\ Piece(u, LineWith(line, i, v), j, k, a)
    <3>1. Stream \in Travelling /\ k \in 0 .. Len(line) /\ Changed(Stream, u, q, v)
      BY <1>1, StreamType DEF GentleChange
    <3>2. ~Piece(u, line, j, k, a)
      BY <1>4
    <3>3. Piece(Stream, line, j, k, a) /\ line \in Seq(Octet) /\ a \in Nat
      BY <1>1
    <3>4. \/ Piece(u, line, j, k, a)
          \/ /\ Stream[q].of = j
             /\ \E i \in DOMAIN line :
                   i > k /\ line[i] \in Ordinary /\ Piece(u, LineWith(line, i, v), j, k, a)
      BY <3>1, <3>3, PieceChanged
    <3> QED BY <3>2, <3>4
  <2> PICK i \in DOMAIN line :
         i > k /\ line[i] \in Ordinary /\ Piece(u, LineWith(line, i, v), j, k, a)
    BY <2>1
  <2>2. line = Line(j)
    <3>1. j \notin damaged
      BY <2>1 DEF GentleChange
    <3> QED BY <3>1 DEF Variants
  <2>3. damage' > 0 /\ j \in damaged' /\ v \in Ordinary
    BY <2>1 DEF GentleChange, Changed
  <2> DEFINE l == LineWith(line, i, v)
  <2>4. l \in Variants(j)'
    <3> DEFINE hit == {h \in DOMAIN line : damage' > 0 /\ j \in damaged' /\ line[h] \in Ordinary}
    <3>1. Variants(j)' = {line} \cup {LineWith(line, h, w) : h \in hit, w \in Ordinary}
      BY <1>2, <2>2 DEF Variants, LineWith
    <3>2. i \in hit
      BY <2>3
    <3> HIDE DEF hit
    <3> QED BY <2>3, <3>1, <3>2
  <2>5. ASSUME NEW h \in 1 .. k PROVE l[h] = line[h]
    <3>1. h # i /\ h \in DOMAIN line
      BY <1>1
    <3> QED BY <3>1 DEF LineWith
  <2> QED BY <2>4, <2>5
<1> QED BY <1>3, <1>4

\* Where a frame comes next, it still does.
LEMMA GentleArrives ==
  ASSUME DecoderInv, NEW q, NEW v, GentleChange(q, v), NEW j \in DOMAIN sent,
         NEW a \in Nat, Arrives(Stream, j, a)
  PROVE  \E l \in Variants(j)' : Piece(Stream', l, j, 0, a)
<1> PICK line \in Variants(j) : Piece(Stream, line, j, 0, a)
  BY DEF Arrives
<1>1. 0 \in Nat /\ 0 <= Len(line)
  BY VariantLine
<1> QED BY <1>1, GentlePiece

\* No octet moves or goes from one frame to another.
LEMMA GentlePlaces ==
  ASSUME DecoderInv, DecoderInv', NEW q, NEW v, GentleChange(q, v)
  PROVE  /\ DOMAIN Stream' = DOMAIN Stream /\ Len(Stream') = Len(Stream)
         /\ \A p \in DOMAIN Stream : Stream'[p].of = Stream[p].of
         /\ \A c, k : Later(c, k) => Later(c, k)'
<1>1. Stream \in Travelling /\ Stream' \in Travelling
  BY StreamType, StreamTypeNext
<1>2. Len(Stream') = Len(Stream) /\ \A p \in DOMAIN Stream : Stream'[p].of = Stream[p].of
  BY DEF GentleChange, Changed
<1>3. DOMAIN Stream' = DOMAIN Stream
  <2>1. DOMAIN Stream = 1 .. Len(Stream) /\ DOMAIN Stream' = 1 .. Len(Stream')
    BY <1>1, LenProperties DEF Travelling
  <2> QED BY <1>2, <2>1
<1> QED BY <1>2, <1>3 DEF Later

\* Behind a frame on the way still comes the next one.
LEMMA GentleFrames ==
  ASSUME DecoderInv, DecoderInv', LabelInv, FrameAfterFrame(Stream),
         NEW q, NEW v, GentleChange(q, v)
  PROVE  FrameAfterFrame(Stream)'
<1>1. /\ DOMAIN Stream' = DOMAIN Stream /\ Len(Stream') = Len(Stream)
      /\ \A p \in DOMAIN Stream : Stream'[p].of = Stream[p].of
  BY GentlePlaces
<1> SUFFICES ASSUME NEW p \in DOMAIN Stream', NEW j, j = Stream'[p].of
             PROVE  \E line \in Variants(j)', k \in 0 .. Len(Line(j)') - 1 :
                       LET end == p - 1 + Len(Line(j)') - k
                       IN  /\ Piece(Stream', line, j, k, p - 1)
                           /\ \/ end = Len(Stream')
                              \/ \E i \in DOMAIN sent' :
                                    i > j /\ \E l \in Variants(i)' : Piece(Stream', l, i, 0, end)
  BY DEF FrameAfterFrame, Arrives
<1>2. p \in DOMAIN Stream /\ j = Stream[p].of /\ j \in DOMAIN sent
  BY <1>1 DEF LabelInv, Labelled
<1>3. PICK line \in Variants(j), k \in 0 .. Len(Line(j)) - 1 :
        LET end == p - 1 + Len(Line(j)) - k
        IN  /\ Piece(Stream, line, j, k, p - 1)
            /\ end = Len(Stream) \/ \E i \in DOMAIN sent : i > j /\ Arrives(Stream, i, end)
  BY <1>2 DEF FrameAfterFrame
<1> DEFINE end == p - 1 + Len(Line(j)) - k
<1>4. /\ k \in Nat /\ k <= Len(line) /\ p - 1 \in Nat /\ end \in Nat
  <2> PICK n \in Nat : n = Len(Line(j)) /\ n = Len(line)
    BY <1>2, FrameLaw, VariantLine
  <2>1. k \in 0 .. n - 1
    OBVIOUS
  <2>2. p \in Nat /\ p > 0
    <3>1. DOMAIN Stream = 1 .. Len(Stream) /\ Len(Stream) \in Nat
      BY StreamType, LenProperties DEF Travelling
    <3> QED BY <1>2, <3>1
  <2>3. k \in Nat /\ k <= n /\ p - 1 \in Nat /\ (p - 1) + (n - k) \in Nat
    BY <2>1, <2>2
  <2>4. end = (p - 1) + (n - k)
    BY Zenon
  <2> QED BY <2>3, <2>4
<1>5. PICK l \in Variants(j)' : Piece(Stream', l, j, k, p - 1)
  BY <1>2, <1>3, <1>4, GentlePiece
<1>6. sent' = sent /\ Line(j)' = Line(j)
  BY DEF GentleChange, Line
<1>7. \/ end = Len(Stream')
      \/ \E i \in DOMAIN sent' : i > j /\ \E m \in Variants(i)' : Piece(Stream', m, i, 0, end)
  <2>1. end = Len(Stream) \/ \E i \in DOMAIN sent : i > j /\ Arrives(Stream, i, end)
    BY <1>3
  <2> HIDE DEF end
  <2>2. ASSUME NEW i \in DOMAIN sent, i > j, Arrives(Stream, i, end)
        PROVE  \E m \in Variants(i)' : Piece(Stream', m, i, 0, end)
    BY <1>4, <2>2, GentleArrives
  <2> QED BY <1>1, <1>6, <2>1, <2>2
<1>8. end = p - 1 + Len(Line(j)') - k /\ k \in 0 .. Len(Line(j)') - 1
  BY <1>6
<1> HIDE DEF end
<1> QED BY <1>5, <1>7, <1>8

\* The register depends on the octets that went through it.
LEMMA RegistersAgree ==
  ASSUME NEW s \in Seq(Octet), NEW t \in Seq(Octet), NEW m \in Nat, m <= Len(s), m <= Len(t),
         \A i \in 1 .. m : s[i] = t[i]
  PROVE  Registers(s)[m] = Registers(t)[m]
<1> DEFINE T == {k \in Nat : k <= m => Registers(s)[k] = Registers(t)[k]}
<1>1. Len(s) \in Nat /\ Len(t) \in Nat
  BY LenProperties
<1>2. 0 \in T
  BY RegistersLaw
<1>3. ASSUME NEW k \in Nat, k \in T PROVE k + 1 \in T
  <2> SUFFICES ASSUME k + 1 <= m PROVE Registers(s)[k + 1] = Registers(t)[k + 1]
    OBVIOUS
  <2>1. Registers(s)[k] = Registers(t)[k] /\ s[k + 1] = t[k + 1]
    BY <1>3
  <2>2. k + 1 \in 1 .. Len(s) /\ k + 1 \in 1 .. Len(t) /\ (k + 1) - 1 = k
    BY <1>1
  <2>3. Registers(s)[k + 1] = fcs16(Registers(s)[k], s[k + 1])
    BY <2>2, RegistersLaw
  <2>4. Registers(t)[k + 1] = fcs16(Registers(t)[k], t[k + 1])
    BY <2>2, RegistersLaw
  <2> QED BY <2>1, <2>3, <2>4
<1>4. Nat \subseteq T
  <2> HIDE DEF T
  <2> QED BY <1>2, <1>3, Induction
<1> QED BY <1>4

\* A line of a frame, and what is read on it, are octets.
LEMMA VariantType ==
  ASSUME DecoderInv, NEW j \in DOMAIN sent, sent'[j] = sent[j], NEW l \in Variants(j)'
  PROVE  l \in Seq(Octet) /\ Len(l) = Len(Line(j))
<1> PICK line : line = Line(j)
  OBVIOUS
<1>1. line \in Seq(Octet) /\ Len(line) \in Nat /\ DOMAIN line = 1 .. Len(line)
  BY FrameLaw, LenProperties
<1>2. Line(j)' = line
  BY DEF Line
<1>3. l = line \/ \E i \in DOMAIN line, v \in Ordinary : l = [line EXCEPT ![i] = v]
  BY <1>2 DEF Variants
<1>4. ASSUME NEW i \in DOMAIN line, NEW v \in Ordinary, l = [line EXCEPT ![i] = v]
      PROVE  l \in Seq(Octet) /\ Len(l) = Len(line)
  <2>1. v \in Octet
    BY DEF Ordinary
  <2>2. line \in [1 .. Len(line) -> Octet]
    BY <1>1, ElementOfSeq
  <2>3. l \in [1 .. Len(line) -> Octet]
    BY <1>1, <1>4, <2>1, <2>2
  <2>4. l \in Seq(Octet) /\ DOMAIN l = 1 .. Len(line)
    BY <1>1, <2>3, IsASeq
  <2> QED BY <1>1, <2>4, LenProperties
<1> QED BY <1>1, <1>3, <1>4

LEMMA ReadType ==
  ASSUME DecoderInv, NEW j \in DOMAIN sent, NEW l \in Seq(Octet), Len(l) = Len(Line(j))
  PROVE  Read(j, l) \in Seq(Octet) /\ Len(Read(j, l)) = Len(WithFcs(sent[j]))
<1> DEFINE octets == WithFcs(sent[j])
           n == Len(octets)
           line == Line(j)
           t == Read(j, l)
<1>1. Sound(sent[j]) /\ Len(line) \in Nat /\ n \in Nat /\ DOMAIN octets = 1 .. n
  BY FrameLaw, FrameOctets, LenProperties
<1>2. \A m \in 1 .. n : Place(j, m) \in 1 .. Len(line)
  <2>1. \A m \in 0 .. n : Taken(sent[j], m) \in 1 .. Len(line) - 1
    BY <1>1, LineLaw DEF Line
  <2>2. \A m \in 1 .. n : Place(j, m) = Taken(sent[j], m)
    BY DEF Place, Taken
  <2>3. \A m \in 1 .. n : m \in 0 .. n
    BY <1>1
  <2>4. \A k \in 1 .. Len(line) - 1 : k \in 1 .. Len(line)
    BY <1>1
  <2> QED BY <2>1, <2>2, <2>3, <2>4
<1>3. t = [m \in 1 .. n |-> LET v == l[Place(j, m)]
                            IN  IF octets[m] \in {Flag, Escape} THEN Flip(v) ELSE v]
  BY <1>1 DEF Read
<1>4. ASSUME NEW m \in 1 .. n PROVE t[m] \in Octet
  <2>1. l[Place(j, m)] \in Octet
    BY <1>2, ElementOfSeq
  <2>2. t[m] = IF octets[m] \in {Flag, Escape} THEN Flip(l[Place(j, m)]) ELSE l[Place(j, m)]
    BY <1>3
  <2> QED BY <2>1, <2>2, FlipType
<1>5. t \in [1 .. n -> Octet]
  <2>1. t = [m \in 1 .. n |-> t[m]]
    BY <1>3
  <2> HIDE DEF t
  <2> QED BY <1>4, <2>1
<1>6. t \in Seq(Octet) /\ DOMAIN t = 1 .. n
  BY <1>1, <1>5, IsASeq
<1> QED BY <1>1, <1>6, LenProperties

\* What the decoder holds is a beginning of what it would read on another line that agrees
\* with the frame's as far as it has come.
LEMMA BegunAgrees ==
  ASSUME DecoderInv, NEW j \in DOMAIN sent, NEW line \in Variants(j), NEW l \in Variants(j)',
         sent'[j] = sent[j], UNCHANGED yahdlc_state,
         BegunAs(j, Read(j, line)), \A i \in 1 .. yahdlc_state.length : l[i] = line[i],
         NEW r, r = Read(j, l)'
  PROVE  BegunAs(j, r)'
<1> DEFINE d == yahdlc_state
           m == d.frame_byte_index
           octets == WithFcs(sent[j])
<1> PICK t : t = Read(j, line)
  OBVIOUS
<1>1. /\ octets \in Seq(Octet) /\ Len(octets) \in Nat /\ DOMAIN octets = 1 .. Len(octets)
      /\ t \in Seq(Octet) /\ Len(t) = Len(octets)
  <2>1. Sound(sent[j]) /\ ReadsAs(j, line, t)
    BY FrameLaw, VariantLine
  <2> QED BY <2>1, FrameOctets, LenProperties DEF ReadsAs
<1>2. r \in Seq(Octet) /\ Len(r) = Len(octets)
  <2>1. l \in Seq(Octet) /\ Len(l) = Len(Line(j))
    BY VariantType
  <2>2. r = Read(j, l)
    BY DEF Read, Place
  <2> QED BY <2>1, <2>2, ReadType
<1>3. m \in Nat /\ m <= Len(octets) /\ Len(d.dest) = (IF m > 1 THEN m - 2 ELSE 0)
      /\ DOMAIN d.dest = 1 .. Len(d.dest) /\ d.length \in Nat
  <2>1. d \in DecoderState /\ Len(d.dest) = (IF m > 1 THEN m - 2 ELSE 0)
    BY DEF DecoderInv, DecoderOK
  <2>2. m \in Nat /\ d.length \in Nat /\ d.dest \in Seq(Octet)
    BY <2>1 DEF DecoderState
  <2> QED BY <2>1, <2>2, LenProperties DEF BegunAs
<1>4. ASSUME NEW i \in 1 .. m PROVE r[i] = t[i]
  <2>1. i \in 1 .. Len(octets) /\ m \in 1 .. Len(octets)
    BY <1>1, <1>3
  <2>2. Place(j, i) \in Nat /\ Place(j, i) > 0 /\ Place(j, i) <= d.length
    <3>1. \A k \in 1 .. Len(octets) : Place(j, k) \in Nat /\ Place(j, k) > 0
      <4>1. Sound(sent[j])
        BY FrameLaw
      <4>2. \A k \in 0 .. Len(octets) : Taken(sent[j], k) \in 1 .. Len(Line(j)) - 1
        BY <4>1, LineLaw DEF Line
      <4>3. Len(Line(j)) \in Nat
        BY FrameLaw
      <4>4. \A k \in 1 .. Len(octets) : k \in 0 .. Len(octets) /\ Place(j, k) = Taken(sent[j], k)
        BY <1>1 DEF Place, Taken
      <4>5. \A k \in 1 .. Len(Line(j)) - 1 : k \in Nat /\ k > 0
        BY <4>3
      <4> QED BY <4>2, <4>4, <4>5
    <3>2. i = m \/ Place(j, i) < Place(j, m)
      <4>1. i < m \/ i = m
        BY <1>3
      <4> QED BY <2>1, <4>1, PlaceGrows
    <3>3. Place(j, m) <= d.length
      <4>1. d.length = Place(j, m) + (IF d.control_escape THEN 1 ELSE 0)
        BY DEF BegunAs
      <4>2. Place(j, m) \in Nat
        BY <2>1, <3>1
      <4> QED BY <1>3, <4>1, <4>2
    <3>4. Place(j, i) \in Nat /\ Place(j, m) \in Nat /\ Place(j, i) > 0
      BY <2>1, <3>1
    <3> QED BY <1>3, <3>2, <3>3, <3>4
  <2>3. l[Place(j, i)] = line[Place(j, i)]
    BY <1>3, <2>2
  <2>4. Place(j, i)' = Place(j, i) /\ WithFcs(sent'[j]) = octets
    BY DEF Place
  <2> QED BY <1>1, <2>1, <2>3, <2>4 DEF Read
<1>5. Registers(r)[m] = Registers(t)[m]
  BY <1>1, <1>2, <1>3, <1>4, RegistersAgree
<1>6. m > 1 => r[2] = t[2]
  BY <1>3, <1>4
<1>7. \A i \in DOMAIN d.dest : r[i + 2] = t[i + 2]
  <2> SUFFICES ASSUME NEW i \in DOMAIN d.dest PROVE i + 2 \in 1 .. m
    BY <1>4
  <2> QED BY <1>3
<1> QED BY <1>5, <1>6, <1>7 DEF BegunAs, Place

\* The decoder stays where it is in its frame.
LEMMA GentleInside ==
  ASSUME DecoderInv, DecoderInv', NEW q, NEW v, GentleChange(q, v), Carry,
         NEW j \in DOMAIN sent, Inside(j)
  PROVE  Inside(j)'
<1> DEFINE d == yahdlc_state
<1>1. chunk = <<>> /\ yahdlc_state' = yahdlc_state /\ sent' = sent
  BY DEF Carry
<1>2. PICK line \in Variants(j) :
        /\ InProgressAs(j, line, Read(j, line))
        /\ Later(j, Len(Line(j)) - d.length)
  BY <1>1 DEF Inside, CompleteAs
<1>3. BegunAs(j, Read(j, line)) /\ Piece(Stream, line, j, d.length, 0)
  BY <1>2 DEF InProgressAs
<1>4. d.length \in Nat /\ d.length <= Len(line)
  <2>1. d.length \in 1 .. Len(Line(j)) - 1
    BY <1>3, BegunLaw
  <2>2. Len(Line(j)) \in Nat /\ Len(line) = Len(Line(j))
    BY FrameLaw, VariantLine
  <2> QED BY <2>1, <2>2
<1>5. PICK l \in Variants(j)' :
        Piece(Stream', l, j, d.length, 0) /\ \A i \in 1 .. d.length : l[i] = line[i]
  <2>1. 0 \in Nat
    OBVIOUS
  <2> QED BY <1>3, <1>4, <2>1, GentlePiece
<1> PICK r : r = Read(j, l)'
  OBVIOUS
<1>6. BegunAs(j, r)'
  BY <1>1, <1>3, <1>5, BegunAgrees
<1>7. InProgressAs(j, l, r)'
  BY <1>1, <1>5, <1>6 DEF InProgressAs
<1> PICK n : n = Len(Line(j)) - d.length
  OBVIOUS
<1>8. Later(j, n)'
  BY <1>2, GentlePlaces
<1>9. n = Len(Line(j)') - yahdlc_state'.length
  BY <1>1 DEF Line
<1>10. Later(j, Len(Line(j)) - yahdlc_state.length)'
  BY <1>8, <1>9 DEF Later
<1> QED BY <1>7, <1>10 DEF Inside

\* An octet that a gentle line changes changes nothing that was decoded.
LEMMA GentleUpTo ==
  ASSUME DecoderInv, DecoderInv', NEW q, NEW v, GentleChange(q, v), Carry,
         NEW c \in 0 .. Len(sent), FaithfulUpTo(c)
  PROVE  FaithfulUpTo(c)'
<1>1. UNCHANGED <<yahdlc_state, sent, received>>
  BY DEF Carry
<1>2. Later(c, 1)'
  BY GentlePlaces DEF FaithfulUpTo
<1>3. Embeds(DOMAIN received', received', SubSeq(sent', 1, c)) /\ DOMAIN sent' = DOMAIN sent
  BY <1>1 DEF FaithfulUpTo
<1>4. CASE ~yahdlc_state.started
  <2>1. ~yahdlc_state'.started
    BY <1>1, <1>4
  <2> QED BY <1>2, <1>3, <2>1 DEF FaithfulUpTo
<1>5. CASE /\ yahdlc_state.length = 1
           /\ Stream = <<>> \/ \E j \in DOMAIN sent : Arrives(Stream, j, 0)
  <2>1. Stream # <<>>
    BY DEF GentleChange, Changed
  <2>2. 0 \in Nat
    OBVIOUS
  <2>3. \E j \in DOMAIN sent : \E l \in Variants(j)' : Piece(Stream', l, j, 0, 0)
    BY <1>5, <2>1, <2>2, GentleArrives
  <2>4. yahdlc_state'.length = 1 /\ \E j \in DOMAIN sent' : Arrives(Stream, j, 0)'
    BY <1>1, <1>3, <1>5, <2>3 DEF Arrives
  <2> QED BY <1>2, <1>3, <2>4 DEF FaithfulUpTo
<1>6. CASE \E j \in DOMAIN sent : j > c /\ Inside(j)
  <2>1. PICK j \in DOMAIN sent : j > c /\ Inside(j)
    BY <1>6
  <2>2. Inside(j)'
    BY <2>1, GentleInside
  <2> QED BY <1>2, <1>3, <2>1, <2>2 DEF FaithfulUpTo
<1> QED BY <1>4, <1>5, <1>6 DEF FaithfulUpTo

\* A gentle line keeps the invariant.
LEMMA CarryGentle ==
  ASSUME DecoderInv, DecoderInv', LabelInv, damage \in Nat, GentleInv, Carry, Gentle
  PROVE  GentleInv'
<1>1. PICK c \in 0 .. Len(sent) : FaithfulUpTo(c)
  BY DEF GentleInv
<1>2. FrameAfterFrame(Stream)
  BY DEF GentleInv
<1>3. UNCHANGED <<yahdlc_state, chunk, sent, received>>
  BY DEF Carry
<1>4. CASE damage' = damage
  <2>1. Stream' = Stream /\ KeepsAll
    BY <1>4, CarryIntact
  <2>2. FrameAfterFrame(Stream)' /\ FaithfulUpTo(c)'
    BY <1>1, <1>2, <1>3, <2>1, FaithfulSame
  <2> QED BY <1>3, <2>2 DEF GentleInv
<1>5. CASE damage' # damage
  <2>1. PICK q, v : GentleChange(q, v)
    BY <1>5, GentleCarry
  <2>2. FrameAfterFrame(Stream)' /\ FaithfulUpTo(c)'
    BY <1>1, <1>2, <2>1, GentleFrames, GentleUpTo
  <2> QED BY <1>3, <2>2 DEF GentleInv
<1> QED BY <1>4, <1>5
-----------------------------------------------------------------------------
(* The other steps *)

\* A frame that is sent keeps those on the way.
LEMMA SendKeeps ==
  ASSUME DecoderInv, DecoderInv', Send, NEW j \in DOMAIN sent
  PROVE  /\ Keeps(j) /\ j \in DOMAIN sent'
         /\ \A line \in Variants(j), k, a \in Nat :
              k < Len(line) /\ Piece(Stream, line, j, k, a) => Piece(Stream', line, j, k, a)
         /\ \A a \in Nat : Arrives(Stream, j, a) =>
              \E l \in Variants(j)' : Piece(Stream', l, j, 0, a)
<1> PICK n \in Nat : n = Len(sent) + 1
  BY LenProperties DEF DecoderInv
<1>1. /\ Stream' = Stream \o wire' /\ sent'[j] = sent[j] /\ j \in DOMAIN sent'
      /\ Stream \in Travelling /\ wire' \in Travelling
  BY SendStream, StreamType DEF DecoderInv
<1>2. Keeps(j)
  BY <1>1 DEF Keeps, Send
<1>3. ASSUME NEW line \in Variants(j), NEW k \in Nat, NEW a \in Nat, k < Len(line),
             Piece(Stream, line, j, k, a)
      PROVE  Piece(Stream', line, j, k, a)
  <2>1. line \in Seq(Octet) /\ Len(line) \in Nat
    BY VariantLine
  <2>2. k \in 0 .. Len(line)
    BY <1>3, <2>1
  <2>3. Piece(Stream \o wire', line, j, k, a)
    BY <1>1, <1>3, <2>1, <2>2, PieceInFront
  <2> QED BY <1>1, <2>3
<1>4. ASSUME NEW a \in Nat, Arrives(Stream, j, a)
      PROVE  \E l \in Variants(j)' : Piece(Stream', l, j, 0, a)
  <2>1. PICK line \in Variants(j) : Piece(Stream, line, j, 0, a)
    BY <1>4 DEF Arrives
  <2>2. 0 \in Nat /\ 0 < Len(line)
    BY VariantLine
  <2>3. Piece(Stream', line, j, 0, a) /\ line \in Variants(j)'
    BY <1>2, <1>3, <2>1, <2>2, VariantsKept
  <2> QED BY <2>3
<1> QED BY <1>1, <1>2, <1>3, <1>4

\* Behind each frame on the way comes another one or the one that is sent.
LEMMA FramesSent ==
  ASSUME DecoderInv, DecoderInv', LabelInv, FrameAfterFrame(Stream), Send
  PROVE  FrameAfterFrame(Stream)'
<1> PICK k \in Nat : k = Len(sent) + 1
  BY LenProperties DEF DecoderInv
<1> DEFINE a == Len(Stream)
<1>1. /\ k \in DOMAIN sent' /\ DOMAIN sent' = DOMAIN sent \cup {k}
      /\ \A i \in DOMAIN sent : i \in Nat /\ i < k
  <2>1. k \in DOMAIN sent' /\ DOMAIN sent' = DOMAIN sent \cup {k}
    BY SendStream
  <2>2. DOMAIN sent = 1 .. Len(sent) /\ Len(sent) \in Nat
    BY FrameNumbers
  <2>3. \A i \in 1 .. Len(sent) : i \in Nat /\ i < k
    BY <2>2
  <2> QED BY <2>1, <2>2, <2>3
<1>2. /\ a \in Nat /\ Len(Stream') = a + Len(Line(k)')
      /\ Len(Line(k)') \in Nat /\ Len(Line(k)') >= 6
      /\ \A p \in DOMAIN Stream : p \in 1 .. a /\ Stream'[p] = Stream[p]
      /\ \A p \in DOMAIN Stream' :
           \/ p \in DOMAIN Stream
           \/ p \in Nat /\ p > a /\ p <= Len(Stream') /\ Stream'[p].of = k
      /\ \A m \in 0 .. Len(Line(k)') - 1 : Piece(Stream', Line(k)', k, m, a + m)
  BY SentPiece
<1>3. Line(k)' \in Variants(k)'
  BY DEF Variants
<1> SUFFICES ASSUME NEW p \in DOMAIN Stream', NEW j, j = Stream'[p].of
             PROVE  \E line \in Variants(j)', l \in 0 .. Len(Line(j)') - 1 :
                       LET end == p - 1 + Len(Line(j)') - l
                       IN  /\ Piece(Stream', line, j, l, p - 1)
                           /\ \/ end = Len(Stream')
                              \/ \E i \in DOMAIN sent' :
                                    i > j /\ \E m \in Variants(i)' : Piece(Stream', m, i, 0, end)
  BY DEF FrameAfterFrame, Arrives
<1>4. CASE p \in DOMAIN Stream
  <2>1. j \in DOMAIN sent /\ Stream[p].of = j
    BY <1>2, <1>4 DEF LabelInv, Labelled
  <2>2. PICK line \in Variants(j), l \in 0 .. Len(Line(j)) - 1 :
          LET end == p - 1 + Len(Line(j)) - l
          IN  /\ Piece(Stream, line, j, l, p - 1)
              /\ end = a \/ \E i \in DOMAIN sent : i > j /\ Arrives(Stream, i, end)
    BY <1>4, <2>1 DEF FrameAfterFrame
  <2>3. /\ Len(Line(j)) \in Nat /\ Len(Line(j)) >= 6 /\ Line(j)' = Line(j)
        /\ Len(line) = Len(Line(j)) /\ line \in Variants(j)'
    <3>1. Keeps(j)
      BY <2>1, SendKeeps
    <3> QED BY <2>1, <3>1, FrameLaw, VariantLine, VariantsKept
  <2> DEFINE end == p - 1 + Len(Line(j)) - l
  <2>4. /\ l \in Nat /\ l < Len(line) /\ p - 1 \in Nat /\ end \in Nat
    <3> PICK n \in Nat : n = Len(Line(j)) /\ n = Len(line)
      BY <2>3
    <3>1. l \in 0 .. n - 1 /\ p \in Nat /\ p > 0
      BY <1>2, <1>4
    <3>2. l \in Nat /\ l < n /\ p - 1 \in Nat /\ (p - 1) + (n - l) \in Nat
      BY <3>1
    <3>3. end = (p - 1) + (n - l)
      BY Zenon
    <3> QED BY <3>2, <3>3
  <2>5. Piece(Stream', line, j, l, p - 1)
    BY <2>1, <2>2, <2>4, SendKeeps
  <2>6. \/ end = Len(Stream')
        \/ \E i \in DOMAIN sent' : i > j /\ \E m \in Variants(i)' : Piece(Stream', m, i, 0, end)
    <3>1. end = a \/ \E i \in DOMAIN sent : i > j /\ Arrives(Stream, i, end)
      BY <2>2
    <3> HIDE DEF end
    <3>2. CASE end = a
      <4>1. 0 \in 0 .. Len(Line(k)') - 1 /\ a + 0 = a
        BY <1>2
      <4>2. Piece(Stream', Line(k)', k, 0, a + 0)
        BY <1>2, <4>1
      <4>3. Piece(Stream', Line(k)', k, 0, end)
        BY <3>2, <4>1, <4>2
      <4> QED BY <1>1, <1>3, <2>1, <4>3
    <3>3. CASE \E i \in DOMAIN sent : i > j /\ Arrives(Stream, i, end)
      <4>1. PICK i \in DOMAIN sent : i > j /\ Arrives(Stream, i, end)
        BY <3>3
      <4>2. i \in DOMAIN sent' /\ \E m \in Variants(i)' : Piece(Stream', m, i, 0, end)
        BY <2>4, <4>1, SendKeeps
      <4> QED BY <4>1, <4>2
    <3> QED BY <3>1, <3>2, <3>3
  <2> HIDE DEF end
  <2>7. l \in 0 .. Len(Line(j)') - 1 /\ end = p - 1 + Len(Line(j)') - l
    BY <2>3 DEF end
  <2> QED BY <2>3, <2>5, <2>6, <2>7
<1>5. CASE p \in Nat /\ p > a /\ p <= Len(Stream') /\ Stream'[p].of = k
  <2> PICK n \in Nat : n = Len(Line(k)')
    BY <1>2
  <2>1. \E m \in 0 .. n - 1 : p - 1 = a + m /\ p - 1 + n - m = Len(Stream')
    <3> DEFINE m == p - 1 - a
    <3>1. m \in 0 .. n - 1 /\ p - 1 = a + m /\ p - 1 + n - m = Len(Stream')
      BY <1>2, <1>5
    <3> QED BY <3>1
  <2>2. PICK m \in 0 .. n - 1 : p - 1 = a + m /\ p - 1 + n - m = Len(Stream')
    BY <2>1
  <2>3. Piece(Stream', Line(k)', k, m, a + m)
    BY <1>2
  <2>4. Piece(Stream', Line(j)', j, m, p - 1) /\ j = k
    BY <1>5, <2>2, <2>3
  <2> QED BY <1>3, <2>2, <2>4
<1> QED BY <1>2, <1>4, <1>5

\* The frame that is sent is later than all others.
LEMMA LaterSent ==
  ASSUME DecoderInv, DecoderInv', Send, NEW c \in 0 .. Len(sent), NEW n, Later(c, n)
  PROVE  Later(c, n)'
<1> PICK k \in Nat : k = Len(sent) + 1
  BY LenProperties DEF DecoderInv
<1>1. /\ \A p \in DOMAIN Stream : Stream'[p] = Stream[p]
      /\ \A p \in DOMAIN Stream' : p \in DOMAIN Stream \/ Stream'[p].of = k
  BY SentPiece
<1>2. k > c
  <2>1. Len(sent) \in Nat
    BY FrameNumbers
  <2> QED BY <2>1
<1> QED BY <1>1, <1>2 DEF Later

\* The decoder stays where it is in its frame.
LEMMA InsideSent ==
  ASSUME DecoderInv, DecoderInv', Send, NEW j \in DOMAIN sent, Inside(j)
  PROVE  Inside(j)'
<1> DEFINE d == yahdlc_state
<1>1. UNCHANGED <<yahdlc_state, chunk, received>>
  BY DEF Send
<1>2. Keeps(j) /\ Line(j)' = Line(j) /\ sent'[j] = sent[j] /\ j \in 0 .. Len(sent)
  BY SendKeeps, FrameNumbers DEF Keeps, Line
<1> PICK line \in Variants(j) :
       LET t == Read(j, line)
       IN  \/ InProgressAs(j, line, t) /\ Later(j, Len(Line(j)) - d.length)
           \/ CompleteAs(j, t) /\ Later(j, 1)
  BY DEF Inside
<1> PICK t : t = Read(j, line)
  OBVIOUS
<1>3. BegunAs(j, t) => BegunAs(j, t)'
  BY <1>1, <1>2 DEF BegunAs, Place
<1>4. CASE InProgressAs(j, line, t) /\ Later(j, Len(Line(j)) - d.length)
  <2>1. BegunAs(j, t) /\ Piece(Stream, line, j, d.length, 0)
    BY <1>4 DEF InProgressAs
  <2>2. d.length \in Nat /\ d.length < Len(line) /\ 0 \in Nat
    <3>1. d.length \in 1 .. Len(Line(j)) - 1
      BY <2>1, BegunLaw
    <3>2. Len(Line(j)) \in Nat /\ Len(line) = Len(Line(j))
      BY FrameLaw, VariantLine
    <3> QED BY <3>1, <3>2
  <2>3. Piece(Stream', line, j, d.length, 0)
    BY <2>1, <2>2, SendKeeps
  <2>4. InProgressAs(j, line, t)'
    BY <1>1, <1>3, <2>1, <2>3 DEF InProgressAs
  <2> PICK n : n = Len(Line(j)) - d.length
    OBVIOUS
  <2>5. Later(j, n)'
    BY <1>2, <1>4, LaterSent
  <2>6. n = Len(Line(j)') - yahdlc_state'.length
    BY <1>1, <1>2
  <2> QED BY <1>2, <2>4, <2>5, <2>6, InsideNext
<1>5. CASE CompleteAs(j, t) /\ Later(j, 1)
  <2>1. CompleteAs(j, t)'
    BY <1>1, <1>2, <1>3, <1>5 DEF CompleteAs, First
  <2>2. Later(j, 1)'
    BY <1>2, <1>5, LaterSent
  <2> QED BY <1>2, <2>1, <2>2, InsideNext
<1> QED BY <1>4, <1>5

\* Nothing changes for the decoder when a frame is sent.
LEMMA FaithfulSend ==
  ASSUME DecoderInv, DecoderInv', LabelInv, FrameAfterFrame(Stream),
         NEW c \in 0 .. Len(sent), FaithfulUpTo(c), Send
  PROVE  /\ FrameAfterFrame(Stream)' /\ FaithfulUpTo(c)'
         /\ c \in 0 .. Len(sent')
<1>1. UNCHANGED <<yahdlc_state, chunk, received>>
  BY DEF Send
<1> PICK k \in Nat : k = Len(sent) + 1
  BY LenProperties DEF DecoderInv
<1>2. /\ Len(sent') = k /\ \A i \in DOMAIN sent : sent'[i] = sent[i]
      /\ DOMAIN sent' = DOMAIN sent \cup {k}
  BY SendStream
<1>3. DOMAIN sent = 1 .. Len(sent) /\ Len(sent) \in Nat
      /\ \A j \in DOMAIN sent : j \in Nat /\ j \in 0 .. Len(sent)
  BY FrameNumbers
<1>4. c \in 0 .. Len(sent') /\ \A i \in 1 .. c : i \in DOMAIN sent
  BY <1>2, <1>3
<1>5. Later(c, 1)'
  BY LaterSent DEF FaithfulUpTo
<1>6. Embeds(DOMAIN received', received', SubSeq(sent', 1, c))
  <2> DEFINE a == SubSeq(sent, 1, c)
             b == SubSeq(sent', 1, c)
  <2>1. DOMAIN a = 1 .. c /\ \A i \in 1 .. c : a[i] = sent[i]
    BY PrefixLaw DEF DecoderInv
  <2>2. DOMAIN b = 1 .. c /\ \A i \in 1 .. c : b[i] = sent'[i]
    BY <1>4, PrefixLaw DEF DecoderInv
  <2>3. Embeds(DOMAIN received, received, a)
    BY DEF FaithfulUpTo
  <2>4. DOMAIN a = DOMAIN b /\ \A i \in DOMAIN a : a[i] = b[i]
    BY <1>2, <1>4, <2>1, <2>2
  <2> HIDE DEF a, b
  <2>5. Embeds(DOMAIN received, received, b)
    BY <2>3, <2>4 DEF Embeds
  <2> QED BY <1>1, <2>5 DEF b
<1>7. CASE ~yahdlc_state.started
  <2>1. ~yahdlc_state'.started
    BY <1>1, <1>7
  <2> QED BY <1>4, <1>5, <1>6, <2>1, FramesSent DEF FaithfulUpTo
<1>8. CASE /\ yahdlc_state.length = 1
           /\ Stream = <<>> \/ \E j \in DOMAIN sent : Arrives(Stream, j, 0)
  <2>1. ASSUME Stream = <<>>
        PROVE  \E j \in DOMAIN sent' : \E l \in Variants(j)' : Piece(Stream', l, j, 0, 0)
    <3>1. Len(Stream) = 0
      BY <2>1
    <3>2. 0 \in 0 .. Len(Line(k)') - 1 /\ 0 + 0 = 0
      BY SentPiece
    <3>3. Piece(Stream', Line(k)', k, 0, Len(Stream) + 0)
      BY <3>2, SentPiece
    <3>4. Piece(Stream', Line(k)', k, 0, 0)
      BY <3>1, <3>2, <3>3
    <3>5. Line(k)' \in Variants(k)'
      BY DEF Variants
    <3> QED BY <1>2, <3>4, <3>5
  <2>2. ASSUME NEW j \in DOMAIN sent, Arrives(Stream, j, 0)
        PROVE  \E i \in DOMAIN sent' : \E l \in Variants(i)' : Piece(Stream', l, i, 0, 0)
    <3>1. 0 \in Nat
      OBVIOUS
    <3> QED BY <2>2, <3>1, SendKeeps
  <2>3. yahdlc_state'.length = 1 /\ \E j \in DOMAIN sent' : Arrives(Stream, j, 0)'
    BY <1>1, <1>8, <2>1, <2>2 DEF Arrives
  <2> QED BY <1>4, <1>5, <1>6, <2>3, FramesSent DEF FaithfulUpTo
<1>9. CASE \E j \in DOMAIN sent : j > c /\ Inside(j)
  <2>1. PICK j \in DOMAIN sent : j > c /\ Inside(j)
    BY <1>9
  <2>2. j \in DOMAIN sent' /\ Inside(j)'
    BY <2>1, SendKeeps, InsideSent
  <2> QED BY <1>4, <1>5, <1>6, <2>1, <2>2, FramesSent DEF FaithfulUpTo
<1> QED BY <1>7, <1>8, <1>9 DEF FaithfulUpTo

\* Only Carry damages, and what it has damaged stays damaged.
LEMMA DamageCounted ==
  ASSUME DecoderInv, damage \in Nat, [Next]_vars
  PROVE  damage' \in Nat /\ damage' >= damage /\ (Carry \/ damage' = damage)
<1>1. CASE Carry
  <2>1. PICK out \in {<<>>} \cup {<<v>> : v \in Noise \cup {Head(wire).value}},
             added \in {<<>>} \cup {<<v>> : v \in Noise} :
          damage' = damage + Len(added) + (IF out = <<Head(wire).value>> THEN 0 ELSE 1)
    BY <1>1 DEF Carry
  <2>2. Len(added) \in Nat
    BY <2>1
  <2> QED BY <1>1, <2>1, <2>2
<1>2. CASE Decode
  BY <1>2 DEF Decode, SkipOctet, SkipFlag, StartFrame, TakeEscape, TakeOctet, EndFrame, Elsewhere
<1>3. CASE Send \/ dcProcessData
  BY <1>3 DEF Send, dcProcessData
<1>4. CASE UNCHANGED vars
  BY <1>4 DEF vars
<1> QED BY <1>1, <1>2, <1>3, <1>4 DEF Next

\* Nothing was sent.
LEMMA FaithfulInit == Init => FaithfulInv /\ GentleInv
<1> SUFFICES ASSUME Init PROVE FaithfulInv /\ GentleInv
  OBVIOUS
<1>1. /\ yahdlc_state = yahdlc_reset_state /\ sent = <<>> /\ received = <<>> /\ damage = 0
      /\ Stream = <<>> \o <<>> \o <<>>
  BY DEF Init, Stream
<1>2. Stream = <<>> /\ ~yahdlc_state.started
  BY <1>1 DEF yahdlc_reset_state
<1>3. FrameAfterFrame(Stream)
  BY <1>2 DEF FrameAfterFrame
<1>4. FaithfulUpTo(0)
  <2>1. Embeds(DOMAIN received, received, SubSeq(sent, 1, 0))
    <3> DEFINE t == SubSeq(sent, 1, 0)
               g == [i \in {} |-> 0]
    <3>1. DOMAIN received = {} /\ g \in [{} -> DOMAIN t]
      BY <1>1
    <3> HIDE DEF t
    <3> QED BY <3>1 DEF Embeds
  <2>2. Later(0, 1)
    BY <1>2 DEF Later
  <2> QED BY <1>2, <2>1, <2>2 DEF FaithfulUpTo
<1>5. 0 \in 0 .. Len(sent)
  BY <1>1
<1> QED BY <1>1, <1>3, <1>4, <1>5 DEF FaithfulInv, GentleInv

\* A turn of the decoder's loop.
LEMMA FaithfulDecode ==
  ASSUME DecoderInv, LabelInv, IdleInv, FrameAfterFrame(Stream), NEW c \in 0 .. Len(sent),
         FaithfulUpTo(c), Decode
  PROVE  FrameAfterFrame(Stream)' /\ \E e \in 0 .. Len(sent') : FaithfulUpTo(e)'
<1>1. CASE SkipOctet
  <2>1. /\ chunk # <<>> /\ chunk' = Tail(chunk) /\ ~yahdlc_state'.started
        /\ UNCHANGED <<arrived, wire, sent, received, damaged, damage>>
    BY <1>1 DEF SkipOctet, Consume, Elsewhere
  <2>2. FrameAfterFrame(Stream)' /\ FaithfulUpTo(c)'
    BY <2>1, FramesTail, FaithfulIdle
  <2> QED BY <2>1, <2>2
<1>2. CASE SkipFlag \/ StartFrame
  <2>1. /\ chunk # <<>> /\ chunk' = Tail(chunk)
        /\ UNCHANGED <<arrived, wire, sent, damaged, damage>>
    BY <1>2 DEF SkipFlag, StartFrame, Consume, Elsewhere
  <2>2. FrameAfterFrame(Stream)' /\ FaithfulUpTo(c)'
    BY <1>2, <2>1, FramesTail, FaithfulFlag
  <2> QED BY <2>1, <2>2
<1>3. CASE TakeEscape \/ TakeOctet
  <2>1. FaithfulUpTo(c)' /\ chunk' = Tail(chunk)
    BY <1>3, FaithfulTake
  <2>2. chunk # <<>> /\ UNCHANGED <<arrived, wire, sent, damaged, damage>>
    BY <1>3 DEF TakeEscape, TakeOctet, Elsewhere
  <2>3. FrameAfterFrame(Stream)'
    BY <2>1, <2>2, FramesTail
  <2> QED BY <2>1, <2>2, <2>3
<1>4. CASE EndFrame
  BY <1>4, FaithfulEnd
<1> QED BY <1>1, <1>2, <1>3, <1>4 DEF Decode

\* Each step of a gentle line preserves GentleInv.
LEMMA GentleStep ==
  DecoderInv /\ DecoderInv' /\ UndamagedInv /\ damage \in Nat /\ GentleInv /\ [Next]_vars /\ Gentle
    => GentleInv'
<1> SUFFICES ASSUME DecoderInv, DecoderInv', UndamagedInv, damage \in Nat, GentleInv,
                    [Next]_vars, Gentle
             PROVE  GentleInv'
  OBVIOUS
<1>1. LabelInv /\ IdleInv
  BY DEF UndamagedInv
<1>2. PICK c \in 0 .. Len(sent) : FaithfulUpTo(c)
  BY DEF GentleInv
<1>3. FrameAfterFrame(Stream)
  BY DEF GentleInv
<1>4. CASE Decode
  BY <1>1, <1>2, <1>3, <1>4, FaithfulDecode DEF GentleInv
<1>5. CASE Send
  BY <1>1, <1>2, <1>3, <1>5, FaithfulSend DEF GentleInv
<1>6. CASE Carry
  BY <1>1, <1>6, CarryGentle
<1>7. CASE dcProcessData \/ UNCHANGED vars
  <2>1. Stream' = Stream
    BY <1>7, dcProcessDataStep DEF UndamagedInv, vars, Stream
  <2>2. /\ UNCHANGED <<yahdlc_state, sent, received>> /\ KeepsAll
        /\ chunk = <<>> \/ UNCHANGED chunk
    BY <1>7 DEF dcProcessData, vars, KeepsAll
  <2>3. FrameAfterFrame(Stream)' /\ FaithfulUpTo(c)'
    BY <1>2, <1>3, <2>1, <2>2, FaithfulSame
  <2> QED BY <2>2, <2>3 DEF GentleInv
<1> QED BY <1>4, <1>5, <1>6, <1>7 DEF Next

\* A line that has damaged nothing was gentle.
LEMMA FaithfulStep ==
  DecoderInv /\ DecoderInv' /\ UndamagedInv /\ FaithfulInv /\ [Next]_vars => FaithfulInv'
<1> SUFFICES ASSUME DecoderInv, DecoderInv', UndamagedInv, FaithfulInv, [Next]_vars
             PROVE  FaithfulInv'
  OBVIOUS
<1>1. damage \in Nat /\ damage' \in Nat /\ damage' >= damage
  BY DamageCounted DEF FaithfulInv
<1> SUFFICES ASSUME damage' = 0 PROVE GentleInv'
  BY <1>1 DEF FaithfulInv
<1>2. damage = 0 /\ GentleInv /\ Gentle
  BY <1>1 DEF FaithfulInv, Gentle
<1> QED BY <1>1, <1>2, GentleStep

\* What is decoded up to some frame is sent.
LEMMA FaithfulSent == ASSUME DecoderInv, GentleInv PROVE OnlySent
<1>1. PICK c \in 0 .. Len(sent) : FaithfulUpTo(c)
  BY DEF GentleInv
<1> DEFINE t == SubSeq(sent, 1, c)
<1>2. DOMAIN t = 1 .. c /\ \A i \in 1 .. c : t[i] = sent[i]
  BY PrefixLaw DEF DecoderInv
<1>3. DOMAIN t \subseteq DOMAIN sent
  BY <1>2, FrameNumbers
<1>4. Embeds(DOMAIN received, received, t)
  BY <1>1 DEF FaithfulUpTo
<1> HIDE DEF t
<1>5. Embeds(DOMAIN received, received, sent)
  BY <1>2, <1>3, <1>4 DEF Embeds
<1> QED BY <1>5 DEF OnlySent

\* The three invariants hold in each behaviour.
LEMMA FaithfulInvariant == Spec => [](DecoderInv /\ UndamagedInv /\ FaithfulInv)
<1>1. Init => DecoderInv /\ UndamagedInv /\ FaithfulInv
  BY DecoderInit, UndamagedInit, FaithfulInit
<1>2. DecoderInv /\ UndamagedInv /\ FaithfulInv /\ [Next]_vars
        => (DecoderInv /\ UndamagedInv /\ FaithfulInv)'
  BY DecoderStep, UndamagedStep, FaithfulStep
<1> QED BY <1>1, <1>2, PTL DEF Spec

\* The inductive invariant, the same one a run checks: while the line has damaged nothing,
\* what the decoder holds and what it has still to see are frames, one behind the other,
\* that come after all it has decoded.
THEOREM FaithfulInvCorrect == Spec => []FaithfulInv
BY FaithfulInvariant, PTL

\* While the line has damaged nothing, whatever chunks are cut from the octets and whichever
\* calls an external method ends, what is decoded are frames that were sent, unchanged and
\* in order, none of them twice.
THEOREM OnlySentUndisturbed == Spec => [](damage = 0 => OnlySent)
<1>1. DecoderInv /\ FaithfulInv => (damage = 0 => OnlySent)
  BY FaithfulSent DEF FaithfulInv
<1> QED BY <1>1, FaithfulInvariant, PTL

\* On a gentle line both invariants hold, whatever it has changed.
LEMMA GentleInvariant ==
  Spec /\ [][Gentle]_vars => [](DecoderInv /\ UndamagedInv /\ damage \in Nat /\ GentleInv)
<1>1. Init => DecoderInv /\ UndamagedInv /\ damage \in Nat /\ GentleInv
  BY DecoderInit, UndamagedInit, FaithfulInit DEF FaithfulInv
<1>2. DecoderInv /\ UndamagedInv /\ damage \in Nat /\ GentleInv /\ [Next]_vars /\ [Gentle]_vars
        => (DecoderInv /\ UndamagedInv /\ damage \in Nat /\ GentleInv)'
  <2> SUFFICES ASSUME DecoderInv, UndamagedInv, damage \in Nat, GentleInv, [Next]_vars,
                      [Gentle]_vars
               PROVE  DecoderInv' /\ UndamagedInv' /\ damage' \in Nat /\ GentleInv'
    OBVIOUS
  <2>1. DecoderInv' /\ UndamagedInv' /\ damage' \in Nat
    BY DecoderStep, UndamagedStep, DamageCounted
  <2>2. Gentle
    <3>1. ASSUME UNCHANGED vars PROVE damage' = damage
      BY <3>1 DEF vars
    <3> QED BY <3>1 DEF Gentle
  <2> QED BY <2>1, <2>2, GentleStep
<1> QED BY <1>1, <1>2, PTL DEF Spec

\* If the line keeps every octet in its place and changes no more than one of a frame, one
\* that means itself into one that means itself, what is decoded are frames that were sent,
\* unchanged and in order, none of them twice: the checksum finds out each frame that was
\* changed (BurstDetected), and the decoder is with the next one from its first octet on.
THEOREM OnlySentGentle == Spec /\ [][Gentle]_vars => []OnlySent
<1>1. DecoderInv /\ GentleInv => OnlySent
  BY FaithfulSent
<1> QED BY <1>1, GentleInvariant, PTL
-----------------------------------------------------------------------------
(* The loop of dcProcessData *)

\* The decoder's turns end: each one that leaves an octet or a flag in the chunk leaves
\* the frame it was in.
LEMMA TurnsStep == DecoderInv /\ [Next]_vars => [Decode => Turns' < Turns]_vars
<1> SUFFICES ASSUME DecoderInv, Decode PROVE Turns' < Turns
  OBVIOUS
<1> DEFINE n == Len(chunk)
           Started(d) == IF d.started THEN 1 ELSE 0
<1>1. chunk \in Travelling /\ chunk # <<>> /\ n \in Nat
  <2>1. chunk \in Travelling
    BY DEF DecoderInv
  <2>2. n \in Nat
    BY <2>1, LenProperties DEF Travelling
  <2> QED BY <2>1, <2>2 DEF Decode, SkipOctet, SkipFlag, StartFrame, TakeEscape, TakeOctet, EndFrame
<1>2. ASSUME chunk' = Tail(chunk) PROVE n' = n - 1
  BY <1>1, <1>2, HeadTailProperties DEF Travelling
<1>3. /\ Turns = 2 * n + Started(yahdlc_state)
      /\ Turns' = 2 * n' + Started(yahdlc_state')
      /\ Started(yahdlc_state) \in {0, 1} /\ Started(yahdlc_state') \in {0, 1}
  BY DEF Turns
<1>4. ~yahdlc_reset_state.started
  BY DEF yahdlc_reset_state
<1> HIDE DEF n
<1>5. CASE SkipOctet \/ SkipFlag
  <2>1. chunk' = Tail(chunk) /\ yahdlc_state' = yahdlc_state
    BY <1>5 DEF SkipOctet, SkipFlag, Consume
  <2>2. n' = n - 1
    BY <1>2, <2>1
  <2> HIDE DEF Started
  <2> QED BY <1>1, <1>3, <2>1, <2>2
<1>6. CASE StartFrame
  <2>1. chunk' = Tail(chunk) /\ ~yahdlc_state.started
    BY <1>6 DEF StartFrame, Consume
  <2>2. n' = n - 1 /\ Started(yahdlc_state) = 0
    BY <1>2, <2>1
  <2> HIDE DEF Started
  <2> QED BY <1>1, <1>3, <2>2
<1>7. CASE TakeEscape
  <2>1. chunk' = Tail(chunk) /\ yahdlc_state.started
    BY <1>7 DEF TakeEscape, Consume
  <2>2. n' = n - 1 /\ Started(yahdlc_state) = 1
    BY <1>2, <2>1
  <2> HIDE DEF Started
  <2> QED BY <1>1, <1>3, <2>2
<1>8. CASE TakeOctet
  <2>1. yahdlc_state.started
    BY <1>8 DEF TakeOctet
  <2>2. chunk' = Tail(chunk) \/ (yahdlc_state' = yahdlc_reset_state /\ chunk' = chunk)
    BY <1>8 DEF TakeOctet, Consume
  <2>3. Started(yahdlc_state) = 1
    BY <2>1
  <2>4. n' = n - 1 \/ (Started(yahdlc_state') = 0 /\ n' = n)
    BY <1>2, <1>4, <2>2 DEF n
  <2> HIDE DEF Started
  <2> QED BY <1>1, <1>3, <2>3, <2>4
<1>9. CASE EndFrame
  <2>1. yahdlc_state.started /\ yahdlc_state' = yahdlc_reset_state
    BY <1>9 DEF EndFrame
  <2>2. chunk' = chunk \/ chunk' = <<>>
    BY <1>9 DEF EndFrame, Remaining
  <2>3. Started(yahdlc_state) = 1 /\ Started(yahdlc_state') = 0
    BY <1>4, <2>1
  <2>4. n' = n \/ n' = 0
    BY <2>2 DEF n
  <2> HIDE DEF Started
  <2> QED BY <1>1, <1>3, <2>3, <2>4
<1> QED BY <1>5, <1>6, <1>7, <1>8, <1>9 DEF Decode

\* However the chunks are cut and whatever is in them, the loop of dcProcessData ends: each
\* turn brings its end nearer, those that consume nothing too.
THEOREM TurnsEndCorrect == Spec => TurnsEnd
<1>1. [](DecoderInv) /\ [][Next]_vars => TurnsEnd
  BY TurnsStep, PTL DEF TurnsEnd
<1> QED BY <1>1, DecoderInvariant, PTL DEF Spec
-----------------------------------------------------------------------------
(* The line as the link state machine sees it *)

\* A set of numbers has a least one.
LEMMA Least ==
  ASSUME NEW S \in SUBSET Nat, S # {}
  PROVE  \E m \in S : \A k \in 0 .. m - 1 : k \notin S
<1> SUFFICES ASSUME \A m \in S : \E k \in 0 .. m - 1 : k \in S PROVE FALSE
  OBVIOUS
<1> DEFINE T == {m \in Nat : \A k \in 0 .. m : k \notin S}
<1>1. 0 \in T
  <2>1. 0 \notin S
    OBVIOUS
  <2> QED BY <2>1
<1>2. ASSUME NEW m \in Nat, m \in T PROVE m + 1 \in T
  <2>1. \A k \in 0 .. m : k \notin S
    BY <1>2
  <2>2. m + 1 \notin S
    BY <2>1
  <2> QED BY <2>1, <2>2
<1>3. Nat \subseteq T
  <2> HIDE DEF T
  <2> QED BY <1>1, <1>2, Induction
<1>4. \A m \in Nat : m \notin S
  BY <1>3
<1> QED BY <1>4

\* r is in order among the first c elements of t; and the least such c.
EmbedsIn(r, t, c) == Embeds(DOMAIN r, r, SubSeq(t, 1, c))
LastOf(r, t) ==
  CHOOSE c \in 0 .. Len(t) : EmbedsIn(r, t, c) /\ \A b \in 0 .. c - 1 : ~EmbedsIn(r, t, b)

\* In which places r can be found among the first c elements of t.
Places(r, t, c) ==
  {g \in [1 .. Len(r) -> 1 .. c] :
     /\ \A i \in 1 .. Len(r) : r[i] = t[g[i]]
     /\ \A i, j \in 1 .. Len(r) : i < j => g[i] < g[j]}

\* There is one if r is in order there.
LEMMA EmbedsInLaw ==
  ASSUME NEW S, NEW t \in Seq(S), NEW R, NEW r \in Seq(R), NEW c \in 0 .. Len(t)
  PROVE  EmbedsIn(r, t, c) <=> Places(r, t, c) # {}
<1> DEFINE a == SubSeq(t, 1, c)
<1>1. DOMAIN r = 1 .. Len(r) /\ DOMAIN a = 1 .. c /\ \A i \in 1 .. c : a[i] = t[i]
  BY LenProperties, PrefixLaw
<1> HIDE DEF a
<1>2. \A g \in [1 .. Len(r) -> 1 .. c] : \A i \in 1 .. Len(r) : a[g[i]] = t[g[i]]
  BY <1>1
<1>3. Embeds(DOMAIN r, r, a) <=>
        \E g \in [1 .. Len(r) -> 1 .. c] :
           /\ \A i \in 1 .. Len(r) : r[i] = t[g[i]]
           /\ \A i, j \in 1 .. Len(r) : i < j => g[i] < g[j]
  BY <1>1, <1>2 DEF Embeds
<1> QED BY <1>3 DEF EmbedsIn, Places, a

\* What is in order among all elements is so among the first ones up to some least number.
LEMMA LastOfLaw ==
  ASSUME NEW S, NEW t \in Seq(S), NEW R, NEW r \in Seq(R), Embeds(DOMAIN r, r, t)
  PROVE  /\ LastOf(r, t) \in 0 .. Len(t) /\ EmbedsIn(r, t, LastOf(r, t))
         /\ \A b \in 0 .. LastOf(r, t) - 1 : ~EmbedsIn(r, t, b)
<1> DEFINE T == {c \in 0 .. Len(t) : EmbedsIn(r, t, c)}
<1>1. Len(t) \in Nat /\ Len(t) \in 0 .. Len(t) /\ DOMAIN t = 1 .. Len(t) /\ DOMAIN r = 1 .. Len(r)
  BY LenProperties
<1>2. EmbedsIn(r, t, Len(t))
  BY <1>1, EmbedsInLaw DEF Embeds, Places
<1>3. Len(t) \in T
  BY <1>1, <1>2
<1>4. PICK m \in T : \A k \in 0 .. m - 1 : k \notin T
  <2>1. T \in SUBSET Nat /\ T # {}
    BY <1>1, <1>3
  <2> HIDE DEF T
  <2> QED BY <2>1, Least
<1>5. m \in 0 .. Len(t) /\ EmbedsIn(r, t, m) /\ \A b \in 0 .. m - 1 : ~EmbedsIn(r, t, b)
  <2>1. \A b \in 0 .. m - 1 : b \in 0 .. Len(t)
    BY <1>1
  <2> QED BY <1>4, <2>1
<1> QED BY <1>5, Zenon DEF LastOf

\* The least such number is the only one.
LEMMA LastOfUnique ==
  ASSUME NEW S, NEW t \in Seq(S), NEW R, NEW r \in Seq(R), NEW c \in 0 .. Len(t),
         EmbedsIn(r, t, c), \A b \in 0 .. c - 1 : ~EmbedsIn(r, t, b)
  PROVE  LastOf(r, t) = c
<1> DEFINE P(e) == e \in 0 .. Len(t) /\ EmbedsIn(r, t, e) /\ \A b \in 0 .. e - 1 : ~EmbedsIn(r, t, b)
<1>1. P(LastOf(r, t))
  BY Zenon DEF LastOf
<1>2. ASSUME NEW e, P(e) PROVE e = c
  <2>1. e \in Nat /\ c \in Nat
    BY <1>2, LenProperties
  <2>2. ~(e < c) /\ ~(c < e)
    <3>1. e < c => e \in 0 .. c - 1
      BY <2>1
    <3>2. c < e => c \in 0 .. e - 1
      BY <2>1
    <3> QED BY <1>2, <3>1, <3>2
  <2> QED BY <2>1, <2>2
<1> HIDE DEF P
<1> QED BY <1>1, <1>2

\* One frame more is sent: the last one received is the same.
LEMMA LastOfSent ==
  ASSUME NEW S, NEW t \in Seq(S), NEW R, NEW r \in Seq(R), Embeds(DOMAIN r, r, t), NEW f \in S
  PROVE  LastOf(r, Append(t, f)) = LastOf(r, t)
<1> DEFINE u == Append(t, f)
           c == LastOf(r, t)
<1>1. /\ Len(t) \in Nat /\ u \in Seq(S) /\ Len(u) = Len(t) + 1
      /\ \A i \in 1 .. Len(t) : u[i] = t[i]
  BY AppendProperties, LenProperties
<1>2. ASSUME NEW e \in 0 .. Len(t) PROVE EmbedsIn(r, u, e) <=> EmbedsIn(r, t, e)
  <2> HIDE DEF u
  <2>1. e \in 0 .. Len(u) /\ \A l \in 1 .. e : l \in 1 .. Len(t)
    BY <1>1
  <2>2. \A g \in [1 .. Len(r) -> 1 .. e] : \A i \in 1 .. Len(r) : u[g[i]] = t[g[i]]
    BY <1>1, <2>1
  <2>3. Places(r, u, e) = Places(r, t, e)
    BY <2>2 DEF Places
  <2> QED BY <1>1, <2>1, <2>3, EmbedsInLaw
<1>3. c \in 0 .. Len(t) /\ EmbedsIn(r, t, c) /\ \A b \in 0 .. c - 1 : ~EmbedsIn(r, t, b)
  BY LastOfLaw
<1> HIDE DEF u, c
<1>4. /\ c \in 0 .. Len(u) /\ EmbedsIn(r, u, c)
      /\ \A b \in 0 .. c - 1 : b \in 0 .. Len(t) /\ ~EmbedsIn(r, u, b)
  BY <1>1, <1>2, <1>3
<1>5. LastOf(r, u) = c
  BY <1>1, <1>4, LastOfUnique
<1> QED BY <1>5 DEF u, c

\* One frame more is received: it is behind the last one before.
LEMMA LastOfReceived ==
  ASSUME NEW S, NEW t \in Seq(S), NEW R, NEW r \in Seq(R), NEW x \in R,
         Embeds(DOMAIN r, r, t), Embeds(DOMAIN Append(r, x), Append(r, x), t)
  PROVE  \E n \in LastOf(r, t) + 1 .. Len(t) : x = t[n] /\ LastOf(Append(r, x), t) = n
<1> DEFINE q == Append(r, x)
           c == LastOf(r, t)
           e == LastOf(q, t)
           m == Len(r)
<1>1. /\ Len(t) \in Nat /\ m \in Nat /\ q \in Seq(R) /\ Len(q) = m + 1
      /\ q[m + 1] = x /\ Embeds(DOMAIN q, q, t)
      /\ \A i \in 1 .. m : q[i] = r[i]
  BY AppendProperties, LenProperties
<1>2. c \in 0 .. Len(t) /\ EmbedsIn(r, t, c) /\ \A b \in 0 .. c - 1 : ~EmbedsIn(r, t, b)
  BY LastOfLaw
<1> HIDE DEF q
<1>3. e \in 0 .. Len(t) /\ EmbedsIn(q, t, e) /\ \A b \in 0 .. e - 1 : ~EmbedsIn(q, t, b)
  BY <1>1, LastOfLaw
<1> HIDE DEF c, e, m
<1>4. PICK g \in [1 .. m + 1 -> 1 .. e] :
         /\ \A i \in 1 .. m + 1 : q[i] = t[g[i]]
         /\ \A i, j \in 1 .. m + 1 : i < j => g[i] < g[j]
  <2>1. Places(q, t, e) # {}
    BY <1>1, <1>3, EmbedsInLaw
  <2>2. Len(q) = m + 1
    BY <1>1
  <2> QED BY <2>1, <2>2 DEF Places
<1> DEFINE k == g[m + 1]
<1>5. m + 1 \in 1 .. m + 1 /\ k \in 1 .. e /\ k \in 0 .. Len(t) /\ k \in Nat /\ e \in Nat /\ k <= e
      /\ k - 1 \in 0 .. Len(t) /\ x = t[k]
  <2>1. m + 1 \in 1 .. m + 1
    BY <1>1
  <2> QED BY <1>1, <1>3, <1>4, <2>1
<1>6. ASSUME NEW i \in 1 .. m PROVE i \in 1 .. m + 1 /\ i < m + 1 /\ g[i] \in 1 .. k - 1
  <2>1. i \in 1 .. m + 1 /\ i < m + 1
    BY <1>1
  <2>2. g[i] < k /\ g[i] \in 1 .. e
    BY <1>4, <1>5, <2>1
  <2> HIDE DEF k
  <2> QED BY <1>5, <2>1, <2>2
<1>7. EmbedsIn(q, t, k)
  <2>1. ASSUME NEW i \in 1 .. m + 1 PROVE g[i] \in 1 .. k
    <3>1. CASE i = m + 1
      BY <1>5, <3>1
    <3>2. CASE i \in 1 .. m
      <4>1. g[i] \in 1 .. k - 1
        BY <1>6, <3>2
      <4> HIDE DEF k
      <4> QED BY <1>5, <4>1
    <3> QED BY <1>1, <3>1, <3>2
  <2>2. g \in [1 .. m + 1 -> 1 .. k]
    BY <2>1
  <2> HIDE DEF k
  <2> QED BY <1>1, <1>4, <1>5, <2>2, EmbedsInLaw DEF Places
<1>8. EmbedsIn(r, t, k - 1)
  <2> DEFINE h == [i \in 1 .. m |-> g[i]]
  <2>1. h \in [1 .. m -> 1 .. k - 1] /\ \A i \in 1 .. m : h[i] = g[i]
    BY <1>6
  <2>2. \A i \in 1 .. m : r[i] = t[h[i]]
    BY <1>1, <1>4, <1>6, <2>1
  <2>3. \A i, j \in 1 .. m : i < j => h[i] < h[j]
    BY <1>4, <1>6, <2>1
  <2> HIDE DEF k, h
  <2>4. \E f \in [1 .. m -> 1 .. k - 1] :
          /\ \A i \in 1 .. m : r[i] = t[f[i]]
          /\ \A i, j \in 1 .. m : i < j => f[i] < f[j]
    BY <2>1, <2>2, <2>3
  <2> QED BY <1>5, <2>4, EmbedsInLaw DEF Places, m
<1> HIDE DEF k
<1>9. k = e
  <2>1. k < e => k \in 0 .. e - 1
    BY <1>5
  <2> QED BY <1>3, <1>5, <1>7, <2>1
<1>10. c + 1 <= k
  <2>1. c \in Nat
    BY <1>1, <1>2
  <2>2. k - 1 < c => k - 1 \in 0 .. c - 1
    BY <1>5, <2>1
  <2> QED BY <1>2, <1>5, <1>8, <2>1, <2>2
<1>11. k \in c + 1 .. Len(t)
  BY <1>1, <1>2, <1>5, <1>10
<1> QED BY <1>5, <1>9, <1>11 DEF c, e, q

\* If nothing but what was sent is received, before a step and after it, then the step is
\* one of FrameLink or leaves what was sent and received alone.
LEMMA LinkStep ==
  ASSUME DecoderInv, DecoderInv', OnlySent, OnlySent', [Next]_vars
  PROVE  [Link!Next]_(Link!vars)
<1>1. /\ LastReceived = LastOf(received, sent)
      /\ LastReceived' = LastOf(received', sent')
  BY DEF LastReceived, LastOf, EmbedsInFirst, EmbedsIn, OnlySent
<1>2. /\ sent \in Seq(Frames) /\ received \in Seq(Message)
      /\ Embeds(DOMAIN received, received, sent)
      /\ Embeds(DOMAIN received', received', sent')
  BY DEF DecoderInv, OnlySent
<1>3. ASSUME UNCHANGED <<sent, received>> PROVE UNCHANGED Link!vars
  BY <1>1, <1>3 DEF Link!vars
<1>4. CASE EndFrame
  <2>1. sent' = sent /\ Decoded(yahdlc_state) \in Message
    BY <1>4, DecodedType DEF EndFrame, DecoderInv, DecoderOK
  <2>2. CASE received' = received
    BY <1>3, <2>1, <2>2
  <2>3. CASE received' = Append(received, Decoded(yahdlc_state))
    <3>1. \E n \in LastOf(received, sent) + 1 .. Len(sent) :
            Decoded(yahdlc_state) = sent[n] /\ LastOf(received', sent) = n
      BY <1>2, <2>1, <2>3, LastOfReceived
    <3>2. Link!Receive
      BY <1>1, <2>1, <2>3, <3>1 DEF Link!Receive
    <3> QED BY <3>2 DEF Link!Next
  <2> QED BY <1>4, <2>2, <2>3 DEF EndFrame
<1>5. CASE Send
  <2>1. PICK f \in Frames : sent' = Append(sent, f)
    BY <1>5 DEF Send
  <2>2. received' = received
    BY <1>5 DEF Send
  <2>3. LastReceived' = LastReceived
    BY <1>1, <1>2, <2>1, <2>2, LastOfSent
  <2>4. Link!Send
    BY <2>1, <2>2, <2>3 DEF Link!Send
  <2> QED BY <2>4 DEF Link!Next
<1>6. CASE Decode /\ ~EndFrame
  BY <1>3, <1>6 DEF Decode, SkipOctet, SkipFlag, StartFrame, TakeEscape, TakeOctet, Elsewhere
<1>7. CASE Carry \/ dcProcessData
  BY <1>3, <1>7 DEF Carry, dcProcessData
<1>8. CASE UNCHANGED vars
  BY <1>3, <1>8 DEF vars
<1> QED BY <1>4, <1>5, <1>6, <1>7, <1>8 DEF Next

\* Nothing was sent or received.
LEMMA LinkInit == Init => Link!Init
<1> SUFFICES ASSUME Init PROVE Link!Init
  OBVIOUS
<1>1. sent = <<>> /\ received = <<>>
  BY DEF Init
<1>2. LastReceived = 0
  <2>2. sent \in Seq(Frames) /\ received \in Seq(Message) /\ Len(sent) = 0
    BY <1>1
  <2>3. Embeds(DOMAIN received, received, sent)
    <3> DEFINE g == [i \in {} |-> 0]
    <3>1. DOMAIN received = {} /\ g \in [{} -> DOMAIN sent]
      BY <1>1
    <3> QED BY <3>1 DEF Embeds
  <2>4. LastOf(received, sent) \in 0 .. 0
    BY <2>2, <2>3, LastOfLaw
  <2>5. LastReceived = LastOf(received, sent)
    BY <2>3 DEF LastReceived, LastOf, EmbedsInFirst, EmbedsIn, OnlySent
  <2> QED BY <2>4, <2>5
<1> QED BY <1>1, <1>2 DEF Link!Init

\* As long as the line damages nothing, it does what FrameLink allows: the frames that are
\* received were sent, in that order, whatever the chunks, and some may be missing whose
\* call an external method ended.
THEOREM CarriesFramesUndisturbed == Spec /\ [](damage = 0) => CarriesFrames
<1>1. Init => Link!Init
  BY LinkInit
<1>2. DecoderInv /\ FaithfulInv /\ damage = 0 => OnlySent
  BY FaithfulSent DEF FaithfulInv
<1>3. DecoderInv /\ DecoderInv' /\ OnlySent /\ OnlySent' /\ [Next]_vars
        => [Link!Next]_(Link!vars)
  BY LinkStep
<1> QED BY <1>1, <1>2, <1>3, FaithfulInvariant, PTL DEF Spec, CarriesFrames, Link!Spec

\* So does a gentle line, which loses the frames it has changed too.
THEOREM CarriesFramesGentle == Spec /\ [][Gentle]_vars => CarriesFrames
<1>1. Init => Link!Init
  BY LinkInit
<1>2. DecoderInv /\ GentleInv => OnlySent
  BY FaithfulSent
<1>3. DecoderInv /\ DecoderInv' /\ OnlySent /\ OnlySent' /\ [Next]_vars
        => [Link!Next]_(Link!vars)
  BY LinkStep
<1> QED BY <1>1, <1>2, <1>3, GentleInvariant, PTL DEF Spec, CarriesFrames, Link!Spec
=============================================================================
