----------------------------- MODULE AesProofs -----------------------------
(***************************************************************************)
(* Proof that decryption undoes encryption, for every key and every block. *)
(* The arithmetic is reasoned about by the bits of bytes: adding is        *)
(* exclusive or, bit by bit, and xtime is linear, which makes MixColumns   *)
(* and InvMixColumns a matter of counting what appears an even number of   *)
(* times.  Of the S-boxes nothing is used but that one inverts the other.  *)
(***************************************************************************)
EXTENDS Aes, TLAPS

Places == {1, 2, 4, 8, 16, 32, 64, 128}
Bit(x, p) == (x \div p) % 2 = 1

(* Adding is exclusive or. *)
LEMMA NibbleBits ==
  ASSUME NEW a \in 0 .. 15, NEW b \in 0 .. 15
  PROVE  /\ XorOfNibbles[a][b] \in 0 .. 15
         /\ \A p \in {1, 2, 4, 8} : Bit(XorOfNibbles[a][b], p) <=> ~(Bit(a, p) <=> Bit(b, p))
<1> DEFINE d(p) == IF (a \div p) % 2 = (b \div p) % 2 THEN 0 ELSE p
<1>1. XorOfNibbles[a][b] = d(1) + d(2) + d(4) + d(8)
  BY DEF XorOfNibbles
<1>2. \A p \in {1, 2, 4, 8} : d(p) = IF Bit(a, p) <=> Bit(b, p) THEN 0 ELSE p
  <2>1. \A p \in {1, 2, 4, 8} : (a \div p) % 2 \in 0 .. 1 /\ (b \div p) % 2 \in 0 .. 1
    OBVIOUS
  <2> QED
    BY <2>1 DEF Bit
<1>3. d(1) \in {0, 1} /\ d(2) \in {0, 2} /\ d(4) \in {0, 4} /\ d(8) \in {0, 8}
  OBVIOUS
<1> HIDE DEF d
<1> DEFINE x == d(1) + d(2) + d(4) + d(8)
<1>4. x \in 0 .. 15
  BY <1>3
<1>5. \A p \in {1, 2, 4, 8} : Bit(x, p) <=> d(p) = p
  BY <1>3 DEF Bit
<1> QED
  BY <1>1, <1>2, <1>4, <1>5

(* A byte is known by its bits. *)
LEMMA SameBits ==
  ASSUME NEW x \in Bytes, NEW y \in Bytes, \A p \in Places : Bit(x, p) <=> Bit(y, p)
  PROVE  x = y
<1> DEFINE b(z, p) == (z \div p) % 2
<1>1. ASSUME NEW z \in Bytes
      PROVE  /\ \A p \in Places : b(z, p) \in 0 .. 1
             /\ z = b(z, 1) + 2 * b(z, 2) + 4 * b(z, 4) + 8 * b(z, 8) + 16 * b(z, 16)
                       + 32 * b(z, 32) + 64 * b(z, 64) + 128 * b(z, 128)
  BY DEF Places, Bytes
<1>2. \A p \in Places : Bit(x, p) <=> b(x, p) = 1
  BY DEF Bit
<1>3. \A p \in Places : Bit(y, p) <=> b(y, p) = 1
  BY DEF Bit
<1> HIDE DEF b
<1>4. \A p \in Places : b(x, p) = b(y, p)
  BY <1>1, <1>2, <1>3
<1> QED
  BY <1>1, <1>4 DEF Places

LEMMA XorBits ==
  ASSUME NEW x \in Bytes, NEW y \in Bytes
  PROVE  /\ x (+) y \in Bytes
         /\ \A p \in Places : Bit(x (+) y, p) <=> ~(Bit(x, p) <=> Bit(y, p))
<1> DEFINE xh == x \div 16
           yh == y \div 16
           xl == x % 16
           yl == y % 16
           h == XorOfNibbles[xh][yh]
           l == XorOfNibbles[xl][yl]
<1>1. xh \in 0 .. 15 /\ yh \in 0 .. 15 /\ xl \in 0 .. 15 /\ yl \in 0 .. 15
  BY DEF Bytes
<1>2. /\ h \in 0 .. 15 /\ l \in 0 .. 15
      /\ \A p \in {1, 2, 4, 8} : Bit(h, p) <=> ~(Bit(xh, p) <=> Bit(yh, p))
      /\ \A p \in {1, 2, 4, 8} : Bit(l, p) <=> ~(Bit(xl, p) <=> Bit(yl, p))
  <2> HIDE DEF xh, yh, xl, yl
  <2> QED
    BY <1>1, NibbleBits
<1>3. x (+) y = 16 * h + l
  BY DEF (+)
<1> HIDE DEF h, l, xh, yh, xl, yl
<1>4. ASSUME NEW n \in 0 .. 15, NEW m \in 0 .. 15, NEW p \in {1, 2, 4, 8}
      PROVE  (Bit(16 * n + m, p) <=> Bit(m, p)) /\ (Bit(16 * n + m, 16 * p) <=> Bit(n, p))
  BY DEF Bit
<1>5. x = 16 * xh + xl /\ y = 16 * yh + yl
  BY DEF Bytes, xh, xl, yh, yl
<1>6. \A p \in {1, 2, 4, 8} :
        /\ Bit(x, p) <=> Bit(xl, p)
        /\ Bit(x, 16 * p) <=> Bit(xh, p)
        /\ Bit(y, p) <=> Bit(yl, p)
        /\ Bit(y, 16 * p) <=> Bit(yh, p)
        /\ Bit(16 * h + l, p) <=> Bit(l, p)
        /\ Bit(16 * h + l, 16 * p) <=> Bit(h, p)
  BY <1>1, <1>2, <1>4, <1>5
<1>7. Places = {1, 2, 4, 8} \cup {16 * p : p \in {1, 2, 4, 8}}
  BY DEF Places
<1> QED
  BY <1>2, <1>3, <1>6, <1>7 DEF Bytes

(* xtime moves the bits up, and adds 1b when the highest falls out. *)
LEMMA XtimeBits ==
  ASSUME NEW x \in Bytes
  PROVE  /\ xtime(x) \in Bytes
         /\ Bit(xtime(x), 1) <=> Bit(x, 128)
         /\ Bit(xtime(x), 2) <=> ~(Bit(x, 1) <=> Bit(x, 128))
         /\ Bit(xtime(x), 4) <=> Bit(x, 2)
         /\ Bit(xtime(x), 8) <=> ~(Bit(x, 4) <=> Bit(x, 128))
         /\ Bit(xtime(x), 16) <=> ~(Bit(x, 8) <=> Bit(x, 128))
         /\ Bit(xtime(x), 32) <=> Bit(x, 16)
         /\ Bit(xtime(x), 64) <=> Bit(x, 32)
         /\ Bit(xtime(x), 128) <=> Bit(x, 64)
<1> DEFINE shifted == (2 * x) % 256
           reduction == IF x < 128 THEN 0 ELSE \h1b
<1>1. shifted \in Bytes /\ reduction \in Bytes
  BY DEF Bytes
<1>2. xtime(x) = shifted (+) reduction
  BY DEF xtime
<1>3. /\ ~Bit(shifted, 1)
      /\ Bit(shifted, 2) <=> Bit(x, 1)
      /\ Bit(shifted, 4) <=> Bit(x, 2)
      /\ Bit(shifted, 8) <=> Bit(x, 4)
      /\ Bit(shifted, 16) <=> Bit(x, 8)
      /\ Bit(shifted, 32) <=> Bit(x, 16)
      /\ Bit(shifted, 64) <=> Bit(x, 32)
      /\ Bit(shifted, 128) <=> Bit(x, 64)
  BY DEF Bit, Bytes
<1>4. reduction = IF Bit(x, 128) THEN 27 ELSE 0
  BY DEF Bit, Bytes
<1>5. /\ \A p \in {1, 2, 8, 16} : Bit(27, p) /\ ~Bit(0, p)
      /\ \A p \in {4, 32, 64, 128} : ~Bit(27, p) /\ ~Bit(0, p)
  BY DEF Bit
<1>6. /\ \A p \in {1, 2, 8, 16} : Bit(reduction, p) <=> Bit(x, 128)
      /\ \A p \in {4, 32, 64, 128} : ~Bit(reduction, p)
  BY <1>4, <1>5
<1> HIDE DEF shifted, reduction
<1> QED
  BY <1>1, <1>2, <1>3, <1>6, XorBits DEF Places

LEMMA XtimeLinear ==
  ASSUME NEW x \in Bytes, NEW y \in Bytes
  PROVE  xtime(x (+) y) = xtime(x) (+) xtime(y)
<1>1. x (+) y \in Bytes /\ xtime(x) \in Bytes /\ xtime(y) \in Bytes /\ xtime(x (+) y) \in Bytes
  BY XorBits, XtimeBits
<1>2. xtime(x) (+) xtime(y) \in Bytes
  BY <1>1, XorBits
<1>3. \A p \in Places : Bit(x (+) y, p) <=> ~(Bit(x, p) <=> Bit(y, p))
  BY XorBits
<1>4. \A p \in Places :
        Bit(xtime(x) (+) xtime(y), p) <=> ~(Bit(xtime(x), p) <=> Bit(xtime(y), p))
  BY <1>1, XorBits
<1>5. \A p \in Places : Bit(xtime(x (+) y), p) <=> Bit(xtime(x) (+) xtime(y), p)
  BY <1>1, <1>3, <1>4, XtimeBits DEF Places
<1> QED
  BY <1>1, <1>2, <1>5, SameBits

LEMMA XorCancels ==
  ASSUME NEW x \in Bytes, NEW y \in Bytes
  PROVE  (x (+) y) (+) y = x
<1>1. x (+) y \in Bytes
  BY XorBits
<1>2. (x (+) y) (+) y \in Bytes
  BY <1>1, XorBits
<1>3. \A p \in Places : Bit((x (+) y) (+) y, p) <=> Bit(x, p)
  BY <1>1, XorBits
<1> QED
  BY <1>2, <1>3, SameBits

(* The tables, byte by byte. *)
LEMMA SBoxes ==
  \A x \in Bytes : getSBoxValue(x) \in Bytes /\ getSBoxInvert(getSBoxValue(x)) = x
<1>1. \A x \in Bytes : getSBoxValue(x) \in Bytes
  BY DEF getSBoxValue, sbox, Bytes
<1>2. \A x \in Bytes : getSBoxInvert(getSBoxValue(x)) = x
  BY DEF getSBoxInvert, getSBoxValue, sbox, rsbox, Bytes
<1> QED
  BY <1>1, <1>2

-----------------------------------------------------------------------------
(* What each transformation has to do with its inverse. *)

States == [Cells -> Bytes]

LEMMA ShiftRowsUndone ==
  ASSUME NEW s \in States
  PROVE  ShiftRows(s) \in States /\ InvShiftRows(ShiftRows(s)) = s
<1>1. \A n \in Cells :
        /\ Cell(Column(n) + Row(n), Row(n)) \in Cells
        /\ Cell(Column(n) - Row(n) + 4, Row(n)) \in Cells
        /\ LET m == Cell(Column(n) - Row(n) + 4, Row(n))
           IN  Cell(Column(m) + Row(m), Row(m)) = n
  BY DEF Cells, Cell, Column, Row
<1>2. ShiftRows(s) \in States
  BY <1>1 DEF ShiftRows, States
<1>3. \A n \in Cells : InvShiftRows(ShiftRows(s))[n] = s[n]
  BY <1>1 DEF InvShiftRows, ShiftRows
<1>4. DOMAIN InvShiftRows(ShiftRows(s)) = Cells
  BY DEF InvShiftRows
<1> DEFINE u == InvShiftRows(ShiftRows(s))
<1>5. u = [n \in Cells |-> u[n]] /\ s = [n \in Cells |-> s[n]]
  BY DEF InvShiftRows, States
<1> HIDE DEF u, Cells
<1> QED
  BY <1>2, <1>3, <1>5 DEF u

LEMMA SubBytesUndone ==
  ASSUME NEW s \in States
  PROVE  SubBytes(s) \in States /\ InvSubBytes(SubBytes(s)) = s
<1>1. \A n \in Cells : s[n] \in Bytes
  BY DEF States
<1>2. SubBytes(s) \in States
  BY <1>1, SBoxes DEF SubBytes, States
<1>3. \A n \in Cells : InvSubBytes(SubBytes(s))[n] = s[n]
  BY <1>1, SBoxes DEF SubBytes, InvSubBytes
<1> QED
  BY <1>2, <1>3 DEF States, InvSubBytes

LEMMA AddRoundKeyUndone ==
  ASSUME NEW s \in States, NEW r \in 0 .. Nr, RoundKey \in Seq(Bytes), Len(RoundKey) >= 176
  PROVE  AddRoundKey(r, s) \in States /\ AddRoundKey(r, AddRoundKey(r, s)) = s
<1>1. ASSUME NEW n \in Cells PROVE s[n] \in Bytes /\ RoundKey[r * Nb * 4 + n] \in Bytes
  <2>1. r * Nb * 4 + n \in 1 .. 176
    BY DEF Cells, Nb, Nr
  <2>2. \A i \in 1 .. 176 : RoundKey[i] \in Bytes
    OBVIOUS
  <2> QED
    BY <2>1, <2>2 DEF States
<1>2. AddRoundKey(r, s) \in States
  BY <1>1, XorBits DEF AddRoundKey, States
<1>3. \A n \in Cells : AddRoundKey(r, AddRoundKey(r, s))[n] = s[n]
  BY <1>1, XorCancels DEF AddRoundKey
<1> QED
  BY <1>2, <1>3 DEF States, AddRoundKey

-----------------------------------------------------------------------------
(* MixColumns.  A byte of the product is a sum of bytes of the column,     *)
(* multiplied by powers of two.                                            *)

Odd(x, y) == ~(x <=> y)

X1(x) == xtime(x)
X2(x) == xtime(X1(x))
X3(x) == xtime(X2(x))
X4(x) == xtime(X3(x))

LEMMA PowersFacts ==
  ASSUME NEW x \in Bytes
  PROVE  X1(x) \in Bytes /\ X2(x) \in Bytes /\ X3(x) \in Bytes /\ X4(x) \in Bytes
<1>1. X1(x) \in Bytes
  BY XtimeBits DEF X1
<1>2. X2(x) \in Bytes
  BY <1>1, XtimeBits DEF X2
<1>3. X3(x) \in Bytes
  BY <1>2, XtimeBits DEF X3
<1>4. X4(x) \in Bytes
  BY <1>3, XtimeBits DEF X4
<1> QED
  BY <1>1, <1>2, <1>3, <1>4

LEMMA PowersLinear ==
  ASSUME NEW x \in Bytes, NEW y \in Bytes
  PROVE  /\ X1(x (+) y) = X1(x) (+) X1(y)
         /\ X2(x (+) y) = X2(x) (+) X2(y)
         /\ X3(x (+) y) = X3(x) (+) X3(y)
         /\ X4(x (+) y) = X4(x) (+) X4(y)
<1>1. X1(x (+) y) = X1(x) (+) X1(y)
  BY XtimeLinear DEF X1
<1>2. X2(x (+) y) = X2(x) (+) X2(y)
  BY <1>1, XtimeLinear, PowersFacts DEF X2
<1>3. X3(x (+) y) = X3(x) (+) X3(y)
  BY <1>2, XtimeLinear, PowersFacts DEF X3
<1>4. X4(x (+) y) = X4(x) (+) X4(y)
  BY <1>3, XtimeLinear, PowersFacts DEF X4
<1> QED
  BY <1>1, <1>2, <1>3, <1>4

LEMMA PowersBits ==
  ASSUME NEW x \in Bytes, NEW y \in Bytes, NEW p \in Places
  PROVE  /\ Bit(X1(x (+) y), p) <=> Odd(Bit(X1(x), p), Bit(X1(y), p))
         /\ Bit(X2(x (+) y), p) <=> Odd(Bit(X2(x), p), Bit(X2(y), p))
         /\ Bit(X3(x (+) y), p) <=> Odd(Bit(X3(x), p), Bit(X3(y), p))
         /\ Bit(X4(x (+) y), p) <=> Odd(Bit(X4(x), p), Bit(X4(y), p))
<1>1. ASSUME NEW u \in Bytes, NEW v \in Bytes
      PROVE  Bit(u (+) v, p) <=> Odd(Bit(u, p), Bit(v, p))
  BY XorBits DEF Odd
<1>2. /\ X1(x) \in Bytes /\ X2(x) \in Bytes /\ X3(x) \in Bytes /\ X4(x) \in Bytes
      /\ X1(y) \in Bytes /\ X2(y) \in Bytes /\ X3(y) \in Bytes /\ X4(y) \in Bytes
  BY PowersFacts
<1>3. Bit(X1(x (+) y), p) <=> Odd(Bit(X1(x), p), Bit(X1(y), p))
  BY <1>1, <1>2, PowersLinear
<1>4. Bit(X2(x (+) y), p) <=> Odd(Bit(X2(x), p), Bit(X2(y), p))
  BY <1>1, <1>2, PowersLinear
<1>5. Bit(X3(x (+) y), p) <=> Odd(Bit(X3(x), p), Bit(X3(y), p))
  BY <1>1, <1>2, PowersLinear
<1>6. Bit(X4(x (+) y), p) <=> Odd(Bit(X4(x), p), Bit(X4(y), p))
  BY <1>1, <1>2, PowersLinear
<1> QED
  BY <1>3, <1>4, <1>5, <1>6

LEMMA MultiplyBits ==
  ASSUME NEW x \in Bytes, NEW p \in Places
  PROVE  /\ \A y \in {\h0e, \h0b, \h0d, \h09} : Multiply(x, y) \in Bytes
         /\ Bit(Multiply(x, \h0e), p) <=> Odd(Odd(Bit(X1(x), p), Bit(X2(x), p)), Bit(X3(x), p))
         /\ Bit(Multiply(x, \h0b), p) <=> Odd(Odd(Bit(x, p), Bit(X1(x), p)), Bit(X3(x), p))
         /\ Bit(Multiply(x, \h0d), p) <=> Odd(Odd(Bit(x, p), Bit(X2(x), p)), Bit(X3(x), p))
         /\ Bit(Multiply(x, \h09), p) <=> Odd(Bit(x, p), Bit(X3(x), p))
<1>1. 0 \in Bytes /\ ~Bit(0, p)
  BY DEF Bytes, Bit, Places
<1>2. /\ Multiply(x, \h0e) = 0 (+) X1(x) (+) X2(x) (+) X3(x) (+) 0
      /\ Multiply(x, \h0b) = x (+) X1(x) (+) 0 (+) X3(x) (+) 0
      /\ Multiply(x, \h0d) = x (+) 0 (+) X2(x) (+) X3(x) (+) 0
      /\ Multiply(x, \h09) = x (+) 0 (+) 0 (+) X3(x) (+) 0
  BY DEF Multiply, X1, X2, X3
<1>3. ASSUME NEW a \in Bytes, NEW b \in Bytes, NEW c \in Bytes, NEW d \in Bytes
      PROVE  /\ a (+) b (+) c (+) d (+) 0 \in Bytes
             /\ Bit(a (+) b (+) c (+) d (+) 0, p)
                  <=> Odd(Odd(Odd(Bit(a, p), Bit(b, p)), Bit(c, p)), Bit(d, p))
  <2>1. a (+) b \in Bytes /\ (Bit(a (+) b, p) <=> Odd(Bit(a, p), Bit(b, p)))
    BY XorBits DEF Odd
  <2>2. /\ a (+) b (+) c \in Bytes
        /\ Bit(a (+) b (+) c, p) <=> Odd(Odd(Bit(a, p), Bit(b, p)), Bit(c, p))
    BY <2>1, XorBits DEF Odd
  <2>3. /\ a (+) b (+) c (+) d \in Bytes
        /\ Bit(a (+) b (+) c (+) d, p) <=> Odd(Odd(Odd(Bit(a, p), Bit(b, p)), Bit(c, p)), Bit(d, p))
    BY <2>2, XorBits DEF Odd
  <2> QED
    BY <1>1, <2>3, XorBits DEF Odd
<1>4. X1(x) \in Bytes /\ X2(x) \in Bytes /\ X3(x) \in Bytes
  BY PowersFacts
<1> QED
  BY <1>1, <1>2, <1>3, <1>4 DEF Odd

(* A cell after MixColumns: its neighbour below, and the whole column. *)
Mixed(x, next, sum) == x (+) xtime(x (+) next) (+) sum

LEMMA MixedBits ==
  ASSUME NEW x \in Bytes, NEW next \in Bytes, NEW sum \in Bytes, NEW p \in Places
  PROVE  LET t == Mixed(x, next, sum)
         IN  /\ t \in Bytes
             /\ Bit(t, p) <=> Odd(Odd(Bit(x, p), Odd(Bit(X1(x), p), Bit(X1(next), p))), Bit(sum, p))
             /\ Bit(X1(t), p) <=> Odd(Odd(Bit(X1(x), p), Odd(Bit(X2(x), p), Bit(X2(next), p))), Bit(X1(sum), p))
             /\ Bit(X2(t), p) <=> Odd(Odd(Bit(X2(x), p), Odd(Bit(X3(x), p), Bit(X3(next), p))), Bit(X2(sum), p))
             /\ Bit(X3(t), p) <=> Odd(Odd(Bit(X3(x), p), Odd(Bit(X4(x), p), Bit(X4(next), p))), Bit(X3(sum), p))
<1> DEFINE both == x (+) next
           step == x (+) X1(both)
<1>1. both \in Bytes /\ X1(both) \in Bytes
  BY XorBits, PowersFacts
<1>2. step \in Bytes
  BY <1>1, XorBits
<1>3. Mixed(x, next, sum) = step (+) sum
  BY DEF Mixed, X1
<1>4. /\ Bit(X1(both), p) <=> Odd(Bit(X1(x), p), Bit(X1(next), p))
      /\ Bit(X1(X1(both)), p) <=> Odd(Bit(X2(x), p), Bit(X2(next), p))
      /\ Bit(X2(X1(both)), p) <=> Odd(Bit(X3(x), p), Bit(X3(next), p))
      /\ Bit(X3(X1(both)), p) <=> Odd(Bit(X4(x), p), Bit(X4(next), p))
  <2>1. X1(X1(both)) = X2(both) /\ X2(X1(both)) = X3(both) /\ X3(X1(both)) = X4(both)
    BY DEF X1, X2, X3, X4
  <2> QED
    BY <2>1, PowersBits
<1> HIDE DEF both
<1>5. /\ Bit(step, p) <=> Odd(Bit(x, p), Bit(X1(both), p))
      /\ Bit(X1(step), p) <=> Odd(Bit(X1(x), p), Bit(X1(X1(both)), p))
      /\ Bit(X2(step), p) <=> Odd(Bit(X2(x), p), Bit(X2(X1(both)), p))
      /\ Bit(X3(step), p) <=> Odd(Bit(X3(x), p), Bit(X3(X1(both)), p))
  BY <1>1, PowersBits, XorBits DEF Odd
<1> HIDE DEF step
<1>6. /\ step (+) sum \in Bytes
      /\ Bit(step (+) sum, p) <=> Odd(Bit(step, p), Bit(sum, p))
      /\ Bit(X1(step (+) sum), p) <=> Odd(Bit(X1(step), p), Bit(X1(sum), p))
      /\ Bit(X2(step (+) sum), p) <=> Odd(Bit(X2(step), p), Bit(X2(sum), p))
      /\ Bit(X3(step (+) sum), p) <=> Odd(Bit(X3(step), p), Bit(X3(sum), p))
  BY <1>2, PowersBits, XorBits DEF Odd
<1> QED
  BY <1>3, <1>4, <1>5, <1>6 DEF Odd

Sum(a, b, c, d) == a (+) b (+) c (+) d

LEMMA SumBits ==
  ASSUME NEW a \in Bytes, NEW b \in Bytes, NEW c \in Bytes, NEW d \in Bytes, NEW p \in Places
  PROVE  /\ Sum(a, b, c, d) \in Bytes
         /\ Bit(Sum(a, b, c, d), p)
              <=> Odd(Odd(Odd(Bit(a, p), Bit(b, p)), Bit(c, p)), Bit(d, p))
         /\ Bit(X1(Sum(a, b, c, d)), p)
              <=> Odd(Odd(Odd(Bit(X1(a), p), Bit(X1(b), p)), Bit(X1(c), p)), Bit(X1(d), p))
         /\ Bit(X2(Sum(a, b, c, d)), p)
              <=> Odd(Odd(Odd(Bit(X2(a), p), Bit(X2(b), p)), Bit(X2(c), p)), Bit(X2(d), p))
         /\ Bit(X3(Sum(a, b, c, d)), p)
              <=> Odd(Odd(Odd(Bit(X3(a), p), Bit(X3(b), p)), Bit(X3(c), p)), Bit(X3(d), p))
<1>1. a (+) b \in Bytes
  BY XorBits
<1>2. a (+) b (+) c \in Bytes
  BY <1>1, XorBits
<1>3. a (+) b (+) c (+) d \in Bytes
  BY <1>2, XorBits
<1>4. ASSUME NEW x \in Bytes, NEW y \in Bytes
      PROVE  /\ Bit(x (+) y, p) <=> Odd(Bit(x, p), Bit(y, p))
             /\ Bit(X1(x (+) y), p) <=> Odd(Bit(X1(x), p), Bit(X1(y), p))
             /\ Bit(X2(x (+) y), p) <=> Odd(Bit(X2(x), p), Bit(X2(y), p))
             /\ Bit(X3(x (+) y), p) <=> Odd(Bit(X3(x), p), Bit(X3(y), p))
  BY PowersBits, XorBits DEF Odd
<1> QED
  BY <1>1, <1>2, <1>3, <1>4 DEF Odd, Sum

(* A column of MixColumns, multiplied by its inverse. *)
LEMMA ColumnUndone ==
  ASSUME NEW a \in Bytes, NEW b \in Bytes, NEW c \in Bytes, NEW d \in Bytes
  PROVE  LET sum == Sum(a, b, c, d)
         IN  Multiply(Mixed(a, b, sum), \h0e) (+) Multiply(Mixed(b, c, sum), \h0b)
               (+) Multiply(Mixed(c, d, sum), \h0d) (+) Multiply(Mixed(d, a, sum), \h09) = a
<1> DEFINE sum == Sum(a, b, c, d)
           ma == Mixed(a, b, sum)
           mb == Mixed(b, c, sum)
           mc == Mixed(c, d, sum)
           md == Mixed(d, a, sum)
           ra == Multiply(ma, \h0e)
           rb == Multiply(mb, \h0b)
           rc == Multiply(mc, \h0d)
           rd == Multiply(md, \h09)
<1>0. 1 \in Places
  BY DEF Places
<1>1. sum \in Bytes
  BY <1>0, SumBits
<1>2. ma \in Bytes /\ mb \in Bytes /\ mc \in Bytes /\ md \in Bytes
  <2> HIDE DEF sum
  <2> QED
    BY <1>0, <1>1, MixedBits
<1>3. ra \in Bytes /\ rb \in Bytes /\ rc \in Bytes /\ rd \in Bytes
  <2> HIDE DEF ma, mb, mc, md
  <2> QED
    BY <1>0, <1>2, MultiplyBits
<1>4. Sum(ra, rb, rc, rd) \in Bytes
  <2> HIDE DEF ra, rb, rc, rd
  <2> QED
    BY <1>0, <1>3, SumBits
<1>5. ASSUME NEW p \in Places PROVE Bit(Sum(ra, rb, rc, rd), p) <=> Bit(a, p)
  <2>1. Bit(Sum(ra, rb, rc, rd), p)
          <=> Odd(Odd(Odd(Bit(ra, p), Bit(rb, p)), Bit(rc, p)), Bit(rd, p))
    <3> HIDE DEF ra, rb, rc, rd
    <3> QED
      BY <1>3, SumBits
  <2>2. /\ Bit(ra, p) <=> Odd(Odd(Bit(X1(ma), p), Bit(X2(ma), p)), Bit(X3(ma), p))
        /\ Bit(rb, p) <=> Odd(Odd(Bit(mb, p), Bit(X1(mb), p)), Bit(X3(mb), p))
        /\ Bit(rc, p) <=> Odd(Odd(Bit(mc, p), Bit(X2(mc), p)), Bit(X3(mc), p))
        /\ Bit(rd, p) <=> Odd(Bit(md, p), Bit(X3(md), p))
    <3> HIDE DEF ma, mb, mc, md
    <3> QED
      BY <1>2, MultiplyBits
  <2> HIDE DEF ra, rb, rc, rd
  <2> DEFINE Mixes(t, x, next) ==
        /\ Bit(t, p) <=> Odd(Odd(Bit(x, p), Odd(Bit(X1(x), p), Bit(X1(next), p))), Bit(sum, p))
        /\ Bit(X1(t), p) <=> Odd(Odd(Bit(X1(x), p), Odd(Bit(X2(x), p), Bit(X2(next), p))), Bit(X1(sum), p))
        /\ Bit(X2(t), p) <=> Odd(Odd(Bit(X2(x), p), Odd(Bit(X3(x), p), Bit(X3(next), p))), Bit(X2(sum), p))
        /\ Bit(X3(t), p) <=> Odd(Odd(Bit(X3(x), p), Odd(Bit(X4(x), p), Bit(X4(next), p))), Bit(X3(sum), p))
  <2>3. Mixes(ma, a, b) /\ Mixes(mb, b, c) /\ Mixes(mc, c, d) /\ Mixes(md, d, a)
    <3> HIDE DEF sum
    <3> QED
      BY <1>1, MixedBits
  <2> HIDE DEF ma, mb, mc, md
  <2>4. /\ Bit(sum, p) <=> Odd(Odd(Odd(Bit(a, p), Bit(b, p)), Bit(c, p)), Bit(d, p))
        /\ Bit(X1(sum), p) <=> Odd(Odd(Odd(Bit(X1(a), p), Bit(X1(b), p)), Bit(X1(c), p)), Bit(X1(d), p))
        /\ Bit(X2(sum), p) <=> Odd(Odd(Odd(Bit(X2(a), p), Bit(X2(b), p)), Bit(X2(c), p)), Bit(X2(d), p))
        /\ Bit(X3(sum), p) <=> Odd(Odd(Odd(Bit(X3(a), p), Bit(X3(b), p)), Bit(X3(c), p)), Bit(X3(d), p))
    BY SumBits
  <2> HIDE DEF sum
  <2> QED
    BY <2>1, <2>2, <2>3, <2>4 DEF Odd
<1> HIDE DEF ra, rb, rc, rd
<1>6. Sum(ra, rb, rc, rd) = a
  BY <1>4, <1>5, SameBits
<1> QED
  BY <1>6 DEF Sum, ra, rb, rc, rd

LEMMA SumRotates ==
  ASSUME NEW a \in Bytes, NEW b \in Bytes, NEW c \in Bytes, NEW d \in Bytes
  PROVE  Sum(a, b, c, d) = Sum(b, c, d, a)
<1>1. 1 \in Places
  BY DEF Places
<1>2. Sum(a, b, c, d) \in Bytes /\ Sum(b, c, d, a) \in Bytes
  BY <1>1, SumBits
<1>3. ASSUME NEW p \in Places
      PROVE  Bit(Sum(a, b, c, d), p) <=> Bit(Sum(b, c, d, a), p)
  BY SumBits DEF Odd
<1> QED
  BY <1>2, <1>3, SameBits

LEMMA MixColumnsUndone ==
  ASSUME NEW s \in States
  PROVE  MixColumns(s) \in States /\ InvMixColumns(MixColumns(s)) = s
<1> DEFINE m == MixColumns(s)
           At(n, row) == s[Cell(Column(n), row)]
           sum(n) == Sum(At(n, 0), At(n, 1), At(n, 2), At(n, 3))
           behind(n, k) == Cell(Column(n), Row(n) + k)
<1>1. \A n \in Cells : \A k \in 0 .. 3 :
        /\ Cell(Column(n), k) \in Cells
        /\ behind(n, k) \in Cells
        /\ Column(behind(n, k)) = Column(n)
  BY DEF Cells, Cell, Column, Row
<1>2. \A n \in Cells :
        /\ behind(n, 0) = n
        /\ behind(behind(n, 1), 1) = behind(n, 2)
        /\ behind(behind(n, 2), 1) = behind(n, 3)
        /\ behind(behind(n, 3), 1) = n
        /\ Row(n) \in 0 .. 3
  BY DEF Cells, Cell, Column, Row
<1>3. \A n \in Cells : \A k, row \in 0 .. 3 :
        Row(n) = row => behind(n, k) = Cell(Column(n), (row + k) % 4)
  BY DEF Cells, Cell, Column, Row
<1>4. \A n \in Cells : m[n] = Mixed(s[n], s[behind(n, 1)], sum(n))
  BY DEF MixColumns, MixedCell, Mixed, Sum
<1>5. \A n \in Cells : \A k \in 0 .. 3 : sum(behind(n, k)) = sum(n)
  BY <1>1
<1>6. \A n \in Cells : \A k \in 0 .. 3 : At(n, k) \in Bytes /\ s[behind(n, k)] \in Bytes
  BY <1>1 DEF States
<1> HIDE DEF behind
<1>7. ASSUME NEW n \in Cells
      PROVE  sum(n) = Sum(s[n], s[behind(n, 1)], s[behind(n, 2)], s[behind(n, 3)])
  <2> DEFINE a == At(n, 0)
             b == At(n, 1)
             c == At(n, 2)
             d == At(n, 3)
  <2>1. a \in Bytes /\ b \in Bytes /\ c \in Bytes /\ d \in Bytes
    BY <1>6
  <2>2. /\ Sum(a, b, c, d) = Sum(b, c, d, a)
        /\ Sum(b, c, d, a) = Sum(c, d, a, b)
        /\ Sum(c, d, a, b) = Sum(d, a, b, c)
    <3> HIDE DEF a, b, c, d
    <3> QED
      BY <2>1, SumRotates
  <2>3. Row(n) = 0 \/ Row(n) = 1 \/ Row(n) = 2 \/ Row(n) = 3
    BY <1>2
  <2>4. CASE Row(n) = 0
    <3>1. s[n] = At(n, 0) /\ \A k \in 1 .. 3 : s[behind(n, k)] = At(n, (0 + k) % 4)
      BY <1>2, <1>3, <2>4
    <3> QED
      BY <2>2, <3>1
  <2>5. CASE Row(n) = 1
    <3>1. s[n] = At(n, 1) /\ \A k \in 1 .. 3 : s[behind(n, k)] = At(n, (1 + k) % 4)
      BY <1>2, <1>3, <2>5
    <3> QED
      BY <2>2, <3>1
  <2>6. CASE Row(n) = 2
    <3>1. s[n] = At(n, 2) /\ \A k \in 1 .. 3 : s[behind(n, k)] = At(n, (2 + k) % 4)
      BY <1>2, <1>3, <2>6
    <3> QED
      BY <2>2, <3>1
  <2>7. CASE Row(n) = 3
    <3>1. s[n] = At(n, 3) /\ \A k \in 1 .. 3 : s[behind(n, k)] = At(n, (3 + k) % 4)
      BY <1>2, <1>3, <2>7
    <3> QED
      BY <2>2, <3>1
  <2> QED
    BY <2>3, <2>4, <2>5, <2>6, <2>7
<1>8. m \in States
  <2> SUFFICES ASSUME NEW n \in Cells PROVE m[n] \in Bytes
    BY DEF MixColumns, States
  <2>1. 1 \in Places
    BY DEF Places
  <2>2. sum(n) \in Bytes
    <3>1. At(n, 0) \in Bytes /\ At(n, 1) \in Bytes /\ At(n, 2) \in Bytes /\ At(n, 3) \in Bytes
      BY <1>6
    <3> HIDE DEF At
    <3> QED
      BY <2>1, <3>1, SumBits
  <2>3. s[n] \in Bytes /\ s[behind(n, 1)] \in Bytes
    BY <1>6 DEF States
  <2> HIDE DEF sum, m
  <2> QED
    BY <1>4, <2>1, <2>2, <2>3, MixedBits
<1>9. ASSUME NEW n \in Cells PROVE InvMixColumns(m)[n] = s[n]
  <2> DEFINE a == s[n]
             b == s[behind(n, 1)]
             c == s[behind(n, 2)]
             d == s[behind(n, 3)]
  <2>1. a \in Bytes /\ b \in Bytes /\ c \in Bytes /\ d \in Bytes
    BY <1>6 DEF States
  <2>2. sum(n) = Sum(a, b, c, d)
    BY <1>7
  <2>3. InvMixColumns(m)[n] =
          Multiply(m[behind(n, 0)], \h0e) (+) Multiply(m[behind(n, 1)], \h0b)
            (+) Multiply(m[behind(n, 2)], \h0d) (+) Multiply(m[behind(n, 3)], \h09)
    <3> HIDE DEF m
    <3> QED
      BY DEF InvMixColumns, behind
  <2>4. /\ m[behind(n, 0)] = Mixed(a, b, sum(n))
        /\ m[behind(n, 1)] = Mixed(b, c, sum(n))
        /\ m[behind(n, 2)] = Mixed(c, d, sum(n))
        /\ m[behind(n, 3)] = Mixed(d, a, sum(n))
    <3>1. \A k \in 0 .. 3 : behind(n, k) \in Cells /\ sum(behind(n, k)) = sum(n)
      BY <1>1, <1>5 DEF behind
    <3> HIDE DEF m, sum
    <3> QED
      BY <1>2, <1>4, <3>1
  <2> HIDE DEF a, b, c, d, sum, m
  <2> QED
    BY <2>1, <2>2, <2>3, <2>4, ColumnUndone DEF a
<1> DEFINE u == InvMixColumns(m)
<1>10. u = [n \in Cells |-> u[n]] /\ s = [n \in Cells |-> s[n]]
  BY DEF InvMixColumns, States
<1> HIDE DEF u, m, Cells
<1> QED
  BY <1>8, <1>9, <1>10 DEF u, m

-----------------------------------------------------------------------------
(* The key schedule. *)

Expanding(n) == RoundKey \in Seq(Bytes) /\ Len(RoundKey) = 4 * n

LEMMA FunctionIsSequence ==
  ASSUME NEW S, NEW n \in Nat, NEW f \in [1 .. n -> S]
  PROVE  f \in Seq(S) /\ Len(f) = n
<1>1. Seq(S) = UNION {[1 .. k -> S] : k \in Nat}
  OBVIOUS
<1>2. f \in Seq(S)
  BY <1>1
<1>3. Len(f) \in Nat /\ DOMAIN f = 1 .. Len(f) /\ DOMAIN f = 1 .. n
  BY <1>2
<1> QED
  BY <1>2, <1>3

LEMMA Appended ==
  ASSUME NEW S, NEW p \in Seq(S), NEW n \in Nat, NEW f \in [1 .. n -> S]
  PROVE  p \o f \in Seq(S) /\ Len(p \o f) = Len(p) + n
<1>1. f \in Seq(S) /\ Len(f) = n
  BY FunctionIsSequence
<1> QED
  BY <1>1

LEMMA KeyExpansionAppends ==
  ASSUME NEW i \in 4 .. 43, Expanding(i), KeyExpansion
  PROVE  /\ RoundKey' \in Seq(Bytes) /\ Len(RoundKey') = 4 * (i + 1)
         /\ aes' = IF i = 43 THEN "ready" ELSE "expanding"
<1> DEFINE temp == IF i % Nk = 0 THEN Scrambled(Word(i - 1), i) ELSE Word(i - 1)
           next == [n \in 1 .. 4 |-> Word(i - Nk)[n] (+) temp[n]]
<1>1. ASSUME NEW w \in 0 .. i - 1, NEW n \in 1 .. 4 PROVE Word(w)[n] \in Bytes
  <2>1. 4 * w + n \in 1 .. Len(RoundKey)
    BY DEF Expanding
  <2>2. \A k \in 1 .. Len(RoundKey) : RoundKey[k] \in Bytes
    BY DEF Expanding
  <2>3. Word(w)[n] = RoundKey[4 * w + n]
    BY DEF Word
  <2> QED
    BY <2>1, <2>2, <2>3
<1>2. ASSUME NEW n \in 1 .. 4 PROVE temp[n] \in Bytes
  <2>1. CASE i % Nk = 0
    <3>1. (n % 4) + 1 \in 1 .. 4 /\ i - 1 \in 0 .. i - 1
      OBVIOUS
    <3>2. getSBoxValue(Word(i - 1)[(n % 4) + 1]) \in Bytes
      BY <1>1, <3>1, SBoxes
    <3>3. (IF n = 1 THEN Rcon[(i \div Nk) + 1] ELSE 0) \in Bytes
      <4>1. (i \div Nk) + 1 \in 1 .. 11
        BY DEF Nk
      <4>2. \A k \in 1 .. 11 : Rcon[k] \in Bytes
        BY DEF Rcon, Bytes
      <4> QED
        BY <4>1, <4>2 DEF Bytes
    <3>4. temp[n] = getSBoxValue(Word(i - 1)[(n % 4) + 1])
                      (+) (IF n = 1 THEN Rcon[(i \div Nk) + 1] ELSE 0)
      BY <2>1 DEF Scrambled
    <3> QED
      BY <3>2, <3>3, <3>4, XorBits
  <2>2. CASE i % Nk # 0
    BY <1>1, <2>2
  <2> QED
    BY <2>1, <2>2
<1>3. i - Nk \in 0 .. i - 1
  BY DEF Nk
<1> HIDE DEF temp
<1>4. ASSUME NEW n \in 1 .. 4 PROVE Word(i - Nk)[n] (+) temp[n] \in Bytes
  BY <1>1, <1>2, <1>3, XorBits
<1>5. next \in [1 .. 4 -> Bytes]
  BY <1>4
<1>7. Len(RoundKey) \div 4 = i
  BY DEF Expanding
<1>8. RoundKey' = RoundKey \o next /\ aes' = IF i = 43 THEN "ready" ELSE "expanding"
  <2> DEFINE t(j) == IF j % Nk = 0 THEN Scrambled(Word(j - 1), j) ELSE Word(j - 1)
             appended(j) == RoundKey \o [n \in 1 .. 4 |-> Word(j - Nk)[n] (+) t(j)[n]]
  <2>1. /\ RoundKey' = appended(Len(RoundKey) \div 4)
        /\ aes' = IF (Len(RoundKey) \div 4) + 1 = Nb * (Nr + 1) THEN "ready" ELSE "expanding"
    BY DEF KeyExpansion
  <2>2. appended(i) = RoundKey \o next
    BY DEF temp
  <2>3. RoundKey' = appended(i)
    <3> HIDE DEF appended
    <3> QED
      BY <1>7, <2>1
  <2>4. aes' = IF i = 43 THEN "ready" ELSE "expanding"
    <3> HIDE DEF appended
    <3> QED
      BY <1>7, <2>1 DEF Nb, Nr
  <2> HIDE DEF appended, next
  <2> QED
    BY <2>2, <2>3, <2>4
<1> HIDE DEF next
<1>9. RoundKey \in Seq(Bytes) /\ 4 \in Nat
  BY DEF Expanding
<1>10. RoundKey \o next \in Seq(Bytes) /\ Len(RoundKey \o next) = Len(RoundKey) + 4
  <2>1. \A p \in Seq(Bytes) : \A f \in [1 .. 4 -> Bytes] :
          p \o f \in Seq(Bytes) /\ Len(p \o f) = Len(p) + 4
    BY <1>9, Appended, Zenon
  <2> QED
    BY <1>5, <1>9, <2>1, Zenon
<1>11. Len(RoundKey) = 4 * i
  BY DEF Expanding
<1> QED
  BY <1>8, <1>10, <1>11

-----------------------------------------------------------------------------
(* The rounds of encryption leave a trace, and decryption goes back along  *)
(* it: trace[k] is what the state was after k rounds.                      *)

Shifted(s) == ShiftRows(SubBytes(s))

Traces == [0 .. 9 -> States]

Encrypts(trace, n) ==
  /\ trace[0] = AddRoundKey(0, input)
  /\ \A k \in 1 .. n : trace[k] = AddRoundKey(k, MixColumns(Shifted(trace[k - 1])))

AesInv ==
  /\ aes \in {"off", "expanding", "ready", "encrypting", "encrypted", "decrypting", "decrypted"}
  /\ aes = "expanding" => \E i \in 4 .. 43 : Expanding(i)
  /\ aes \notin {"off", "expanding"} => RoundKey \in Seq(Bytes) /\ Len(RoundKey) >= 176
  /\ aes # "off" => input \in States
  /\ aes \in {"expanding", "ready", "decrypted"} => state = input
  /\ aes = "encrypting" =>
       /\ round \in 1 .. 10
       /\ \E trace \in Traces : Encrypts(trace, round - 1) /\ state = trace[round - 1]
  /\ aes = "encrypted" =>
       \E trace \in Traces : Encrypts(trace, 9) /\ state = AddRoundKey(Nr, Shifted(trace[9]))
  /\ aes = "decrypting" =>
       /\ round \in 0 .. 9
       /\ \E trace \in Traces : Encrypts(trace, round) /\ state = Shifted(trace[round])

LEMMA ShiftedFacts ==
  ASSUME NEW s \in States
  PROVE  Shifted(s) \in States /\ InvSubBytes(InvShiftRows(Shifted(s))) = s
<1>1. SubBytes(s) \in States /\ InvSubBytes(SubBytes(s)) = s
  BY SubBytesUndone
<1> QED
  BY <1>1, ShiftRowsUndone DEF Shifted

LEMMA CipherKeeps ==
  ASSUME AesInv, Cipher
  PROVE  AesInv'
<1>1. /\ aes = "encrypting" /\ round \in 1 .. 10 /\ input \in States
      /\ RoundKey \in Seq(Bytes) /\ Len(RoundKey) >= 176
      /\ RoundKey' = RoundKey /\ input' = input
  BY DEF AesInv, Cipher
<1>2. PICK trace \in Traces : Encrypts(trace, round - 1) /\ state = trace[round - 1]
  BY <1>1 DEF AesInv
<1>3. CASE round = 10
  <2>1. aes' = "encrypted" /\ state' = AddRoundKey(Nr, Shifted(trace[9]))
    BY <1>1, <1>2, <1>3 DEF Cipher, Shifted, Nr
  <2>2. Encrypts(trace, 9)'
    BY <1>1, <1>2, <1>3 DEF Encrypts, AddRoundKey
  <2>3. state' = AddRoundKey(Nr, Shifted(trace[9]))'
    BY <1>1, <2>1 DEF AddRoundKey
  <2> QED
    BY <1>1, <2>1, <2>2, <2>3 DEF AesInv
<1>4. CASE round # 10
  <2> DEFINE next == AddRoundKey(round, MixColumns(Shifted(trace[round - 1])))
  <2>1. round \in 1 .. 9 /\ round - 1 \in 0 .. 8 /\ round \in 0 .. Nr
    BY <1>1, <1>4 DEF Nr
  <2>2. aes' = "encrypting" /\ round' = round + 1 /\ state' = next
    BY <1>1, <1>2, <1>4 DEF Cipher, Shifted, Nr
  <2>3. trace[round - 1] \in States
    BY <2>1 DEF Traces
  <2>4. next \in States
    BY <1>1, <2>1, <2>3, ShiftedFacts, MixColumnsUndone, AddRoundKeyUndone
  <2> HIDE DEF next
  <2>5. PICK longer \in Traces :
          longer[round] = next /\ \A k \in 0 .. round - 1 : longer[k] = trace[k]
    <3> DEFINE f == [trace EXCEPT ![round] = next]
    <3>1. f \in Traces /\ f[round] = next /\ \A k \in 0 .. round - 1 : f[k] = trace[k]
      BY <2>1, <2>4 DEF Traces
    <3> QED
      BY <3>1
  <2>6. longer[0] = AddRoundKey(0, input)
    BY <1>2, <2>1, <2>5 DEF Encrypts
  <2>7. ASSUME NEW k \in 1 .. round
        PROVE  longer[k] = AddRoundKey(k, MixColumns(Shifted(longer[k - 1])))
    <3>1. longer[k - 1] = trace[k - 1]
      BY <2>1, <2>5
    <3>2. CASE k = round
      BY <2>5, <3>1, <3>2 DEF next
    <3>3. CASE k # round
      <4>1. k \in 1 .. round - 1 /\ k \in 0 .. round - 1
        BY <2>1, <3>3
      <4> QED
        BY <1>2, <2>5, <3>1, <4>1 DEF Encrypts
    <3> QED
      BY <3>2, <3>3
  <2>8. Encrypts(longer, round)
    BY <2>6, <2>7 DEF Encrypts
  <2>9. (Encrypts(longer, round - 1) /\ state = longer[round - 1])'
    <3>1. round' - 1 = round /\ state' = longer[round]
      BY <2>1, <2>2, <2>5
    <3> QED
      BY <1>1, <2>8, <3>1 DEF Encrypts, AddRoundKey
  <2> QED
    BY <1>1, <2>1, <2>2, <2>5, <2>9 DEF AesInv
<1> QED
  BY <1>3, <1>4

LEMMA InvCipherKeeps ==
  ASSUME AesInv, InvCipher
  PROVE  AesInv'
<1>1. /\ aes = "decrypting" /\ round \in 0 .. 9 /\ round \in 0 .. Nr /\ input \in States
      /\ RoundKey \in Seq(Bytes) /\ Len(RoundKey) >= 176
      /\ RoundKey' = RoundKey /\ input' = input
  BY DEF AesInv, InvCipher, Nr
<1>2. PICK trace \in Traces : Encrypts(trace, round) /\ state = Shifted(trace[round])
  BY <1>1 DEF AesInv
<1> DEFINE keyed == AddRoundKey(round, InvSubBytes(InvShiftRows(state)))
<1>3. trace[round] \in States
  BY <1>1 DEF Traces
<1>4. keyed = AddRoundKey(round, trace[round])
  BY <1>2, <1>3, ShiftedFacts
<1>5. CASE round = 0
  <2>1. keyed = input
    BY <1>1, <1>2, <1>4, <1>5, AddRoundKeyUndone DEF Encrypts
  <2>2. aes' = "decrypted" /\ state' = keyed
    BY <1>5 DEF InvCipher
  <2> QED
    BY <1>1, <2>1, <2>2 DEF AesInv
<1>6. CASE round # 0
  <2>1. round \in 1 .. 9 /\ round - 1 \in 0 .. 9
    BY <1>1, <1>6
  <2> DEFINE before == Shifted(trace[round - 1])
  <2>2. before \in States
    BY <2>1, ShiftedFacts DEF Traces
  <2>3. trace[round] = AddRoundKey(round, MixColumns(before))
    BY <1>2, <2>1 DEF Encrypts
  <2> HIDE DEF before
  <2>4. MixColumns(before) \in States /\ InvMixColumns(MixColumns(before)) = before
    BY <2>2, MixColumnsUndone
  <2>5. keyed = MixColumns(before)
    BY <1>1, <1>4, <2>3, <2>4, AddRoundKeyUndone
  <2>6. aes' = "decrypting" /\ round' = round - 1 /\ state' = InvMixColumns(keyed)
    BY <1>1, <1>6 DEF InvCipher
  <2>7. state' = before
    BY <2>4, <2>5, <2>6
  <2>8. Encrypts(trace, round - 1)
    <3>1. 1 .. round - 1 \subseteq 1 .. round
      BY <2>1
    <3> QED
      BY <1>2, <3>1 DEF Encrypts
  <2>9. (Encrypts(trace, round) /\ state = Shifted(trace[round]))'
    BY <1>1, <2>6, <2>7, <2>8 DEF Encrypts, AddRoundKey, before
  <2> QED
    BY <1>1, <2>1, <2>6, <2>9 DEF AesInv
<1> QED
  BY <1>5, <1>6

LEMMA NextAesInv ==
  ASSUME AesInv, [AesNext]_aesVars
  PROVE  AesInv'
<1>1. ASSUME NEW key \in Keys, NEW block \in Blocks, AES_init_ctx(key, block)
      PROVE  AesInv'
  <2>1. key \in [1 .. 16 -> Bytes] /\ block \in States
    BY AesAssumption DEF States, Cells
  <2>2. key \in Seq(Bytes) /\ Len(key) = 16
    BY <2>1, FunctionIsSequence
  <2>3. RoundKey' = key /\ input' = block /\ state' = block /\ aes' = "expanding"
    BY <1>1 DEF AES_init_ctx
  <2>4. Expanding(4)'
    BY <2>2, <2>3 DEF Expanding
  <2> QED
    BY <2>1, <2>3, <2>4 DEF AesInv
<1>2. CASE KeyExpansion
  <2>1. aes = "expanding" /\ UNCHANGED <<round, state, input>>
    BY <1>2 DEF KeyExpansion
  <2>2. PICK i \in 4 .. 43 : Expanding(i)
    BY <2>1 DEF AesInv
  <2>3. /\ RoundKey' \in Seq(Bytes) /\ Len(RoundKey') = 4 * (i + 1)
        /\ aes' = IF i = 43 THEN "ready" ELSE "expanding"
    BY <1>2, <2>2, KeyExpansionAppends
  <2>4. CASE i = 43
    <3>1. Len(RoundKey') >= 176
      BY <2>3, <2>4
    <3> QED
      BY <2>1, <2>3, <2>4, <3>1 DEF AesInv
  <2>5. CASE i # 43
    <3>1. i + 1 \in 4 .. 43 /\ Expanding(i + 1)'
      BY <2>3, <2>5 DEF Expanding
    <3> QED
      BY <2>1, <2>3, <2>5, <3>1 DEF AesInv
  <2> QED
    BY <2>4, <2>5
<1>3. CASE AES_ECB_encrypt
  <2>1. /\ aes = "ready" /\ aes' = "encrypting" /\ round' = 1
        /\ RoundKey' = RoundKey /\ input' = input /\ state' = AddRoundKey(0, state)
    BY <1>3 DEF AES_ECB_encrypt
  <2>2. input \in States /\ state = input /\ RoundKey \in Seq(Bytes) /\ Len(RoundKey) >= 176
    BY <2>1 DEF AesInv
  <2>3. AddRoundKey(0, input) \in States
    BY <2>2, AddRoundKeyUndone DEF Nr
  <2>4. PICK trace \in Traces : trace[0] = AddRoundKey(0, input)
    <3>1. [k \in 0 .. 9 |-> AddRoundKey(0, input)] \in Traces
      BY <2>3 DEF Traces
    <3> QED
      BY <3>1
  <2>5. (Encrypts(trace, round - 1) /\ state = trace[round - 1])'
    BY <2>1, <2>2, <2>4 DEF Encrypts, AddRoundKey
  <2> QED
    BY <2>1, <2>2, <2>5 DEF AesInv
<1>4. CASE Cipher
  BY <1>4, CipherKeeps
<1>5. CASE AES_ECB_decrypt
  <2>1. /\ aes = "encrypted" /\ aes' = "decrypting" /\ round' = 9
        /\ RoundKey' = RoundKey /\ input' = input /\ state' = AddRoundKey(Nr, state)
    BY <1>5 DEF AES_ECB_decrypt, Nr
  <2>2. input \in States /\ RoundKey \in Seq(Bytes) /\ Len(RoundKey) >= 176
    BY <2>1 DEF AesInv
  <2>3. PICK trace \in Traces : Encrypts(trace, 9) /\ state = AddRoundKey(Nr, Shifted(trace[9]))
    BY <2>1 DEF AesInv
  <2>4. Shifted(trace[9]) \in States
    BY ShiftedFacts DEF Traces
  <2>5. state' = Shifted(trace[9])
    BY <2>1, <2>2, <2>3, <2>4, AddRoundKeyUndone DEF Nr
  <2>6. (Encrypts(trace, round) /\ state = Shifted(trace[round]))'
    BY <2>1, <2>3, <2>5 DEF Encrypts, AddRoundKey
  <2> QED
    BY <2>1, <2>2, <2>6 DEF AesInv
<1>6. CASE InvCipher
  BY <1>6, InvCipherKeeps
<1>7. CASE UNCHANGED aesVars
  <2>1. /\ aes' = aes /\ RoundKey' = RoundKey /\ round' = round
        /\ state' = state /\ input' = input
    BY <1>7 DEF aesVars
  <2>2. aes = "expanding" => \E i \in 4 .. 43 : Expanding(i)'
    BY <2>1 DEF AesInv, Expanding
  <2>3. aes = "encrypting" =>
          \E trace \in Traces : (Encrypts(trace, round - 1) /\ state = trace[round - 1])'
    <3> SUFFICES ASSUME aes = "encrypting"
                 PROVE  \E trace \in Traces : (Encrypts(trace, round - 1) /\ state = trace[round - 1])'
      OBVIOUS
    <3>1. PICK trace \in Traces : Encrypts(trace, round - 1) /\ state = trace[round - 1]
      BY DEF AesInv
    <3>2. (Encrypts(trace, round - 1) /\ state = trace[round - 1])'
      BY <2>1, <3>1 DEF Encrypts, AddRoundKey
    <3> QED
      BY <3>2
  <2>4. aes = "encrypted" =>
          \E trace \in Traces : (Encrypts(trace, 9) /\ state = AddRoundKey(Nr, Shifted(trace[9])))'
    <3> SUFFICES ASSUME aes = "encrypted"
                 PROVE  \E trace \in Traces :
                          (Encrypts(trace, 9) /\ state = AddRoundKey(Nr, Shifted(trace[9])))'
      OBVIOUS
    <3>1. PICK trace \in Traces : Encrypts(trace, 9) /\ state = AddRoundKey(Nr, Shifted(trace[9]))
      BY DEF AesInv
    <3>2. (Encrypts(trace, 9) /\ state = AddRoundKey(Nr, Shifted(trace[9])))'
      BY <2>1, <3>1 DEF Encrypts, AddRoundKey
    <3> QED
      BY <3>2
  <2>5. aes = "decrypting" =>
          \E trace \in Traces : (Encrypts(trace, round) /\ state = Shifted(trace[round]))'
    <3> SUFFICES ASSUME aes = "decrypting"
                 PROVE  \E trace \in Traces : (Encrypts(trace, round) /\ state = Shifted(trace[round]))'
      OBVIOUS
    <3>1. PICK trace \in Traces : Encrypts(trace, round) /\ state = Shifted(trace[round])
      BY DEF AesInv
    <3>2. (Encrypts(trace, round) /\ state = Shifted(trace[round]))'
      BY <2>1, <3>1 DEF Encrypts, AddRoundKey
    <3> QED
      BY <3>2
  <2> QED
    BY <2>1, <2>2, <2>3, <2>4, <2>5 DEF AesInv
<1> QED
  BY <1>1, <1>2, <1>3, <1>4, <1>5, <1>6, <1>7 DEF AesNext

(* Decryption gives back every block, under every key. *)
THEOREM BlocksComeBack == AesSpec => []BlockRoundTrip
<1>1. AesInit => AesInv
  BY DEF AesInit, AesInv
<1>2. AesInv /\ [AesNext]_aesVars => AesInv'
  BY NextAesInv
<1>3. AesInv => BlockRoundTrip
  BY DEF AesInv, BlockRoundTrip
<1> QED
  BY <1>1, <1>2, <1>3, PTL DEF AesSpec
=============================================================================
