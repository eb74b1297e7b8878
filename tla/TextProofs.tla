----------------------------- MODULE TextProofs -----------------------------
(***************************************************************************)
(* Proofs about what the gateway turns into text and back: messages in     *)
(* base64, of any bytes and any number of them; the manager's report, for  *)
(* any lengths of keys, numbers and times that the formats of the code can *)
(* print, and any number of devices; the string the database is connected  *)
(* with, for members of any lengths in any order.                          *)
(***************************************************************************)
EXTENDS Codecs, SequenceTheorems, FiniteSetTheorems, WellFoundedInduction, TLAPS

-----------------------------------------------------------------------------
(* Sequences of cells. *)

LEMMA FunctionIsSeq ==
  ASSUME NEW S, NEW n \in Nat, NEW f \in [1 .. n -> S]
  PROVE  f \in Seq(S) /\ Len(f) = n
<1>1. Seq(S) = UNION {[1 .. k -> S] : k \in Nat}
  OBVIOUS
<1>2. f \in Seq(S)
  BY <1>1
<1>3. Len(f) \in Nat /\ DOMAIN f = 1 .. Len(f) /\ DOMAIN f = 1 .. n
  BY <1>2
<1> QED
  BY <1>2, <1>3

(* A sequence of n cells. *)
HasCells(p, n) == n \in Nat /\ p = [i \in 1 .. n |-> p[i]]

LEMMA CellsAreSeq ==
  ASSUME NEW p, NEW n, HasCells(p, n)
  PROVE  Len(p) = n /\ DOMAIN p = 1 .. n /\ \E S : p \in Seq(S)
<1> DEFINE S == {p[i] : i \in 1 .. n}
<1>1. n \in Nat /\ p \in [1 .. n -> S]
  BY DEF HasCells
<1> HIDE DEF S
<1>2. p \in Seq(S) /\ Len(p) = n
  BY <1>1, FunctionIsSeq
<1> QED
  BY <1>1, <1>2

LEMMA SeqHasCells ==
  ASSUME NEW S, NEW p \in Seq(S)
  PROVE  HasCells(p, Len(p))
  BY DEF HasCells

LEMMA TwoSorts ==
  ASSUME NEW S, NEW T, NEW p \in Seq(S), NEW q \in Seq(T)
  PROVE  p \in Seq(S \cup T) /\ q \in Seq(S \cup T)
  OBVIOUS

(* r consists of p, of m cells, and q, of n.                               *)
Joined(r, p, m, q, n) ==
  /\ HasCells(r, m + n)
  /\ \A i \in 1 .. m : r[i] = p[i]
  /\ \A i \in 1 .. n : r[m + i] = q[i]

LEMMA JoinedCells ==
  ASSUME NEW p, NEW q, NEW m \in Nat, NEW n \in Nat, HasCells(p, m), HasCells(q, n)
  PROVE  Joined(p \o q, p, m, q, n)
<1>1. PICK S : p \in Seq(S)
  BY CellsAreSeq
<1>2. PICK T : q \in Seq(T)
  BY CellsAreSeq
<1> DEFINE U == S \cup T
<1>3. p \in Seq(U) /\ q \in Seq(U)
  BY <1>1, <1>2, TwoSorts
<1>4. Len(p) = m /\ Len(q) = n
  BY CellsAreSeq
<1> HIDE DEF U
<1>5. p \o q \in Seq(U) /\ Len(p \o q) = m + n
  BY <1>3, <1>4
<1>6. HasCells(p \o q, m + n)
  BY <1>5, SeqHasCells
<1> QED
  BY <1>3, <1>4, <1>6 DEF Joined

(* r consists of the cells of p from a to b.                               *)
Cut(r, p, a, b) ==
  /\ HasCells(r, b - a + 1)
  /\ \A i \in 1 .. b - a + 1 : r[i] = p[a + i - 1]

LEMMA CutCells ==
  ASSUME NEW p, NEW n \in Nat, HasCells(p, n), NEW a \in 1 .. n + 1, NEW b \in (a - 1) .. n
  PROVE  Cut(SubSeq(p, a, b), p, a, b)
<1>1. PICK S : p \in Seq(S)
  BY CellsAreSeq
<1>2. Len(p) = n
  BY CellsAreSeq
<1>3. \A i \in a .. b : p[i] \in S
  BY <1>1, <1>2
<1>4. /\ SubSeq(p, a, b) \in Seq(S)
      /\ Len(SubSeq(p, a, b)) = IF a <= b THEN b - a + 1 ELSE 0
      /\ \A i \in 1 .. b - a + 1 : SubSeq(p, a, b)[i] = p[a + i - 1]
  BY <1>2, <1>3, SubSeqProperties
<1>5. Len(SubSeq(p, a, b)) = b - a + 1
  BY <1>2, <1>4
<1>6. HasCells(SubSeq(p, a, b), b - a + 1)
  BY <1>4, <1>5, SeqHasCells
<1> QED
  BY <1>4, <1>6 DEF Cut

LEMMA FieldCells ==
  ASSUME NEW name, NEW size \in Nat
  PROVE  /\ HasCells(Field(name, size), size)
         /\ \A i \in 1 .. size : Field(name, size)[i] = <<name, i>>
  BY DEF Field, HasCells

-----------------------------------------------------------------------------
(* base64_encode.  Character j of a text carries bits of the bytes up to   *)
(* Reached(j): it is padding when there is no such byte.                   *)

Groups(size) == (size + 2) \div 3

Reached(j) == 3 * ((j - 1) \div 4) + ((j - 1) % 4)

(* The number of characters that are no padding. *)
DigitCount(size) == 4 * (size \div 3) + (IF size % 3 = 0 THEN 0 ELSE (size % 3) + 1)

LEMMA GroupsFacts ==
  ASSUME NEW size \in Nat
  PROVE  /\ Groups(size) \in Nat
         /\ 3 * Groups(size) - size = (3 - (size % 3)) % 3
         /\ size <= 3 * Groups(size) /\ 3 * Groups(size) <= size + 2
  BY DEF Groups

LEMMA DigitCountFacts ==
  ASSUME NEW size \in Nat
  PROVE  /\ DigitCount(size) \in 0 .. 4 * Groups(size)
         /\ (DigitCount(size) * 3) \div 4 = size
         /\ size <= BytesWritten(DigitCount(size))
  BY DEF DigitCount, Groups, BytesWritten

LEMMA ReachedFacts ==
  ASSUME NEW size \in Nat, NEW j \in 1 .. 4 * Groups(size)
  PROVE  Reached(j) \in Nat /\ (Reached(j) <= size <=> j <= DigitCount(size))
  BY DEF Reached, DigitCount, Groups

LEMMA DigitsFacts ==
  ASSUME NEW b1 \in Bytes, NEW b2 \in Bytes, NEW b3 \in Bytes
  PROVE  \A i \in 1 .. 4 : Digits(b1, b2, b3)[i] \in 0 .. 63
<1>1. /\ Digits(b1, b2, b3)[1] = b1 \div 4
      /\ Digits(b1, b2, b3)[2] = (b1 % 4) * 16 + (b2 \div 16)
      /\ Digits(b1, b2, b3)[3] = (b2 % 16) * 4 + (b3 \div 64)
      /\ Digits(b1, b2, b3)[4] = b3 % 64
  BY DEF Digits
<1>2. b1 \div 4 \in 0 .. 63 /\ b3 % 64 \in 0 .. 63
  BY DEF Bytes
<1>3. (b1 % 4) * 16 + (b2 \div 16) \in 0 .. 63
  BY DEF Bytes
<1>4. (b2 % 16) * 4 + (b3 \div 64) \in 0 .. 63
  BY DEF Bytes
<1>5. \A i \in 1 .. 4 : i = 1 \/ i = 2 \/ i = 3 \/ i = 4
  OBVIOUS
<1> QED
  BY <1>1, <1>2, <1>3, <1>4, <1>5

LEMMA ByteOfFacts ==
  ASSUME NEW m \in Seq(Bytes), NEW k \in Nat \ {0}
  PROVE  ByteOf(m, k) \in Bytes
<1>1. CASE k <= Len(m)
  <2>1. m[k] \in Bytes
    BY <1>1
  <2> QED
    BY <1>1, <2>1 DEF ByteOf
<1>2. CASE ~(k <= Len(m))
  BY <1>2 DEF ByteOf, Bytes
<1> QED
  BY <1>1, <1>2

(* A text consists of DigitCount digits and then of padding. *)
LEMMA EncodeFacts ==
  ASSUME NEW m \in Seq(Bytes)
  PROVE  /\ Len(base64_encode(m)) = 4 * Groups(Len(m))
         /\ base64_encode(m) \in Seq(0 .. Pad)
         /\ \A j \in 1 .. 4 * Groups(Len(m)) :
              IF j <= DigitCount(Len(m))
              THEN base64_encode(m)[j] =
                     Digits(ByteOf(m, 3 * ((j - 1) \div 4) + 1), ByteOf(m, 3 * ((j - 1) \div 4) + 2),
                            ByteOf(m, 3 * ((j - 1) \div 4) + 3))[((j - 1) % 4) + 1]
              ELSE base64_encode(m)[j] = Pad
<1> DEFINE size == Len(m)
           text == base64_encode(m)
           first(j) == 3 * ((j - 1) \div 4) + 1
           digit(j) == Digits(ByteOf(m, first(j)), ByteOf(m, first(j) + 1),
                              ByteOf(m, first(j) + 2))[((j - 1) % 4) + 1]
<1>1. size \in Nat
  OBVIOUS
<1>2. text = [j \in 1 .. 4 * Groups(size) |->
                IF first(j) + ((j - 1) % 4) - 1 > size THEN Pad ELSE digit(j)]
  BY <1>1 DEF base64_encode, Groups
<1>3. Groups(size) \in Nat
  BY <1>1, GroupsFacts
<1>4. ASSUME NEW j \in 1 .. 4 * Groups(size)
      PROVE  /\ first(j) \in Nat \ {0} /\ ((j - 1) % 4) + 1 \in 1 .. 4
             /\ digit(j) \in 0 .. 63
             /\ first(j) + ((j - 1) % 4) - 1 > size <=> ~(j <= DigitCount(size))
  <2>1. first(j) \in Nat \ {0} /\ ((j - 1) % 4) + 1 \in 1 .. 4
    BY <1>3
  <2>2. /\ ByteOf(m, first(j)) \in Bytes /\ ByteOf(m, first(j) + 1) \in Bytes
        /\ ByteOf(m, first(j) + 2) \in Bytes
    BY <2>1, ByteOfFacts
  <2>3. digit(j) \in 0 .. 63
    BY <2>1, <2>2, DigitsFacts
  <2>4. first(j) + ((j - 1) % 4) - 1 = Reached(j)
    BY <1>3 DEF Reached
  <2>5. Reached(j) \in Nat /\ (Reached(j) <= size <=> j <= DigitCount(size))
    BY <1>1, ReachedFacts
  <2> HIDE DEF size, first, digit
  <2>6. first(j) + ((j - 1) % 4) - 1 > size <=> ~(j <= DigitCount(size))
    BY <1>1, <2>4, <2>5
  <2> QED
    BY <2>1, <2>3, <2>6
<1>5. \A j \in 1 .. 4 * Groups(size) :
        text[j] = IF j <= DigitCount(size) THEN digit(j) ELSE Pad
  BY <1>2, <1>4
<1>6. text \in Seq(0 .. Pad) /\ Len(text) = 4 * Groups(size)
  <2> HIDE DEF digit, first, size
  <2>1. ASSUME NEW j \in 1 .. 4 * Groups(size) PROVE text[j] \in 0 .. Pad
    <3>1. digit(j) \in 0 .. 63
      BY <1>4
    <3>2. text[j] = digit(j) \/ text[j] = Pad
      BY <1>5
    <3> QED
      BY <3>1, <3>2 DEF Pad
  <2>2. text \in [1 .. 4 * Groups(size) -> 0 .. Pad]
    BY <1>2, <2>1
  <2> HIDE DEF text
  <2>3. 4 * Groups(size) \in Nat
    BY <1>3
  <2> QED
    BY <2>2, <2>3, FunctionIsSeq
<1>7. \A j \in 1 .. 4 * Groups(size) :
        digit(j) = Digits(ByteOf(m, 3 * ((j - 1) \div 4) + 1), ByteOf(m, 3 * ((j - 1) \div 4) + 2),
                          ByteOf(m, 3 * ((j - 1) \div 4) + 3))[((j - 1) % 4) + 1]
  <2>1. \A j \in 1 .. 4 * Groups(size) :
          /\ first(j) + 1 = 3 * ((j - 1) \div 4) + 2
          /\ first(j) + 2 = 3 * ((j - 1) \div 4) + 3
    BY <1>3
  <2> QED
    BY <2>1
<1> QED
  BY <1>5, <1>6, <1>7

-----------------------------------------------------------------------------
(* base64_decode, of a text with one more character behind it.             *)

ByteStrings == Seq(Bytes)

LEMMA StoredTextFacts ==
  ASSUME NEW m \in ByteStrings
  PROVE  /\ StoredText(m) \in Seq(0 .. Other)
         /\ Len(StoredText(m)) = 4 * Groups(Len(m)) + 1
         /\ TextLength(StoredText(m)) = 4 * Groups(Len(m))
         /\ \A j \in 1 .. 4 * Groups(Len(m)) : StoredText(m)[j] = base64_encode(m)[j]
<1>1. base64_encode(m) \in Seq(0 .. Other) /\ Len(base64_encode(m)) = 4 * Groups(Len(m))
  BY EncodeFacts DEF ByteStrings, Pad, Other
<1>2. <<Other>> \in Seq(0 .. Other) /\ Len(<<Other>>) = 1
  BY DEF Other
<1>3. Groups(Len(m)) \in Nat
  BY GroupsFacts DEF ByteStrings
<1> HIDE DEF Other
<1> QED
  BY <1>1, <1>2, <1>3 DEF StoredText, TextLength

LEMMA DigitsReadFacts ==
  ASSUME NEW m \in ByteStrings
  PROVE  DigitsRead(StoredText(m), 4 * Groups(Len(m))) = DigitCount(Len(m))
<1> DEFINE text  == StoredText(m)
           inlen == 4 * Groups(Len(m))
           count == DigitCount(Len(m))
           Good(n) == /\ \A i \in 1 .. n : text[i] < Pad
                      /\ n < inlen => text[n + 1] >= Pad
<1>1. inlen \in Nat /\ count \in 0 .. inlen
  <2>1. Len(m) \in Nat
    BY DEF ByteStrings
  <2>2. Groups(Len(m)) \in Nat
    BY <2>1, GroupsFacts
  <2>3. DigitCount(Len(m)) \in 0 .. 4 * Groups(Len(m))
    BY <2>1, DigitCountFacts
  <2> QED
    BY <2>2, <2>3
<1>2. \A j \in 1 .. inlen : IF j <= count THEN text[j] \in 0 .. 63 ELSE text[j] = Pad
  <2> SUFFICES ASSUME NEW j \in 1 .. inlen
               PROVE  IF j <= count THEN text[j] \in 0 .. 63 ELSE text[j] = Pad
    OBVIOUS
  <2>1. text[j] = base64_encode(m)[j]
    BY StoredTextFacts
  <2>2. CASE j <= count
    <3> DEFINE q == (j - 1) \div 4
    <3>1. q \in Nat /\ ((j - 1) % 4) + 1 \in 1 .. 4
      BY <1>1
    <3>2. text[j] = Digits(ByteOf(m, 3 * q + 1), ByteOf(m, 3 * q + 2),
                           ByteOf(m, 3 * q + 3))[((j - 1) % 4) + 1]
      BY <2>1, <2>2, EncodeFacts DEF ByteStrings
    <3> HIDE DEF q
    <3>3. /\ ByteOf(m, 3 * q + 1) \in Bytes /\ ByteOf(m, 3 * q + 2) \in Bytes
          /\ ByteOf(m, 3 * q + 3) \in Bytes
      BY <3>1, ByteOfFacts DEF ByteStrings
    <3> QED
      BY <2>2, <3>1, <3>2, <3>3, DigitsFacts
  <2>3. CASE ~(j <= count)
    BY <2>1, <2>3, EncodeFacts DEF ByteStrings
  <2> QED
    BY <2>2, <2>3
<1> HIDE DEF text, inlen, count
<1>3. Good(count)
  BY <1>1, <1>2 DEF Pad
<1>4. ASSUME NEW n \in 0 .. inlen, Good(n) PROVE n = count
  <2>1. ~(n < count)
    <3> SUFFICES ASSUME n < count PROVE FALSE
      OBVIOUS
    <3>1. n + 1 \in 1 .. inlen /\ n + 1 <= count /\ n < inlen
      BY <1>1
    <3>2. text[n + 1] \in 0 .. 63 /\ text[n + 1] >= Pad
      BY <1>2, <1>4, <3>1
    <3> QED
      BY <3>2 DEF Pad
  <2>2. ~(count < n)
    <3> SUFFICES ASSUME count < n PROVE FALSE
      OBVIOUS
    <3>1. count + 1 \in 1 .. n /\ count + 1 \in 1 .. inlen /\ ~(count + 1 <= count)
      BY <1>1
    <3>2. text[count + 1] = Pad /\ text[count + 1] < Pad
      BY <1>2, <1>4, <3>1
    <3> QED
      BY <3>2 DEF Pad
  <2> QED
    BY <1>1, <2>1, <2>2
<1>5. DigitsRead(text, inlen) = CHOOSE n \in 0 .. inlen : Good(n)
  BY DEF DigitsRead
<1>6. (CHOOSE n \in 0 .. inlen : Good(n)) \in 0 .. inlen /\ Good(CHOOSE n \in 0 .. inlen : Good(n))
  BY <1>1, <1>3
<1> HIDE DEF Good
<1> QED
  BY <1>4, <1>5, <1>6 DEF text, inlen, count

(* The digits of three bytes, put together again. *)
LEMMA ThreeBytes ==
  ASSUME NEW b1 \in Bytes, NEW b2 \in Bytes, NEW b3 \in Bytes
  PROVE  LET d == Digits(b1, b2, b3)
         IN  /\ d[1] * 4 + (d[2] \div 16) = b1
             /\ (d[2] % 16) * 16 + (d[3] \div 4) = b2
             /\ (d[3] % 4) * 64 + d[4] = b3
<1> DEFINE d == Digits(b1, b2, b3)
<1>1. /\ d[1] = b1 \div 4 /\ d[2] = (b1 % 4) * 16 + (b2 \div 16)
      /\ d[3] = (b2 % 16) * 4 + (b3 \div 64) /\ d[4] = b3 % 64
  BY DEF Digits
<1>2. b1 \in Nat /\ b2 \in 0 .. 255 /\ b3 \in 0 .. 255
  BY DEF Bytes
<1> HIDE DEF d
<1>3. d[1] * 4 + (d[2] \div 16) = b1
  BY <1>1, <1>2
<1>4. (d[2] % 16) * 16 + (d[3] \div 4) = b2
  BY <1>1, <1>2
<1>5. (d[3] % 4) * 64 + d[4] = b3
  BY <1>1, <1>2
<1> QED
  BY <1>3, <1>4, <1>5 DEF d

LEMMA DigitsOfByte ==
  ASSUME NEW m \in ByteStrings, NEW q \in Nat, NEW i \in 0 .. 3,
         3 * q + i <= Len(m), 4 * q + i + 1 <= 4 * Groups(Len(m))
  PROVE  DigitOf(StoredText(m), DigitCount(Len(m)), 4 * q + 1 + i)
           = Digits(ByteOf(m, 3 * q + 1), ByteOf(m, 3 * q + 2), ByteOf(m, 3 * q + 3))[i + 1]
<1> DEFINE j == 4 * q + 1 + i
<1>1. Len(m) \in Nat /\ Groups(Len(m)) \in Nat
  BY GroupsFacts DEF ByteStrings
<1>2. j \in 1 .. 4 * Groups(Len(m)) /\ (j - 1) \div 4 = q /\ (j - 1) % 4 = i
  BY <1>1
<1>3. Reached(j) = 3 * q + i
  BY <1>2 DEF Reached
<1>4. j <= DigitCount(Len(m))
  BY <1>1, <1>2, <1>3, ReachedFacts
<1>5. StoredText(m)[j] = base64_encode(m)[j]
  BY <1>2, StoredTextFacts
<1> HIDE DEF j
<1>6. base64_encode(m)[j] =
        Digits(ByteOf(m, 3 * q + 1), ByteOf(m, 3 * q + 2), ByteOf(m, 3 * q + 3))[i + 1]
  BY <1>2, <1>4, EncodeFacts DEF ByteStrings
<1> QED
  BY <1>4, <1>5, <1>6 DEF DigitOf, j

LEMMA DecodedByteFacts ==
  ASSUME NEW m \in ByteStrings, NEW k \in 1 .. Len(m)
  PROVE  DecodedByte(StoredText(m), DigitCount(Len(m)), k) = m[k]
<1> DEFINE q == (k - 1) \div 3
           place == (k - 1) % 3
           n == DigitCount(Len(m))
           d(i) == DigitOf(StoredText(m), n, 4 * q + 1 + i)
           e == Digits(ByteOf(m, 3 * q + 1), ByteOf(m, 3 * q + 2), ByteOf(m, 3 * q + 3))
<1>1. Len(m) \in Nat /\ Groups(Len(m)) \in Nat /\ Len(m) <= 3 * Groups(Len(m))
  BY GroupsFacts DEF ByteStrings
<1>2. q \in Nat /\ place \in 0 .. 2 /\ k = 3 * q + place + 1
  BY <1>1
<1>3. \A i \in 0 .. 3 : i <= place + 1 => d(i) = e[i + 1]
  <2> HIDE DEF q, place, d, n, e
  <2> SUFFICES ASSUME NEW i \in 0 .. 3, i <= place + 1 PROVE d(i) = e[i + 1]
    OBVIOUS
  <2>1. 3 * q + i <= Len(m) /\ 4 * q + i + 1 <= 4 * Groups(Len(m))
    BY <1>1, <1>2
  <2> QED
    BY <1>2, <2>1, DigitsOfByte DEF d, n, e
<1>4. /\ ByteOf(m, 3 * q + 1) \in Bytes /\ ByteOf(m, 3 * q + 2) \in Bytes
      /\ ByteOf(m, 3 * q + 3) \in Bytes
  BY <1>2, ByteOfFacts DEF ByteStrings
<1>5. /\ e[1] * 4 + (e[2] \div 16) = ByteOf(m, 3 * q + 1)
      /\ (e[2] % 16) * 16 + (e[3] \div 4) = ByteOf(m, 3 * q + 2)
      /\ (e[3] % 4) * 64 + e[4] = ByteOf(m, 3 * q + 3)
  BY <1>4, ThreeBytes
<1>6. DecodedByte(StoredText(m), n, k) =
        << d(0) * 4 + (d(1) \div 16),
           (d(1) % 16) * 16 + (d(2) \div 4),
           (d(2) % 4) * 64 + d(3) >>[place + 1]
  BY DEF DecodedByte
<1>7. ByteOf(m, k) = m[k]
  BY DEF ByteOf
<1> HIDE DEF q, place, d, n, e
<1>8. CASE place = 0
  <2>1. d(0) = e[1] /\ d(1) = e[2]
    BY <1>3, <1>8
  <2> QED
    BY <1>2, <1>5, <1>6, <1>7, <1>8, <2>1 DEF n
<1>9. CASE place = 1
  <2>1. d(1) = e[2] /\ d(2) = e[3]
    BY <1>3, <1>9
  <2> QED
    BY <1>2, <1>5, <1>6, <1>7, <1>9, <2>1 DEF n
<1>10. CASE place = 2
  <2>1. d(2) = e[3] /\ d(3) = e[4]
    BY <1>3, <1>10
  <2> QED
    BY <1>2, <1>5, <1>6, <1>7, <1>10, <2>1 DEF n
<1> QED
  BY <1>2, <1>8, <1>9, <1>10

(* Decoding the text of any message, less the character behind it, writes  *)
(* the message to the beginning of the buffer and returns its length.      *)
THEOREM Base64RoundTrip ==
  ASSUME NEW m \in ByteStrings, NEW out, Len(m) \in Nat, 1 .. Len(m) \subseteq DOMAIN out
  PROVE  LET decoded == base64_decode(StoredText(m), TextLength(StoredText(m)), out)
         IN  /\ decoded.ret = Len(m)
             /\ DOMAIN decoded.out = DOMAIN out
             /\ \A k \in 1 .. Len(m) : decoded.out[k] = m[k]
<1> DEFINE text  == StoredText(m)
           inlen == 4 * Groups(Len(m))
           n     == DigitCount(Len(m))
           decoded == base64_decode(text, inlen, out)
<1>1. TextLength(text) = inlen /\ inlen \in Nat /\ inlen % 4 = 0
  BY StoredTextFacts, GroupsFacts
<1>2. DigitsRead(text, inlen) = n /\ n \in 0 .. inlen
  BY DigitsReadFacts, DigitCountFacts
<1>3. n < inlen => text[n + 1] = Pad
  <2> SUFFICES ASSUME n < inlen PROVE text[n + 1] = Pad
    OBVIOUS
  <2>1. n + 1 \in 1 .. 4 * Groups(Len(m)) /\ ~(n + 1 <= DigitCount(Len(m)))
    BY <1>1, <1>2
  <2>2. base64_encode(m)[n + 1] = Pad
    BY <2>1, EncodeFacts DEF ByteStrings
  <2> QED
    BY <2>1, <2>2, StoredTextFacts
<1>4. (n * 3) \div 4 = Len(m) /\ Len(m) <= BytesWritten(n)
  BY DigitCountFacts
<1> HIDE DEF text, inlen, n
<1>5. decoded = [ret |-> Len(m),
                 out |-> [k \in DOMAIN out |->
                            IF k <= BytesWritten(n) THEN DecodedByte(text, n, k) ELSE out[k]]]
  BY <1>1, <1>2, <1>3, <1>4 DEF base64_decode
<1>6. BytesWritten(n) \in Nat
  BY <1>1, <1>2 DEF BytesWritten
<1>7. ASSUME NEW k \in 1 .. Len(m) PROVE decoded.out[k] = m[k]
  <2>1. k \in DOMAIN out /\ k <= BytesWritten(n)
    BY <1>4, <1>6
  <2>2. DecodedByte(text, n, k) = m[k]
    BY DecodedByteFacts DEF text, n
  <2> QED
    BY <1>5, <2>1, <2>2
<1> QED
  BY <1>1, <1>5, <1>7 DEF text

-----------------------------------------------------------------------------
(* The sizes of the code; messages of any number of bytes.                 *)

CodeSizes ==
  /\ SECURITY_KEY_SIZE = 16
  /\ GATEWAY_PROTOCOL_APP_KEY_SIZE = 8
  /\ DEVICE_DATA_MAX_LENGTH = 256

MessagesOfBytes == Messages \subseteq ByteStrings

(* Pending messages. *)

StoredMessage(m) ==
  /\ m \in ByteStrings
  /\ packet = StoredText(m)
  /\ result = [ret |-> 0, message |-> m]

MessageInv ==
  /\ stage = "stored" => \E m \in ByteStrings : StoredMessage(m)
  /\ stage = "prepared" => result.message \in ByteStrings
  /\ MessageIsSent
  /\ AcknowledgedIsRetired

LEMMA LengthFacts ==
  ASSUME NEW m \in ByteStrings
  PROVE  /\ Len(m) \in Nat /\ Groups(Len(m)) \in Nat
         /\ 3 * Groups(Len(m)) - Len(m) = (3 - (Len(m) % 3)) % 3
         /\ Len(m) <= 3 * Groups(Len(m)) /\ 3 * Groups(Len(m)) <= Len(m) + 2
         /\ Len(StoredText(m)) = 4 * Groups(Len(m)) + 1
<1>1. Len(m) \in Nat
  BY DEF ByteStrings
<1> QED
  BY <1>1, GroupsFacts, StoredTextFacts

LEMMA PrefixFacts ==
  ASSUME NEW S, NEW f, NEW n \in Nat, \A i \in 1 .. n : f[i] \in S
  PROVE  /\ SubSeq(f, 1, n) \in Seq(S)
         /\ Len(SubSeq(f, 1, n)) = n
         /\ \A i \in 1 .. n : SubSeq(f, 1, n)[i] = f[i]
<1>1. 1 \in Int /\ n \in Int
  OBVIOUS
<1>2. /\ SubSeq(f, 1, n) \in Seq(S)
      /\ Len(SubSeq(f, 1, n)) = IF 1 <= n THEN n - 1 + 1 ELSE 0
      /\ \A i \in 1 .. n - 1 + 1 : SubSeq(f, 1, n)[i] = f[1 + i - 1]
  BY <1>1, SubSeqProperties
<1>3. n - 1 + 1 = n /\ \A i \in 1 .. n : 1 + i - 1 = i
  OBVIOUS
<1> QED
  BY <1>2, <1>3

LEMMA Uint8Facts ==
  /\ \A n \in 0 .. 255 : uint8(n) = n
  /\ uint8(256) = 0
  /\ \A n \in Int : uint8(n) \in 0 .. 255
  BY DEF uint8

LEMMA PrepareKeeps ==
  ASSUME CodeSizes, MessageInv, PrepareMessage
  PROVE  MessageInv'
<1>1. PICK m \in ByteStrings : StoredMessage(m)
  BY DEF MessageInv, PrepareMessage
<1> DEFINE size == Len(m)
           groups == Groups(size)
           text == StoredText(m)
           stale == [i \in 1 .. DEVICE_DATA_MAX_LENGTH |-> None]
           decoded == base64_decode(text, TextLength(text), stale)
<1>2. /\ size \in Nat /\ groups \in Nat
      /\ 3 * groups - size = (3 - (size % 3)) % 3
      /\ size <= 3 * groups /\ 3 * groups <= size + 2
      /\ Len(text) = 4 * groups + 1
  BY LengthFacts
<1>3. CASE Len(text) < msg_cont_size
  <2>1. groups <= 37
    BY <1>2, <1>3 DEF msg_cont_size
  <2>2. BASE64_DECODE_OUT_SIZE(Len(text)) = 3 * groups
    <3> HIDE DEF groups, size, text
    <3> QED
      BY <1>2 DEF BASE64_DECODE_OUT_SIZE
  <2>3. uint8(BASE64_DECODE_OUT_SIZE(Len(text))) = 3 * groups
    <3> HIDE DEF groups, size, text
    <3>1. 3 * groups \in 0 .. 255
      BY <1>2, <2>1
    <3> QED
      BY <2>2, <3>1, Uint8Facts
  <2>4. /\ stage' = "prepared" /\ length' = 3 * groups
        /\ packet' = SubSeq(decoded.out, 1, 3 * groups)
        /\ result' = [ret |-> decoded.ret, message |-> m]
    BY <1>1, <1>3, <2>3 DEF PrepareMessage, StoredMessage
  <2>5. 1 .. size \subseteq DOMAIN stale
    <3> HIDE DEF groups, size, text
    <3>1. DOMAIN stale = 1 .. 256
      BY DEF CodeSizes
    <3>2. size \in 0 .. 111
      BY <1>2, <2>1
    <3> HIDE DEF stale
    <3> QED
      BY <3>1, <3>2
  <2>6. decoded.ret = size /\ \A k \in 1 .. size : decoded.out[k] = m[k]
    BY <1>2, <2>5, Base64RoundTrip
  <2>7. SubSeq(packet', 1, size) = m
    <3> HIDE DEF size, groups, decoded
    <3> DEFINE S == {decoded.out[i] : i \in 1 .. 3 * groups}
    <3>1. \A i \in 1 .. 3 * groups : decoded.out[i] \in S
      OBVIOUS
    <3> HIDE DEF S
    <3>2. /\ packet' \in Seq(S) /\ Len(packet') = 3 * groups
          /\ \A i \in 1 .. 3 * groups : packet'[i] = decoded.out[i]
      BY <1>2, <2>4, <3>1, PrefixFacts
    <3>3. /\ SubSeq(packet', 1, size) \in Seq(S) /\ Len(SubSeq(packet', 1, size)) = size
          /\ \A i \in 1 .. size : SubSeq(packet', 1, size)[i] = packet'[i]
      BY <1>2, <3>2
    <3>4. m \in Seq(Bytes) /\ Len(m) = size
      BY DEF ByteStrings, size
    <3>5. \A i \in 1 .. size : SubSeq(packet', 1, size)[i] = m[i]
      <4> SUFFICES ASSUME NEW i \in 1 .. size PROVE SubSeq(packet', 1, size)[i] = m[i]
        OBVIOUS
      <4>1. i \in 1 .. 3 * groups
        BY <1>2
      <4>2. packet'[i] = decoded.out[i]
        BY <3>2, <4>1
      <4> QED
        BY <2>6, <3>3, <4>2
    <3> QED
      BY <3>3, <3>4, <3>5
  <2> HIDE DEF size, groups, decoded
  <2>8. MessageIsSent'
    BY <1>2, <2>4, <2>6, <2>7 DEF MessageIsSent, size
  <2> QED
    BY <2>4, <2>8 DEF MessageInv, AcknowledgedIsRetired
<1>4. CASE ~(Len(text) < msg_cont_size)
  <2>1. /\ stage' = "unterminated" /\ result' = result
    BY <1>1, <1>4 DEF PrepareMessage, StoredMessage
  <2>2. size > 111
    BY <1>2, <1>4 DEF msg_cont_size
  <2>3. MessageIsSent'
    BY <1>1, <2>1, <2>2 DEF MessageIsSent, StoredMessage
  <2> QED
    BY <2>1, <2>3 DEF MessageInv, AcknowledgedIsRetired
<1> QED
  BY <1>3, <1>4

LEMMA RetireKeeps ==
  ASSUME CodeSizes, MessageInv, NEW dev_digits \in 1 .. 3, RetireMessage(dev_digits)
  PROVE  MessageInv'
<1> DEFINE m == result.message
           fits == UpdateLength(Len(StoredText(m)), dev_digits) < db_query_size
<1>1. /\ stage = "prepared" /\ result' = result
      /\ stage' = IF fits THEN "retired" ELSE "update_cut"
  BY DEF RetireMessage
<1>2. m \in ByteStrings
  BY <1>1 DEF MessageInv
<1>3. UpdateLength(Len(StoredText(m)), dev_digits) = 86 + dev_digits + 4 * Groups(Len(m))
  BY <1>2, LengthFacts DEF UpdateLength, CodeSizes
<1>4. /\ fits => Len(m) <= 84
      /\ ~fits => Len(m) > 81
  <2>1. /\ Len(m) \in Nat /\ Groups(Len(m)) \in Nat
        /\ Len(m) <= 3 * Groups(Len(m)) /\ 3 * Groups(Len(m)) <= Len(m) + 2
    BY <1>2, LengthFacts
  <2>2. fits <=> 86 + dev_digits + 4 * Groups(Len(m)) < 200
    BY <1>3 DEF db_query_size
  <2> HIDE DEF m, fits
  <2> QED
    BY <2>1, <2>2
<1> HIDE DEF m, fits
<1>5. AcknowledgedIsRetired'
  BY <1>1, <1>4 DEF AcknowledgedIsRetired, m
<1> QED
  BY <1>1, <1>5 DEF MessageInv, MessageIsSent

LEMMA NextMessageInv ==
  ASSUME CodeSizes, MessagesOfBytes, MessageInv, [Next]_vars
  PROVE  MessageInv'
<1> USE DEF MessageInv, MessageIsSent, AcknowledgedIsRetired
<1>1. ASSUME NEW n \in PayloadLengths8, Encode(n) PROVE MessageInv'
  BY <1>1 DEF Encode
<1>2. ASSUME NEW n \in NoiseLengths, Noise(n) PROVE MessageInv'
  BY <1>2 DEF Noise
<1>3. CASE recv_gcom_ch
  BY <1>3 DEF recv_gcom_ch
<1>4. CASE Decode
  BY <1>4 DEF Decode
<1>5. ASSUME NEW n \in AnswerLengths, Answer(n) PROVE MessageInv'
  BY <1>5 DEF Answer
<1>6. ASSUME NEW n \in ReadLengths \cup {length}, Read(n) PROVE MessageInv'
  BY <1>6 DEF Read
<1>7. CASE DecodeAnswer
  <2>1. stage' \in {"rejected", "answer_overrun", "copy_overrun", "accepted"}
    BY <1>7 DEF DecodeAnswer
  <2> QED
    BY <2>1
<1>8. ASSUME NEW m \in Messages, StoreMessage(m) PROVE MessageInv'
  <2>1. m \in ByteStrings /\ stage' = "stored" /\ StoredMessage(m)'
    BY <1>8 DEF StoreMessage, StoredMessage, MessagesOfBytes
  <2> QED
    BY <2>1
<1>9. CASE UNCHANGED vars
  BY <1>9 DEF vars, StoredMessage
<1> QED
  BY <1>1, <1>2, <1>3, <1>4, <1>5, <1>6, <1>7, <1>8, <1>9, PrepareKeeps, RetireKeeps DEF Next

LEMMA InitMessageInv == Init => MessageInv
  BY DEF Init, MessageInv, MessageIsSent, AcknowledgedIsRetired

(* Every message of up to 111 bytes is sent as the platform stored it,     *)
(* followed by one byte for each padding of its text.                      *)
THEOREM MessagesAreSent ==
  ASSUME CodeSizes, MessagesOfBytes
  PROVE  Spec => []MessageIsSent
<1>1. Init => MessageInv
  BY InitMessageInv
<1>2. MessageInv /\ [Next]_vars => MessageInv'
  BY NextMessageInv
<1>3. MessageInv => MessageIsSent
  BY DEF MessageInv
<1> QED
  BY <1>1, <1>2, <1>3, PTL DEF Spec

(* A message of up to 81 bytes is retired once it is acknowledged, one of  *)
(* more than 84 never.                                                     *)
THEOREM AcknowledgedAreRetired ==
  ASSUME CodeSizes, MessagesOfBytes
  PROVE  Spec => []AcknowledgedIsRetired
<1>1. Init => MessageInv
  BY InitMessageInv
<1>2. MessageInv /\ [Next]_vars => MessageInv'
  BY NextMessageInv
<1>3. MessageInv => AcknowledgedIsRetired
  BY DEF MessageInv
<1> QED
  BY <1>1, <1>2, <1>3, PTL DEF Spec

-----------------------------------------------------------------------------
(* The report of the manager. *)

(* The longest entry: an app_key of 8 characters, a device number of 3, a  *)
(* count of 20, two separators and the bar.                                *)
LongestEntry == 34

Sizes == GW_MNGR_BUF_LEN >= 1024 /\ GW_MNGR_QBUF_LEN >= GW_MNGR_BUF_LEN + 112

ReportInv ==
  /\ report \in {"flush", "overrun", "printed", "truncated"}
  /\ entries \in Nat /\ written \in Nat
  /\ errors \in Nat /\ time \in Nat
  /\ written <= LongestEntry * entries
  /\ report = "overrun" => written >= GW_MNGR_BUF_LEN
  /\ report # "overrun" => written < GW_MNGR_BUF_LEN
  /\ report = "truncated" => QueryLength(errors, time) >= GW_MNGR_QBUF_LEN

LEMMA EntryBounded ==
  ASSUME NEW key \in KeyLengths, NEW dev \in 1 .. 3, NEW num \in CountDigits
  PROVE  EntryLength(key, dev, num) \in 1 .. LongestEntry
<1>1. key \in 0 .. 8 /\ num \in 1 .. 20
  BY ReportAssumption
<1> QED
  BY <1>1 DEF EntryLength, LongestEntry

LEMMA InitReportInv == Sizes /\ ReportInit => ReportInv
  BY ReportAssumption DEF Sizes, ReportInit, ReportInv, LongestEntry

LEMMA NextReportInv == ReportInv /\ [ReportNext]_reportVars => ReportInv'
<1> SUFFICES ASSUME ReportInv, [ReportNext]_reportVars PROVE ReportInv'
  OBVIOUS
<1>1. GW_MNGR_BUF_LEN \in Nat /\ GW_MNGR_QBUF_LEN \in Nat
  BY ReportAssumption
<1>2. ASSUME NEW key \in KeyLengths, NEW dev \in 1 .. 3, NEW num \in CountDigits,
             AppendEntry(key, dev, num)
      PROVE  ReportInv'
  <2> DEFINE added == EntryLength(key, dev, num)
  <2>1. added \in 1 .. LongestEntry
    BY EntryBounded
  <2>2. /\ entries' = entries + 1 /\ written' = written + added
        /\ errors' = errors /\ time' = time
        /\ report' = IF written' < GW_MNGR_BUF_LEN THEN "flush" ELSE "overrun"
    BY <1>2 DEF AppendEntry
  <2> HIDE DEF added
  <2> QED
    BY <1>1, <2>1, <2>2 DEF ReportInv, LongestEntry
<1>3. ASSUME NEW e \in ErrorsDigits, NEW t \in TimeLengths, PrintQuery(e, t)
      PROVE  ReportInv'
  <2>1. e \in Nat /\ t \in Nat
    BY ReportAssumption
  <2>2. /\ entries' = entries /\ written' = written /\ errors' = e /\ time' = t
        /\ report = "flush" /\ report' \in {"printed", "truncated"}
        /\ report' = "truncated" => ~(QueryLength(e, t) < GW_MNGR_QBUF_LEN)
    BY <1>3 DEF PrintQuery, QueryFits
  <2>3. QueryLength(e, t) \in Nat /\ QueryLength(errors, time)' = QueryLength(e, t)
    BY <2>1, <2>2 DEF ReportInv, QueryLength, QueryText, IdLength
  <2> QED
    BY <1>1, <2>1, <2>2, <2>3 DEF ReportInv
<1>4. CASE UNCHANGED reportVars
  BY <1>4 DEF reportVars, ReportInv, QueryLength
<1> QED
  BY <1>2, <1>3, <1>4 DEF ReportNext

(* The report of up to thirty devices stays within its 1024 bytes, however *)
(* long the keys and numbers in it are, and one that does is cut off in    *)
(* the query only when errors_count and the time have more than 19         *)
(* characters.                                                             *)
THEOREM ReportsFit ==
  ASSUME Sizes
  PROVE  ReportSpec => []ReportFits
<1>1. ReportInv => ReportFits
  <2> SUFFICES ASSUME ReportInv PROVE ReportFits
    OBVIOUS
  <2>1. report = "overrun" => entries > 30
    BY ReportAssumption DEF Sizes, ReportInv, LongestEntry
  <2>2. QueryLength(errors, time) = 93 + errors + time + written
    BY DEF ReportInv, QueryLength, QueryText, IdLength
  <2>3. report = "truncated" => errors + time > 19
    BY <2>2, ReportAssumption DEF Sizes, ReportInv
  <2> QED
    BY <2>1, <2>3 DEF ReportFits
<1>2. ReportInit => ReportInv
  BY InitReportInv
<1> QED
  BY <1>1, <1>2, NextReportInv, PTL DEF ReportSpec

-----------------------------------------------------------------------------
(* The configuration. *)

LEMMA MinIsLeast ==
  ASSUME NEW S, NEW x \in S, \A y \in S : x =< y
  PROVE  Min(S) \in S /\ \A y \in S : Min(S) =< y
  BY Zenon DEF Min

Less == {ss \in Nat \X Nat : ss[1] < ss[2]}

LEMMA LessIsWellFounded == IsWellFoundedOn(Less, Nat)
  BY NatLessThanWellFounded, Zenon DEF OpToRel, Less

LEMMA MinFacts ==
  ASSUME NEW S \in SUBSET Nat, S # {}
  PROVE  Min(S) \in S /\ \A y \in S : Min(S) =< y
<1>1. PICK x \in S : \A y \in S : <<y, x>> \notin Less
  BY LessIsWellFounded, WFMin
<1>2. ASSUME NEW y \in S, y < x PROVE FALSE
  <2>1. <<y, x>> \in Nat \X Nat
    OBVIOUS
  <2>2. <<y, x>> \in Less
    BY <1>2, <2>1 DEF Less
  <2> QED
    BY <1>1, <2>2
<1>3. \A y \in S : x =< y
  BY <1>2
<1> QED
  BY <1>3, MinIsLeast

(* A field of so many bytes from offset on, with the text of a member in   *)
(* it.                                                                     *)
Holds(d, offset, width, member) ==
  \A i \in 1 .. width : d[offset + i] = IF i <= member.size THEN Char(member, i) ELSE Nul

NoText(cell) == cell \in {Nul, Stray}

(* The bytes of dynamic_conf_t once it has been filled from six members.   *)
StructOf(d, file) ==
  /\ HasCells(d, 120)
  /\ Holds(d, 0, 16, file[1])
  /\ Holds(d, 18, 32, file[3])
  /\ Holds(d, 50, 32, file[4])
  /\ Holds(d, 82, 32, file[5])
  /\ NoText(d[17]) /\ NoText(d[115])
  /\ d[120] = Nul

LEMMA StrncpyCells ==
  ASSUME NEW member, NEW size \in Nat
  PROVE  /\ HasCells(strncpy(member, size), size)
         /\ Holds(strncpy(member, size), 0, size, member)
  BY DEF strncpy, HasCells, Holds

LEMMA StoredCells ==
  ASSUME NEW number \in Nat, NEW bytes \in Nat
  PROVE  /\ HasCells(Stored(number, bytes), bytes)
         /\ \A i \in 1 .. bytes : NoText(Stored(number, bytes)[i])
  BY DEF Stored, HasCells, NoText

LEMMA StoredHigh ==
  ASSUME NEW number \in 0 .. 2^24 - 1
  PROVE  Stored(number, 4)[4] = Nul
<1>1. (number \div 256^(4 - 1)) % 256 = 0
  OBVIOUS
<1> QED
  BY <1>1 DEF Stored

(* A field that is followed by others, and one that follows others.        *)
LEMMA HoldsInFront ==
  ASSUME NEW p, NEW q, NEW r, NEW m \in Nat, NEW n \in Nat, Joined(r, p, m, q, n),
         NEW offset \in Nat, NEW width \in Nat, offset + width <= m,
         NEW member, Holds(p, offset, width, member)
  PROVE  Holds(r, offset, width, member)
  BY DEF Joined, Holds

LEMMA HoldsBehind ==
  ASSUME NEW p, NEW q, NEW r, NEW m \in Nat, NEW n \in Nat, Joined(r, p, m, q, n),
         NEW member, Holds(q, 0, n, member)
  PROVE  Holds(r, m, n, member)
  BY DEF Joined, Holds

LEMMA FilledStruct ==
  ASSUME NEW file,
         file[2].number \in Nat, AsInteger(file[6]) \in 0 .. 2^24 - 1,
         NEW padding \in {<<Nul, Nul>>, <<Stray, Nul>>, <<Stray, Stray>>}
  PROVE  StructOf(strncpy(file[1], 16) \o Stored(file[2].number, 2)
                  \o strncpy(file[3], 32) \o strncpy(file[4], 32) \o strncpy(file[5], 32)
                  \o padding \o Stored(AsInteger(file[6]), 4), file)
<1> DEFINE addr   == strncpy(file[1], 16)
           port   == Stored(file[2].number, 2)
           name   == strncpy(file[3], 32)
           user   == strncpy(file[4], 32)
           pass   == strncpy(file[5], 32)
           period == Stored(AsInteger(file[6]), 4)
           d1 == addr \o port
           d2 == d1 \o name
           d3 == d2 \o user
           d4 == d3 \o pass
           d5 == d4 \o padding
           d6 == d5 \o period
<1>1. HasCells(addr, 16) /\ Holds(addr, 0, 16, file[1])
  BY StrncpyCells
<1>2. HasCells(port, 2) /\ NoText(port[1])
  BY StoredCells
<1>3. HasCells(name, 32) /\ Holds(name, 0, 32, file[3])
  BY StrncpyCells
<1>4. HasCells(user, 32) /\ Holds(user, 0, 32, file[4])
  BY StrncpyCells
<1>5. HasCells(pass, 32) /\ Holds(pass, 0, 32, file[5])
  BY StrncpyCells
<1>6. HasCells(padding, 2) /\ NoText(padding[1])
  BY DEF HasCells, NoText
<1>7. HasCells(period, 4) /\ period[4] = Nul
  <2> DEFINE number == AsInteger(file[6])
  <2>1. number \in 0 .. 2^24 - 1
    OBVIOUS
  <2> HIDE DEF number
  <2>2. number \in Nat
    BY <2>1
  <2>3. HasCells(Stored(number, 4), 4)
    BY <2>2, StoredCells
  <2>4. Stored(number, 4)[4] = Nul
    BY <2>1, StoredHigh
  <2> QED
    BY <2>3, <2>4 DEF number
<1> HIDE DEF addr, port, name, user, pass, period
<1>8. Joined(d1, addr, 16, port, 2)
  BY <1>1, <1>2, JoinedCells
<1>9. HasCells(d1, 18)
  BY <1>8 DEF Joined
<1> HIDE DEF d1
<1>10. Joined(d2, d1, 18, name, 32)
  BY <1>3, <1>9, JoinedCells
<1>11. HasCells(d2, 50)
  BY <1>10 DEF Joined
<1> HIDE DEF d2
<1>12. Joined(d3, d2, 50, user, 32)
  BY <1>4, <1>11, JoinedCells
<1>13. HasCells(d3, 82)
  BY <1>12 DEF Joined
<1> HIDE DEF d3
<1>14. Joined(d4, d3, 82, pass, 32)
  BY <1>5, <1>13, JoinedCells
<1>15. HasCells(d4, 114)
  BY <1>14 DEF Joined
<1> HIDE DEF d4
<1>16. Joined(d5, d4, 114, padding, 2)
  BY <1>6, <1>15, JoinedCells
<1>17. HasCells(d5, 116)
  BY <1>16 DEF Joined
<1> HIDE DEF d5
<1>18. Joined(d6, d5, 116, period, 4)
  BY <1>7, <1>17, JoinedCells
<1>19. HasCells(d6, 120)
  BY <1>18 DEF Joined
<1> HIDE DEF d6
<1>20. Holds(d6, 0, 16, file[1])
  BY <1>1, <1>8, <1>10, <1>12, <1>14, <1>16, <1>18, HoldsInFront
<1>21. Holds(d6, 18, 32, file[3])
  BY <1>3, <1>10, <1>12, <1>14, <1>16, <1>18, HoldsInFront, HoldsBehind
<1>22. Holds(d6, 50, 32, file[4])
  BY <1>4, <1>12, <1>14, <1>16, <1>18, HoldsInFront, HoldsBehind
<1>23. Holds(d6, 82, 32, file[5])
  BY <1>5, <1>14, <1>16, <1>18, HoldsInFront, HoldsBehind
<1>24. d6[17] = port[1]
  BY <1>8, <1>10, <1>12, <1>14, <1>16, <1>18 DEF Joined
<1>25. d6[115] = padding[1]
  BY <1>16, <1>18 DEF Joined
<1>26. d6[120] = period[4]
  BY <1>18 DEF Joined
<1> QED
  BY <1>2, <1>6, <1>7, <1>19, <1>20, <1>21, <1>22, <1>23, <1>24, <1>25, <1>26
  DEF StructOf, addr, port, name, user, pass, period, d1, d2, d3, d4, d5, d6

(* t is what %s prints from offset on.                                     *)
Reads(t, d, offset, end) ==
  /\ d[end] = Nul
  /\ \A i \in offset + 1 .. end - 1 : d[i] # Nul
  /\ HasCells(t, end - 1 - offset)
  /\ \A i \in 1 .. end - 1 - offset : t[i] = d[offset + i]

LEMMA StringAtReads ==
  ASSUME HasCells(dyn_conf, 120), dyn_conf[120] = Nul, NEW offset \in 0 .. 119
  PROVE  \E end \in offset + 1 .. 120 : Reads(StringAt(offset), dyn_conf, offset, end)
<1> DEFINE ends == {i \in offset + 1 .. 120 : dyn_conf[i] = Nul}
           end  == Min(ends)
           t    == SubSeq(dyn_conf, offset + 1, end - 1)
<1>1. Len(dyn_conf) = 120
  BY CellsAreSeq
<1>2. StringAt(offset) = t
  BY <1>1 DEF StringAt
<1>3. 120 \in ends /\ ends \in SUBSET Nat
  OBVIOUS
<1>4. end \in ends /\ \A y \in ends : end =< y
  <2> HIDE DEF ends
  <2> QED
    BY <1>3, MinFacts
<1> HIDE DEF end
<1>5. end \in offset + 1 .. 120 /\ dyn_conf[end] = Nul
  BY <1>4
<1>6. \A i \in offset + 1 .. end - 1 : dyn_conf[i] # Nul
  BY <1>4, <1>5
<1> HIDE DEF ends
<1>7. Cut(t, dyn_conf, offset + 1, end - 1)
  <2>1. offset + 1 \in 1 .. 120 + 1 /\ end - 1 \in (offset + 1) - 1 .. 120
    BY <1>5
  <2> QED
    BY <2>1, CutCells
<1> HIDE DEF t
<1>8. (end - 1) - (offset + 1) + 1 = end - 1 - offset
  BY <1>5
<1>9. HasCells(t, end - 1 - offset)
  BY <1>7, <1>8 DEF Cut
<1>10. \A i \in 1 .. end - 1 - offset : t[i] = dyn_conf[offset + i]
  <2> SUFFICES ASSUME NEW i \in 1 .. end - 1 - offset PROVE t[i] = dyn_conf[offset + i]
    OBVIOUS
  <2>1. t[i] = dyn_conf[(offset + 1) + i - 1]
    BY <1>7, <1>8 DEF Cut
  <2>2. (offset + 1) + i - 1 = offset + i
    BY <1>5
  <2> QED
    BY <2>1, <2>2
<1>11. Reads(t, dyn_conf, offset, end)
  BY <1>5, <1>6, <1>9, <1>10 DEF Reads
<1> QED
  BY <1>2, <1>5, <1>11

Spells(t, name, size) == t = [i \in 1 .. size |-> <<name, i>>]

(* A text that is shorter than its field is read to its end, another one   *)
(* begins as it does.                                                      *)
BeginsAs(t, member) == t[1] = Char(member, 1)

IsTextOf(t, member) == HasCells(t, member.size) /\ \A i \in 1 .. member.size : t[i] = Char(member, i)

LEMMA FieldIsRead ==
  ASSUME NEW t, NEW d, NEW offset \in 0 .. 119, NEW end \in offset + 1 .. 120,
         Reads(t, d, offset, end), NEW width \in Nat \ {0},
         NEW member, member.size \in Nat \ {0}, Holds(d, offset, width, member)
  PROVE  /\ Len(t) \in 1 .. 119 - offset
         /\ BeginsAs(t, member)
         /\ member.size < width => IsTextOf(t, member)
<1>1. \A i \in 1 .. width : i <= member.size => d[offset + i] = Char(member, i) /\ d[offset + i] # Nul
  <2> SUFFICES ASSUME NEW i \in 1 .. width, i <= member.size
               PROVE  d[offset + i] = Char(member, i) /\ d[offset + i] # Nul
    OBVIOUS
  <2>1. d[offset + i] = Char(member, i)
    BY DEF Holds
  <2>2. Char(member, i)[2] = i /\ Nul[2] = 0
    BY DEF Char, Nul
  <2>3. i # 0
    OBVIOUS
  <2> QED
    BY <2>1, <2>2, <2>3
<1>2. \A i \in 1 .. width : ~(i <= member.size) => d[offset + i] = Nul
  BY DEF Holds
<1>3. Len(t) = end - 1 - offset
  BY CellsAreSeq DEF Reads
<1>4. d[end] = Nul /\ end = offset + (end - offset) /\ end - offset \in 1 .. 120
  BY DEF Reads
<1>5. end - offset > 1
  <2>1. d[offset + 1] # Nul
    BY <1>1
  <2> QED
    BY <1>4, <2>1
<1>6. t[1] = d[offset + 1]
  BY <1>5 DEF Reads
<1>7. ASSUME member.size < width PROVE IsTextOf(t, member)
  <2>1. d[offset + (member.size + 1)] = Nul /\ member.size + 1 \in 1 .. width
    BY <1>2, <1>7
  <2>2. end - offset <= member.size + 1
    <3> SUFFICES ASSUME end - offset > member.size + 1 PROVE FALSE
      BY <1>4
    <3>1. offset + (member.size + 1) \in offset + 1 .. end - 1
      BY <1>4
    <3> QED
      BY <2>1, <3>1 DEF Reads
  <2>3. ~(end - offset <= member.size)
    BY <1>1, <1>4, <1>7
  <2>4. end - 1 - offset = member.size
    BY <1>4, <2>2, <2>3
  <2>5. HasCells(t, member.size) /\ \A i \in 1 .. member.size : t[i] = d[offset + i]
    BY <2>4 DEF Reads
  <2> QED
    BY <1>1, <1>7, <2>5 DEF IsTextOf
<1> QED
  BY <1>1, <1>3, <1>4, <1>5, <1>6, <1>7 DEF BeginsAs

(* The text of a member that is longer than its field goes on with         *)
(* characters that are not its own.                                        *)
Leaves(d, offset, width) ==
  \E other, k : d[offset + (width + 1)] = <<other, k>> /\ k # width + 1

LEMMA FieldIsLeft ==
  ASSUME NEW t, NEW d, NEW offset \in 0 .. 119, NEW end \in offset + 1 .. 120,
         Reads(t, d, offset, end), NEW width \in Nat,
         NEW name, NEW size \in Nat, Spells(t, name, size),
         Leaves(d, offset, width)
  PROVE  size <= width
<1> SUFFICES ASSUME size > width PROVE FALSE
  OBVIOUS
<1>1. HasCells(t, size)
  BY DEF HasCells, Spells
<1>2. size = end - 1 - offset
  BY <1>1, CellsAreSeq DEF Reads
<1>3. t[width + 1] = <<name, width + 1>>
  BY DEF Spells
<1>4. t[width + 1] = d[offset + (width + 1)]
  BY <1>2 DEF Reads
<1>5. t[width + 1][2] # width + 1
  BY <1>4 DEF Leaves
<1> QED
  BY <1>3, <1>5

-----------------------------------------------------------------------------
(* Files as they may come from the platform: no name twice, six members    *)
(* have the names of the shipped file, no text is empty.  The period may   *)
(* stand in quotes, but then it is not the number of the port: with both   *)
(* exchanged the gateway would connect rightly.                            *)
MemberNames == DOMAIN Shipped \cup {"telemetry_send_freq"}

ConfFile(file) ==
  /\ \A i, j \in DOMAIN file : file[i].name = file[j].name => i = j
  /\ 6 \in DOMAIN file => \A name \in MemberNames : \E i \in 1 .. 6 : file[i].name = name
  /\ \A i \in DOMAIN file : file[i].kind = "string" => file[i].size # 0
  /\ \A i, j \in DOMAIN file :
       /\ file[i].name = "telemetry_send_freq" /\ file[i].kind = "string"
       /\ file[j].name = "db_port"
       => file[i].number % 2^16 # file[j].number

ConfFiles == \A file \in Files : ConfFile(file)

WholeFile == (\A i \in 1 .. 5 : IsText(i)) /\ 6 \in DOMAIN members

Printed ==
  /\ conninfo.port = members[2].number % 2^16
  /\ \A field \in Texts : conninfo.texts[field] = StringAt(Offset(field))

ConfInv ==
  /\ read # "cut"
  /\ read \in {"parsed", "processed", "printed"} => members \in Files
  /\ read \in {"processed", "printed"} => WholeFile /\ StructOf(dyn_conf, members)
  /\ read = "printed" => Printed

LEMMA OffsetFacts ==
  /\ Offset("db_address") = 0 /\ Offset("db_name") = 18
  /\ Offset("username") = 50 /\ Offset("password") = 82
  BY DEF Offset, FieldSize

LEMMA ShippedFacts ==
  /\ AsShipped <=> /\ members[1].name = "db_address" /\ members[2].name = "db_port"
                   /\ members[3].name = "db_name" /\ members[4].name = "username"
                   /\ members[5].name = "password"
  /\ MemberNames = {"db_address", "db_port", "db_name", "username", "password",
                    "telemetry_send_freq"}
  BY DEF AsShipped, Shipped, MemberNames

LEMMA MembersFacts ==
  ASSUME ConfFiles, members \in Files, WholeFile
  PROVE  /\ ConfFile(members)
         /\ 1 .. 6 \subseteq DOMAIN members
         /\ \A i \in 1 .. 5 : members[i].kind = "string" /\ members[i].size \in Nat \ {0}
         /\ \A i \in 1 .. 6 : members[i].number \in 0 .. 2^24 - 1 /\ members[i].size \in 0 .. 2^24 - 1
<1>1. ConfFile(members)
  BY DEF ConfFiles
<1>2. \A i \in 1 .. 5 : i \in DOMAIN members /\ members[i].kind = "string"
  BY DEF WholeFile, IsText
<1>3. 1 .. 6 \subseteq DOMAIN members
  <2>1. \A i \in 1 .. 6 : i \in 1 .. 5 \/ i = 6
    OBVIOUS
  <2> QED
    BY <1>2, <2>1 DEF WholeFile
<1>4. \A i \in 1 .. 6 : members[i].number \in 0 .. 2^24 - 1 /\ members[i].size \in 0 .. 2^24 - 1
  BY <1>3, ConfigurationAssumption
<1>5. \A n \in 0 .. 2^24 - 1 : n \in Nat
  OBVIOUS
<1>6. \A i \in 1 .. 5 : i \in 1 .. 6 /\ members[i].size # 0
  BY <1>1, <1>2 DEF ConfFile
<1> QED
  BY <1>1, <1>2, <1>3, <1>4, <1>5, <1>6

LEMMA NamedFacts ==
  ASSUME ConfFile(members), NEW i \in DOMAIN members
  PROVE  Named(members[i].name) = i
<1>1. \A j \in DOMAIN members : members[j].name = members[i].name => j = i
  BY DEF ConfFile
<1> QED
  BY <1>1, Zenon DEF Named

(* What is printed for a field, with the text of member k.                 *)
FieldPrinted(t, offset, width, k) ==
  /\ Len(t) \in 1 .. 119 - offset
  /\ BeginsAs(t, members[k])
  /\ members[k].size < width => IsTextOf(t, members[k])
  /\ \A name : \A size \in Nat : Spells(t, name, size) => size <= width

LEMMA FieldPrints ==
  ASSUME HasCells(dyn_conf, 120), dyn_conf[120] = Nul,
         NEW offset \in 0 .. 119, NEW width \in Nat \ {0}, NEW k,
         members[k].size \in Nat \ {0}, Holds(dyn_conf, offset, width, members[k]),
         Leaves(dyn_conf, offset, width)
  PROVE  FieldPrinted(StringAt(offset), offset, width, k)
<1> DEFINE t == StringAt(offset)
<1>1. PICK end \in offset + 1 .. 120 : Reads(t, dyn_conf, offset, end)
  BY StringAtReads
<1> HIDE DEF t
<1>2. Len(t) \in 1 .. 119 - offset
  BY <1>1, FieldIsRead
<1>0. BeginsAs(t, members[k])
  BY <1>1, FieldIsRead
<1>3. members[k].size < width => IsTextOf(t, members[k])
  BY <1>1, FieldIsRead
<1>4. \A name : \A size \in Nat : Spells(t, name, size) => size <= width
  <2> SUFFICES ASSUME NEW name, NEW size \in Nat, Spells(t, name, size)
               PROVE  size <= width
    OBVIOUS
  <2> QED
    BY <1>1, FieldIsLeft
<1> QED
  BY <1>0, <1>2, <1>3, <1>4 DEF FieldPrinted, t

LEMMA PrintedFields ==
  ASSUME ConfFiles, members \in Files, WholeFile, StructOf(dyn_conf, members)
  PROVE  /\ FieldPrinted(StringAt(Offset("db_address")), 0, 16, 1)
         /\ FieldPrinted(StringAt(Offset("db_name")), 18, 32, 3)
         /\ FieldPrinted(StringAt(Offset("username")), 50, 32, 4)
         /\ FieldPrinted(StringAt(Offset("password")), 82, 32, 5)
<1>1. HasCells(dyn_conf, 120) /\ dyn_conf[120] = Nul
  BY DEF StructOf
<1>2. \A k \in {1, 3, 4, 5} : members[k].size \in Nat \ {0}
  <2>1. \A k \in {1, 3, 4, 5} : k \in 1 .. 5
    OBVIOUS
  <2> QED
    BY <2>1, MembersFacts
<1>3. /\ Holds(dyn_conf, 0, 16, members[1]) /\ Holds(dyn_conf, 18, 32, members[3])
      /\ Holds(dyn_conf, 50, 32, members[4]) /\ Holds(dyn_conf, 82, 32, members[5])
  BY DEF StructOf
<1>4. \E other : dyn_conf[0 + (16 + 1)] = <<other, 0>>
  BY DEF StructOf, NoText, Nul, Stray
<1>5. \E other : dyn_conf[82 + (32 + 1)] = <<other, 0>>
  BY DEF StructOf, NoText, Nul, Stray
<1>6. \E other : dyn_conf[18 + (32 + 1)] = <<other, 1>>
  <2>1. dyn_conf[50 + 1] = Char(members[4], 1)
    BY <1>2, <1>3 DEF Holds
  <2> QED
    BY <2>1 DEF Char
<1>7. \E other : dyn_conf[50 + (32 + 1)] = <<other, 1>>
  <2>1. dyn_conf[82 + 1] = Char(members[5], 1)
    BY <1>2, <1>3 DEF Holds
  <2> QED
    BY <2>1 DEF Char
<1>8. FieldPrinted(StringAt(0), 0, 16, 1)
  <2>1. Leaves(dyn_conf, 0, 16)
    BY <1>4 DEF Leaves
  <2> QED
    BY <1>1, <1>2, <1>3, <2>1, FieldPrints
<1>9. FieldPrinted(StringAt(18), 18, 32, 3)
  <2>1. Leaves(dyn_conf, 18, 32)
    BY <1>6 DEF Leaves
  <2> QED
    BY <1>1, <1>2, <1>3, <2>1, FieldPrints
<1>10. FieldPrinted(StringAt(50), 50, 32, 4)
  <2>1. Leaves(dyn_conf, 50, 32)
    BY <1>7 DEF Leaves
  <2> QED
    BY <1>1, <1>2, <1>3, <2>1, FieldPrints
<1>11. FieldPrinted(StringAt(82), 82, 32, 5)
  <2>1. Leaves(dyn_conf, 82, 32)
    BY <1>5 DEF Leaves
  <2> QED
    BY <1>1, <1>2, <1>3, <2>1, FieldPrints
<1> QED
  BY <1>8, <1>9, <1>10, <1>11, OffsetFacts

(* The text of a field is the right one.                                   *)
RightText(field, t) == Spells(t, field, members[Named(field)].size)

RightPort == members[2].number % 2^16 = members[Named("db_port")].number

LEMMA RightFacts ==
  ASSUME Printed
  PROVE  Right <=> /\ RightPort
                   /\ RightText("db_address", StringAt(Offset("db_address")))
                   /\ RightText("db_name", StringAt(Offset("db_name")))
                   /\ RightText("username", StringAt(Offset("username")))
                   /\ RightText("password", StringAt(Offset("password")))
  BY DEF Printed, Right, RightText, RightPort, Texts, Spells

LEMMA ShippedIsRight ==
  ASSUME ConfFile(members), NEW k \in DOMAIN members, members[k].size \in Nat,
         NEW t, NEW offset, NEW width, FieldPrinted(t, offset, width, k), members[k].size < width
  PROVE  RightText(members[k].name, t)
<1>1. IsTextOf(t, members[k])
  BY DEF FieldPrinted
<1>2. Named(members[k].name) = k
  BY NamedFacts
<1>3. Spells(t, members[k].name, members[k].size)
  BY <1>1 DEF IsTextOf, HasCells, Char, Spells
<1> QED
  BY <1>2, <1>3 DEF RightText

LEMMA RightIsShipped ==
  ASSUME ConfFile(members), 6 \in DOMAIN members, 1 .. 6 \subseteq DOMAIN members,
         \A i \in 1 .. 6 : members[i].size \in Nat,
         NEW field \in MemberNames, NEW k \in 1 .. 6,
         NEW t, NEW offset, NEW width \in Nat, FieldPrinted(t, offset, width, k),
         offset \in 0 .. 119,
         RightText(field, t)
  PROVE  members[k].name = field /\ members[k].size <= width
<1>1. PICK j \in 1 .. 6 : members[j].name = field
  BY DEF ConfFile
<1>2. Named(field) = j
  <2>1. j \in DOMAIN members
    OBVIOUS
  <2> QED
    BY <1>1, <2>1, NamedFacts
<1>3. Spells(t, field, members[j].size)
  BY <1>2 DEF RightText
<1>4. members[j].size <= width
  BY <1>3 DEF FieldPrinted
<1>5. Len(t) = members[j].size
  <2>1. HasCells(t, members[j].size)
    BY <1>3 DEF HasCells, Spells
  <2> QED
    BY <2>1, CellsAreSeq
<1>6. t[1] = <<field, 1>>
  <2>1. 1 \in 1 .. members[j].size
    BY <1>5 DEF FieldPrinted
  <2> QED
    BY <1>3, <2>1 DEF Spells
<1>7. members[k].name = field
  BY <1>6 DEF FieldPrinted, BeginsAs, Char
<1>8. j = k
  BY <1>1, <1>7 DEF ConfFile
<1> QED
  BY <1>4, <1>7, <1>8

(* Where the texts are right, a port of its own number can only be second. *)
LEMMA PortIsSecond ==
  ASSUME ConfFile(members), WholeFile, 1 .. 6 \subseteq DOMAIN members, RightPort,
         members[1].name = "db_address", members[3].name = "db_name",
         members[4].name = "username", members[5].name = "password"
  PROVE  members[2].name = "db_port"
<1>1. PICK i \in 1 .. 6 : members[i].name = "db_port"
  <2>1. 6 \in DOMAIN members /\ "db_port" \in MemberNames
    BY ShippedFacts DEF WholeFile
  <2> QED
    BY <2>1 DEF ConfFile
<1>2. PICK j \in 1 .. 6 : members[j].name = "telemetry_send_freq"
  <2>1. 6 \in DOMAIN members /\ "telemetry_send_freq" \in MemberNames
    BY ShippedFacts DEF WholeFile
  <2> QED
    BY <2>1 DEF ConfFile
<1>3. i \in {2, 6} /\ j \in {2, 6} /\ i # j
  BY <1>1, <1>2
<1>4. i # 6
  <2> SUFFICES ASSUME i = 6 PROVE FALSE
    OBVIOUS
  <2>1. j = 2
    BY <1>3
  <2>2. 2 \in 1 .. 5 /\ 2 \in DOMAIN members /\ 6 \in DOMAIN members
    BY DEF WholeFile
  <2>3. members[2].kind = "string"
    BY <2>2 DEF WholeFile, IsText
  <2>4. members[2].number % 2^16 # members[6].number
    BY <1>1, <1>2, <2>1, <2>2, <2>3 DEF ConfFile
  <2>5. Named("db_port") = 6
    BY <1>1, <2>2, NamedFacts
  <2> QED
    BY <2>4, <2>5 DEF RightPort
<1> QED
  BY <1>1, <1>3, <1>4

LEMMA ShippedPort ==
  ASSUME ConfFile(members), 2 \in DOMAIN members, members[2].name = "db_port",
         members[2].number \in Nat, members[2].number < 2^16
  PROVE  RightPort
<1>1. Named("db_port") = 2
  BY NamedFacts
<1> DEFINE n == members[2].number
<1> HIDE DEF n
<1>2. n \in Nat /\ n < 2^16 => n % 2^16 = n
  OBVIOUS
<1> QED
  BY <1>1, <1>2 DEF RightPort, n

LEMMA PrintedConnects ==
  ASSUME ConfFiles, ConfInv
  PROVE  ConnectsAsConfigured
<1> SUFFICES ASSUME read = "printed"
             PROVE  /\ /\ AsShipped
                       /\ members[1].size <= 15 /\ \A i \in 3 .. 5 : members[i].size <= 31
                       /\ members[2].number < 2^16
                       => Right
                    /\ Right =>
                       /\ AsShipped
                       /\ members[1].size <= 16 /\ \A i \in 3 .. 5 : members[i].size <= 32
  BY DEF ConnectsAsConfigured, ConfInv
<1>1. members \in Files /\ WholeFile /\ StructOf(dyn_conf, members) /\ Printed
  BY DEF ConfInv
<1> DEFINE addr == StringAt(Offset("db_address"))
           name == StringAt(Offset("db_name"))
           user == StringAt(Offset("username"))
           pass == StringAt(Offset("password"))
<1>2. /\ FieldPrinted(addr, 0, 16, 1) /\ FieldPrinted(name, 18, 32, 3)
      /\ FieldPrinted(user, 50, 32, 4) /\ FieldPrinted(pass, 82, 32, 5)
  BY <1>1, PrintedFields
<1>3. Right <=> /\ RightPort
                /\ RightText("db_address", addr) /\ RightText("db_name", name)
                /\ RightText("username", user) /\ RightText("password", pass)
  BY <1>1, RightFacts
<1> HIDE DEF addr, name, user, pass
<1>4. /\ ConfFile(members) /\ 6 \in DOMAIN members
      /\ 1 .. 6 \subseteq DOMAIN members
      /\ \A i \in 1 .. 6 : members[i].size \in Nat /\ members[i].number \in Nat
  <2>1. \A n \in 0 .. 2^24 - 1 : n \in Nat
    OBVIOUS
  <2> QED
    BY <1>1, <2>1, MembersFacts DEF WholeFile
<1>5. /\ 1 \in DOMAIN members /\ 2 \in DOMAIN members /\ 3 \in DOMAIN members
      /\ 4 \in DOMAIN members /\ 5 \in DOMAIN members
      /\ members[1].size \in Nat /\ members[2].number \in Nat /\ members[3].size \in Nat
      /\ members[4].size \in Nat /\ members[5].size \in Nat
  BY <1>4
<1>6. ASSUME AsShipped, members[1].size <= 15, \A i \in 3 .. 5 : members[i].size <= 31,
             members[2].number < 2^16
      PROVE  Right
  <2>1. /\ members[1].name = "db_address" /\ members[2].name = "db_port"
        /\ members[3].name = "db_name" /\ members[4].name = "username"
        /\ members[5].name = "password"
    BY <1>6, ShippedFacts
  <2>2. /\ members[1].size < 16 /\ members[3].size < 32 /\ members[4].size < 32
        /\ members[5].size < 32
    BY <1>5, <1>6
  <2>3. RightPort
    BY <1>4, <1>5, <1>6, <2>1, ShippedPort
  <2>4. RightText("db_address", addr)
    BY <1>2, <1>4, <1>5, <2>1, <2>2, ShippedIsRight
  <2>5. RightText("db_name", name)
    BY <1>2, <1>4, <1>5, <2>1, <2>2, ShippedIsRight
  <2>6. RightText("username", user)
    BY <1>2, <1>4, <1>5, <2>1, <2>2, ShippedIsRight
  <2>7. RightText("password", pass)
    BY <1>2, <1>4, <1>5, <2>1, <2>2, ShippedIsRight
  <2> QED
    BY <1>3, <2>3, <2>4, <2>5, <2>6, <2>7
<1>7. ASSUME Right
      PROVE  AsShipped /\ members[1].size <= 16 /\ \A i \in 3 .. 5 : members[i].size <= 32
  <2>0. "db_address" \in MemberNames /\ "db_name" \in MemberNames
        /\ "username" \in MemberNames /\ "password" \in MemberNames
    BY ShippedFacts
  <2>1. members[1].name = "db_address" /\ members[1].size <= 16
    BY <1>2, <1>3, <1>4, <1>7, <2>0, RightIsShipped
  <2>2. members[3].name = "db_name" /\ members[3].size <= 32
    BY <1>2, <1>3, <1>4, <1>7, <2>0, RightIsShipped
  <2>3. members[4].name = "username" /\ members[4].size <= 32
    BY <1>2, <1>3, <1>4, <1>7, <2>0, RightIsShipped
  <2>4. members[5].name = "password" /\ members[5].size <= 32
    BY <1>2, <1>3, <1>4, <1>7, <2>0, RightIsShipped
  <2>5. members[2].name = "db_port"
    BY <1>1, <1>3, <1>4, <1>7, <2>1, <2>2, <2>3, <2>4, PortIsSecond
  <2>6. \A i \in 3 .. 5 : i = 3 \/ i = 4 \/ i = 5
    OBVIOUS
  <2> QED
    BY <2>1, <2>2, <2>3, <2>4, <2>5, <2>6, ShippedFacts
<1> QED
  BY <1>6, <1>7

LEMMA DigitsAreFew ==
  ASSUME NEW n
  PROVE  DecimalDigits(n) \in 0 .. 6
<1> DEFINE places == {d \in 0 .. 5 : n >= 10^d}
<1>1. IsFiniteSet(0 .. 5) /\ Cardinality(0 .. 5) = 6
  <2>1. 0 \in Int /\ 5 \in Int /\ ~(0 > 5) /\ 5 - 0 + 1 = 6
    OBVIOUS
  <2>2. Cardinality(0 .. 5) = IF 0 > 5 THEN 0 ELSE 5 - 0 + 1
    BY <2>1, FS_Interval, Zenon
  <2>3. IsFiniteSet(0 .. 5)
    BY <2>1, FS_Interval, Zenon
  <2> QED
    BY <2>1, <2>2, <2>3
<1>2. places \subseteq 0 .. 5
  OBVIOUS
<1> HIDE DEF places
<1>3. Cardinality(places) \in Nat /\ Cardinality(places) <= 6
  BY <1>1, <1>2, FS_Subset, FS_CardinalityType
<1> QED
  BY <1>3 DEF DecimalDigits, places

LEMMA NextConfInv ==
  ASSUME ConfFiles, ConfInv, [ConfNext]_confVars
  PROVE  ConfInv'
<1>1. ASSUME NEW file \in Files, read_json_conf(file) PROVE ConfInv'
  BY <1>1 DEF read_json_conf, ConfInv
<1>2. CASE process_dynamic_conf
  <2>1. CASE WholeFile
    <3>1. PICK padding \in {<<Nul, Nul>>, <<Stray, Nul>>, <<Stray, Stray>>} :
            dyn_conf' = strncpy(members[1], 16) \o Stored(members[2].number, 2)
                        \o strncpy(members[3], 32) \o strncpy(members[4], 32)
                        \o strncpy(members[5], 32)
                        \o padding \o Stored(AsInteger(members[6]), 4)
      <4>1. /\ FieldSize("db_address") = 16 /\ FieldSize("db_name") = 32
            /\ FieldSize("username") = 32 /\ FieldSize("password") = 32
        BY DEF FieldSize
      <4>2. \E padding \in {<<Nul, Nul>>, <<Stray, Nul>>, <<Stray, Stray>>} :
              dyn_conf' = strncpy(members[1], FieldSize("db_address"))
                          \o Stored(members[2].number, 2)
                          \o strncpy(members[3], FieldSize("db_name"))
                          \o strncpy(members[4], FieldSize("username"))
                          \o strncpy(members[5], FieldSize("password"))
                          \o padding \o Stored(AsInteger(members[6]), 4)
        BY <1>2, <2>1, Zenon DEF process_dynamic_conf, WholeFile
      <4> QED
        BY <4>1, <4>2, Zenon
    <3>2. read = "parsed" /\ read' = "processed" /\ members' = members
      BY <1>2, <2>1 DEF process_dynamic_conf, WholeFile
    <3>3. members \in Files
      BY <3>2 DEF ConfInv
    <3>4. /\ members[2].number \in 0 .. 2^24 - 1
          /\ members[6].number \in 0 .. 2^24 - 1 /\ members[6].size \in 0 .. 2^24 - 1
      <4>1. 2 \in 1 .. 6 /\ 6 \in 1 .. 6
        OBVIOUS
      <4> QED
        BY <2>1, <3>3, <4>1, MembersFacts
    <3>5. members[2].number \in Nat
      BY <3>4
    <3>6. AsInteger(members[6]) \in 0 .. 2^24 - 1
      BY <3>4, Zenon DEF AsInteger
    <3>7. StructOf(dyn_conf', members)
      BY <3>1, <3>5, <3>6, FilledStruct
    <3>8. WholeFile'
      BY <2>1, <3>2 DEF WholeFile, IsText
    <3> QED
      BY <3>2, <3>3, <3>7, <3>8 DEF ConfInv
  <2>2. CASE ~WholeFile
    BY <1>2, <2>2 DEF process_dynamic_conf, WholeFile, ConfInv
  <2> QED
    BY <2>1, <2>2
<1>3. CASE PrintConninfo
  <2> DEFINE texts == [field \in Texts |-> StringAt(Offset(field))]
             port  == members[2].number % 2^16
  <2>1. read = "processed" /\ members' = members /\ dyn_conf' = dyn_conf
    BY <1>3 DEF PrintConninfo
  <2>2. members \in Files /\ WholeFile /\ StructOf(dyn_conf, members)
    BY <2>1 DEF ConfInv
  <2>3. conninfo' = [texts |-> texts, port |-> port]
    BY <1>3 DEF PrintConninfo
  <2>4. /\ texts["db_address"] = StringAt(Offset("db_address"))
        /\ texts["db_name"] = StringAt(Offset("db_name"))
        /\ texts["username"] = StringAt(Offset("username"))
        /\ texts["password"] = StringAt(Offset("password"))
    BY DEF Texts
  <2>5. /\ Len(texts["db_address"]) \in 1 .. 119 /\ Len(texts["db_name"]) \in 1 .. 101
        /\ Len(texts["username"]) \in 1 .. 69 /\ Len(texts["password"]) \in 1 .. 37
    <3> HIDE DEF texts
    <3>1. /\ FieldPrinted(texts["db_address"], 0, 16, 1) /\ FieldPrinted(texts["db_name"], 18, 32, 3)
          /\ FieldPrinted(texts["username"], 50, 32, 4) /\ FieldPrinted(texts["password"], 82, 32, 5)
      BY <2>2, <2>4, PrintedFields
    <3> QED
      BY <3>1 DEF FieldPrinted
  <2>6. read' = IF 39 + DecimalDigits(port) + Len(texts["db_address"]) + Len(texts["db_name"])
                     + Len(texts["username"]) + Len(texts["password"]) < ConninfoSize
                THEN "printed" ELSE "cut"
    BY <1>3 DEF PrintConninfo
  <2>7. read' = "printed"
    <3> HIDE DEF texts, port
    <3>1. DecimalDigits(port) \in 0 .. 6
      BY DigitsAreFew
    <3>2. 39 + DecimalDigits(port) + Len(texts["db_address"]) + Len(texts["db_name"])
            + Len(texts["username"]) + Len(texts["password"]) < 512
      <4> DEFINE k == DecimalDigits(port)
                 a == Len(texts["db_address"])
                 b == Len(texts["db_name"])
                 c == Len(texts["username"])
                 d == Len(texts["password"])
      <4>1. k \in 0 .. 6 /\ a \in 1 .. 119 /\ b \in 1 .. 101 /\ c \in 1 .. 69 /\ d \in 1 .. 37
        BY <2>5, <3>1
      <4> HIDE DEF k, a, b, c, d
      <4>2. 39 + k + a + b + c + d < 512
        BY <4>1
      <4> QED
        BY <4>2 DEF k, a, b, c, d
    <3> QED
      BY <2>6, <3>2, Zenon DEF ConninfoSize
  <2>8. WholeFile' /\ StructOf(dyn_conf', members')
    BY <2>1, <2>2 DEF WholeFile, IsText
  <2>9. Printed'
    BY <2>1, <2>3 DEF Printed, StringAt
  <2> QED
    BY <2>1, <2>2, <2>7, <2>8, <2>9 DEF ConfInv
<1>4. CASE UNCHANGED confVars
  BY <1>4 DEF confVars, ConfInv, WholeFile, IsText, Printed, StringAt
<1> QED
  BY <1>1, <1>2, <1>3, <1>4 DEF ConfNext

(* Whatever lengths the texts of a file have, and in whatever order its    *)
(* members stand: the gateway connects as the file says when they have the *)
(* order of the shipped one and leave their fields a terminator, and never *)
(* in another order or with texts that are longer than their fields; the   *)
(* connection string is never cut off (process_dynamic_conf, main).        *)
THEOREM ConnectsAsTold ==
  ASSUME ConfFiles
  PROVE  ConfSpec => []ConnectsAsConfigured
<1>1. ConfInit => ConfInv
  BY DEF ConfInit, ConfInv
<1>2. ConfInv /\ [ConfNext]_confVars => ConfInv'
  BY NextConfInv
<1>3. ConfInv => ConnectsAsConfigured
  BY PrintedConnects
<1> QED
  BY <1>1, <1>2, <1>3, PTL DEF ConfSpec
=============================================================================
