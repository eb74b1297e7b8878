------------------------------- MODULE Base64 --------------------------------
(***************************************************************************)
(* src/base64.c.  The characters of a text are the digits 0 .. 63 they     *)
(* stand for (base64en and base64de, inverse tables), the padding, and any *)
(* other character.                                                        *)
(***************************************************************************)
EXTENDS Integers, Sequences

Pad == 64
Other == 65    \* such as the end of a line

ByteOf(bytes, k) == IF k <= Len(bytes) THEN bytes[k] ELSE 0

Digits(b1, b2, b3) ==
  << b1 \div 4, (b1 % 4) * 16 + (b2 \div 16), (b2 % 16) * 4 + (b3 \div 64), b3 % 64 >>

(* Three bytes make four digits; digits of which the input has no bit are  *)
(* replaced by padding.                                                    *)
base64_encode(bytes) ==
  [j \in 1 .. ((Len(bytes) + 2) \div 3) * 4 |->
     LET first == 3 * ((j - 1) \div 4) + 1
         place == (j - 1) % 4
     IN  IF first + place - 1 > Len(bytes) THEN Pad
         ELSE Digits(ByteOf(bytes, first), ByteOf(bytes, first + 1),
                     ByteOf(bytes, first + 2))[place + 1]]

BASE64_DECODE_OUT_SIZE(s) == (s \div 4) * 3

(* How many characters are decoded: the loop ends at the padding, and the  *)
(* function, with 0, at a character that is no digit.                      *)
DigitsRead(text, inlen) ==
  CHOOSE n \in 0 .. inlen :
    /\ \A i \in 1 .. n : text[i] < Pad
    /\ n < inlen => text[n + 1] >= Pad

DigitOf(text, n, i) == IF i <= n THEN text[i] ELSE 0

DecodedByte(text, n, k) ==
  LET first == 4 * ((k - 1) \div 3) + 1
      d(i)  == DigitOf(text, n, first + i)
  IN  << d(0) * 4 + (d(1) \div 16),
         (d(1) % 16) * 16 + (d(2) \div 4),
         (d(2) % 4) * 64 + d(3) >>[((k - 1) % 3) + 1]

(* A digit starts its byte before the next one completes it: with a number *)
(* of digits that is no multiple of four one more byte is written than     *)
(* counted.                                                                *)
BytesWritten(n) == 3 * (n \div 4) + (n % 4)

base64_decode(text, inlen, out) ==
  IF inlen % 4 # 0
  THEN [ret |-> 0, out |-> out]
  ELSE LET n == DigitsRead(text, inlen)
       IN  [ret |-> IF n < inlen /\ text[n + 1] # Pad THEN 0 ELSE (n * 3) \div 4,
            out |-> [k \in DOMAIN out |->
                       IF k <= BytesWritten(n) THEN DecodedByte(text, n, k) ELSE out[k]]]
=============================================================================
