--------------------------- MODULE SecurityAdapter ---------------------------
(***************************************************************************)
(* src/security_adapter.c: encryption and decryption in place, block by    *)
(* block, and the memory they walk over.  The cipher is symbolic: a byte   *)
(* of an encrypted block is a cell that remembers the plain byte, its      *)
(* place in the block and the message it was encrypted for; a block        *)
(* decrypts only if all its cells are in place.  The copy at the end of    *)
(* both functions is from the buffer to itself, in all calls.              *)
(*                                                                         *)
(* A byte is a cell <<name, number>>: a field of a packet and which byte   *)
(* of it, or a byte about which nothing is known (Junk).                   *)
(***************************************************************************)
EXTENDS Integers, Sequences

CONSTANT SECURITY_KEY_SIZE   \* the size of a block

ASSUME SecurityAssumption == SECURITY_KEY_SIZE \in 1 .. 65536

uint8(n) == n % 256
uint16(n) == n % 65536

Field(name, size) == [i \in 1 .. size |-> <<name, i>>]

Junk == <<"junk", 1>>

Encrypted(tag, byte, place) == <<"encrypted", tag, byte, place>>

(* The counter i is a uint16_t that grows by a block: for a length behind  *)
(* its last value it wraps, and the loop goes on for ever.                 *)
Terminates(length) == length <= 65536 - SECURITY_KEY_SIZE

Rounded_Down(length) == (length \div SECURITY_KEY_SIZE) * SECURITY_KEY_SIZE

(* The value of i when the loop ends, which becomes the length returned.   *)
Rounded(length) ==
  ((length + SECURITY_KEY_SIZE - 1) \div SECURITY_KEY_SIZE) * SECURITY_KEY_SIZE

(* Does the loop stay in the given number of bytes?                        *)
Within(size, length) == Terminates(length) /\ Rounded(length) <= size

Place(n) == (n - 1) % SECURITY_KEY_SIZE

Block(n) == (n - Place(n)) .. (n - Place(n) + SECURITY_KEY_SIZE - 1)

security_adapter_encrypt(tag, bytes, length) ==
  [n \in DOMAIN bytes |->
     IF n <= Rounded(length) THEN Encrypted(tag, bytes[n], Place(n)) ELSE bytes[n]]

IntactBlock(bytes, n) ==
  /\ bytes[n][1] = "encrypted"
  /\ \A m \in Block(n) :
       /\ bytes[m][1] = "encrypted"
       /\ bytes[m][2] = bytes[n][2]
       /\ bytes[m][4] = Place(m)

security_adapter_decrypt(bytes, length) ==
  [n \in DOMAIN bytes |->
     IF n > Rounded(length) THEN bytes[n]
     ELSE IF IntactBlock(bytes, n) THEN bytes[n][3]
     ELSE Junk]
=============================================================================
