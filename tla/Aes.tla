-------------------------------- MODULE Aes --------------------------------
(***************************************************************************)
(* src/aes.c as it is built, ECB with keys of 128 bits: the block cipher   *)
(* below security_adapter_encrypt and security_adapter_decrypt.  One       *)
(* action per word of the key schedule and per round.                      *)
(*                                                                         *)
(* A byte is a number.  state_t is the sequence of its 16 bytes, column by *)
(* column, as it lies in the buffer of the packet.                         *)
(***************************************************************************)
EXTENDS Integers, Sequences

CONSTANTS Keys, Blocks   \* the keys and the blocks tried

Bytes == 0 .. 255

ASSUME AesAssumption == Keys \cup Blocks \subseteq [1 .. 16 -> Bytes]

VARIABLES
  aes,        \* what AES is doing
  RoundKey,   \* ctx.RoundKey, as far as it is computed
  round,
  state,
  input       \* the block as it was before encryption

aesVars == <<aes, RoundKey, round, state, input>>

Nb == 4
Nk == 4
Nr == 10

sbox ==
  <<\h63,\h7c,\h77,\h7b,\hf2,\h6b,\h6f,\hc5,\h30,\h01,\h67,\h2b,\hfe,\hd7,\hab,\h76,
    \hca,\h82,\hc9,\h7d,\hfa,\h59,\h47,\hf0,\had,\hd4,\ha2,\haf,\h9c,\ha4,\h72,\hc0,
    \hb7,\hfd,\h93,\h26,\h36,\h3f,\hf7,\hcc,\h34,\ha5,\he5,\hf1,\h71,\hd8,\h31,\h15,
    \h04,\hc7,\h23,\hc3,\h18,\h96,\h05,\h9a,\h07,\h12,\h80,\he2,\heb,\h27,\hb2,\h75,
    \h09,\h83,\h2c,\h1a,\h1b,\h6e,\h5a,\ha0,\h52,\h3b,\hd6,\hb3,\h29,\he3,\h2f,\h84,
    \h53,\hd1,\h00,\hed,\h20,\hfc,\hb1,\h5b,\h6a,\hcb,\hbe,\h39,\h4a,\h4c,\h58,\hcf,
    \hd0,\hef,\haa,\hfb,\h43,\h4d,\h33,\h85,\h45,\hf9,\h02,\h7f,\h50,\h3c,\h9f,\ha8,
    \h51,\ha3,\h40,\h8f,\h92,\h9d,\h38,\hf5,\hbc,\hb6,\hda,\h21,\h10,\hff,\hf3,\hd2,
    \hcd,\h0c,\h13,\hec,\h5f,\h97,\h44,\h17,\hc4,\ha7,\h7e,\h3d,\h64,\h5d,\h19,\h73,
    \h60,\h81,\h4f,\hdc,\h22,\h2a,\h90,\h88,\h46,\hee,\hb8,\h14,\hde,\h5e,\h0b,\hdb,
    \he0,\h32,\h3a,\h0a,\h49,\h06,\h24,\h5c,\hc2,\hd3,\hac,\h62,\h91,\h95,\he4,\h79,
    \he7,\hc8,\h37,\h6d,\h8d,\hd5,\h4e,\ha9,\h6c,\h56,\hf4,\hea,\h65,\h7a,\hae,\h08,
    \hba,\h78,\h25,\h2e,\h1c,\ha6,\hb4,\hc6,\he8,\hdd,\h74,\h1f,\h4b,\hbd,\h8b,\h8a,
    \h70,\h3e,\hb5,\h66,\h48,\h03,\hf6,\h0e,\h61,\h35,\h57,\hb9,\h86,\hc1,\h1d,\h9e,
    \he1,\hf8,\h98,\h11,\h69,\hd9,\h8e,\h94,\h9b,\h1e,\h87,\he9,\hce,\h55,\h28,\hdf,
    \h8c,\ha1,\h89,\h0d,\hbf,\he6,\h42,\h68,\h41,\h99,\h2d,\h0f,\hb0,\h54,\hbb,\h16>>

rsbox ==
  <<\h52,\h09,\h6a,\hd5,\h30,\h36,\ha5,\h38,\hbf,\h40,\ha3,\h9e,\h81,\hf3,\hd7,\hfb,
    \h7c,\he3,\h39,\h82,\h9b,\h2f,\hff,\h87,\h34,\h8e,\h43,\h44,\hc4,\hde,\he9,\hcb,
    \h54,\h7b,\h94,\h32,\ha6,\hc2,\h23,\h3d,\hee,\h4c,\h95,\h0b,\h42,\hfa,\hc3,\h4e,
    \h08,\h2e,\ha1,\h66,\h28,\hd9,\h24,\hb2,\h76,\h5b,\ha2,\h49,\h6d,\h8b,\hd1,\h25,
    \h72,\hf8,\hf6,\h64,\h86,\h68,\h98,\h16,\hd4,\ha4,\h5c,\hcc,\h5d,\h65,\hb6,\h92,
    \h6c,\h70,\h48,\h50,\hfd,\hed,\hb9,\hda,\h5e,\h15,\h46,\h57,\ha7,\h8d,\h9d,\h84,
    \h90,\hd8,\hab,\h00,\h8c,\hbc,\hd3,\h0a,\hf7,\he4,\h58,\h05,\hb8,\hb3,\h45,\h06,
    \hd0,\h2c,\h1e,\h8f,\hca,\h3f,\h0f,\h02,\hc1,\haf,\hbd,\h03,\h01,\h13,\h8a,\h6b,
    \h3a,\h91,\h11,\h41,\h4f,\h67,\hdc,\hea,\h97,\hf2,\hcf,\hce,\hf0,\hb4,\he6,\h73,
    \h96,\hac,\h74,\h22,\he7,\had,\h35,\h85,\he2,\hf9,\h37,\he8,\h1c,\h75,\hdf,\h6e,
    \h47,\hf1,\h1a,\h71,\h1d,\h29,\hc5,\h89,\h6f,\hb7,\h62,\h0e,\haa,\h18,\hbe,\h1b,
    \hfc,\h56,\h3e,\h4b,\hc6,\hd2,\h79,\h20,\h9a,\hdb,\hc0,\hfe,\h78,\hcd,\h5a,\hf4,
    \h1f,\hdd,\ha8,\h33,\h88,\h07,\hc7,\h31,\hb1,\h12,\h10,\h59,\h27,\h80,\hec,\h5f,
    \h60,\h51,\h7f,\ha9,\h19,\hb5,\h4a,\h0d,\h2d,\he5,\h7a,\h9f,\h93,\hc9,\h9c,\hef,
    \ha0,\he0,\h3b,\h4d,\hae,\h2a,\hf5,\hb0,\hc8,\heb,\hbb,\h3c,\h83,\h53,\h99,\h61,
    \h17,\h2b,\h04,\h7e,\hba,\h77,\hd6,\h26,\he1,\h69,\h14,\h63,\h55,\h21,\h0c,\h7d>>

Rcon == <<\h8d,\h01,\h02,\h04,\h08,\h10,\h20,\h40,\h80,\h1b,\h36>>

getSBoxValue(num) == sbox[num + 1]
getSBoxInvert(num) == rsbox[num + 1]

-----------------------------------------------------------------------------
(* Arithmetic on bytes. *)

XorOfNibbles ==
  [a \in 0 .. 15 |-> [b \in 0 .. 15 |->
     LET Digit2(p) == IF (a \div p) % 2 = (b \div p) % 2 THEN 0 ELSE p
     IN  Digit2(1) + Digit2(2) + Digit2(4) + Digit2(8)]]

a (+) b == 16 * XorOfNibbles[a \div 16][b \div 16] + XorOfNibbles[a % 16][b % 16]

xtime(x) == ((2 * x) % 256) (+) (IF x < 128 THEN 0 ELSE \h1b)

Multiply(x, y) ==
  LET Term(p, product) == IF (y \div p) % 2 = 0 THEN 0 ELSE product
  IN  Term(1, x) (+) Term(2, xtime(x)) (+) Term(4, xtime(xtime(x)))
        (+) Term(8, xtime(xtime(xtime(x)))) (+) Term(16, xtime(xtime(xtime(xtime(x)))))

-----------------------------------------------------------------------------
(* The transformations of the state. *)

Cells == 1 .. 16
Column(n) == (n - 1) \div 4
Row(n) == (n - 1) % 4
Cell(column, row) == 4 * (column % 4) + (row % 4) + 1

AddRoundKey(r, s) == [n \in Cells |-> s[n] (+) RoundKey[r * Nb * 4 + n]]

SubBytes(s) == [n \in Cells |-> getSBoxValue(s[n])]
InvSubBytes(s) == [n \in Cells |-> getSBoxInvert(s[n])]

ShiftRows(s) == [n \in Cells |-> s[Cell(Column(n) + Row(n), Row(n))]]

InvShiftRows_Forward(s) == ShiftRows(s)

InvShiftRows(s) == [n \in Cells |-> s[Cell(Column(n) - Row(n) + 4, Row(n))]]

MixedCell(s, n, next) ==
  LET At(row) == s[Cell(Column(n), row)]
  IN  s[n] (+) xtime(s[n] (+) next) (+) (At(0) (+) At(1) (+) At(2) (+) At(3))

(* The last cell of a column uses the first after that has changed. *)
MixColumns_InPlace(s) ==
  [n \in Cells |->
     MixedCell(s, n, IF Row(n) = 3
                     THEN MixedCell(s, n - 3, s[n - 2])
                     ELSE s[n + 1])]

MixColumns(s) == [n \in Cells |-> MixedCell(s, n, s[Cell(Column(n), Row(n) + 1)])]

InvMixColumns(s) ==
  [n \in Cells |->
     LET Term(row, y) == Multiply(s[Cell(Column(n), Row(n) + row)], y)
     IN  Term(0, \h0e) (+) Term(1, \h0b) (+) Term(2, \h0d) (+) Term(3, \h09)]

-----------------------------------------------------------------------------
AesInit ==
  /\ aes = "off"
  /\ RoundKey = <<>>
  /\ round = 0
  /\ state = <<>>
  /\ input = <<>>

(* The first round key is the key itself. *)
AES_init_ctx(key, block) ==
  /\ aes = "off"
  /\ aes' = "expanding"
  /\ RoundKey' = key
  /\ input' = block
  /\ state' = block
  /\ UNCHANGED round

Word(i) == SubSeq(RoundKey, 4 * i + 1, 4 * i + 4)

(* RotWord, SubWord and Rcon, before the first word of a round key. *)
Scrambled(w, i) ==
  [n \in 1 .. 4 |->
     getSBoxValue(w[(n % 4) + 1]) (+) (IF n = 1 THEN Rcon[(i \div Nk) + 1] ELSE 0)]

KeyExpansion ==
  /\ aes = "expanding"
  /\ LET i    == Len(RoundKey) \div 4
         temp == IF i % Nk = 0 THEN Scrambled(Word(i - 1), i) ELSE Word(i - 1)
     IN  /\ RoundKey' = RoundKey \o [n \in 1 .. 4 |-> Word(i - Nk)[n] (+) temp[n]]
         /\ aes' = IF i + 1 = Nb * (Nr + 1) THEN "ready" ELSE "expanding"
  /\ UNCHANGED <<round, state, input>>

AES_ECB_encrypt ==
  /\ aes = "ready"
  /\ aes' = "encrypting"
  /\ state' = AddRoundKey(0, state)
  /\ round' = 1
  /\ UNCHANGED <<RoundKey, input>>

(* One round, the last without MixColumns. *)
Cipher ==
  /\ aes = "encrypting"
  /\ LET shifted == ShiftRows(SubBytes(state))
     IN  IF round = Nr
         THEN /\ state' = AddRoundKey(Nr, shifted)
              /\ aes' = "encrypted" /\ UNCHANGED round
         ELSE /\ state' = AddRoundKey(round, MixColumns(shifted))
              /\ round' = round + 1 /\ UNCHANGED aes
  /\ UNCHANGED <<RoundKey, input>>

AES_ECB_decrypt ==
  /\ aes = "encrypted"
  /\ aes' = "decrypting"
  /\ state' = AddRoundKey(Nr, state)
  /\ round' = Nr - 1
  /\ UNCHANGED <<RoundKey, input>>

InvCipher ==
  /\ aes = "decrypting"
  /\ LET keyed == AddRoundKey(round, InvSubBytes(InvShiftRows(state)))
     IN  IF round = 0
         THEN state' = keyed /\ aes' = "decrypted" /\ UNCHANGED round
         ELSE state' = InvMixColumns(keyed) /\ round' = round - 1 /\ UNCHANGED aes
  /\ UNCHANGED <<RoundKey, input>>

AesNext ==
  \/ \E key \in Keys, block \in Blocks : AES_init_ctx(key, block)
  \/ KeyExpansion
  \/ AES_ECB_encrypt
  \/ Cipher
  \/ AES_ECB_decrypt
  \/ InvCipher

AesSpec == AesInit /\ [][AesNext]_aesVars

-----------------------------------------------------------------------------
(* Decryption gives the block back that was encrypted: what the symbolic   *)
(* cipher of SecurityAdapter takes for granted.  It takes every table and  *)
(* every transformation of InvCipher to undo its counterpart, in reverse   *)
(* order and under the same round key.                                     *)
BlockRoundTrip == aes = "decrypted" => state = input

(* The test vectors of the comment at the head of aes.c: key, plain texts  *)
(* and ciphers of NIST SP 800-38A, ECB-AES128.                             *)
VectorKey ==
  <<\h2b,\h7e,\h15,\h16,\h28,\hae,\hd2,\ha6,\hab,\hf7,\h15,\h88,\h09,\hcf,\h4f,\h3c>>

VectorBlocks ==
  <<<<\h6b,\hc1,\hbe,\he2,\h2e,\h40,\h9f,\h96,\he9,\h3d,\h7e,\h11,\h73,\h93,\h17,\h2a>>,
    <<\hae,\h2d,\h8a,\h57,\h1e,\h03,\hac,\h9c,\h9e,\hb7,\h6f,\hac,\h45,\haf,\h8e,\h51>>,
    <<\h30,\hc8,\h1c,\h46,\ha3,\h5c,\he4,\h11,\he5,\hfb,\hc1,\h19,\h1a,\h0a,\h52,\hef>>,
    <<\hf6,\h9f,\h24,\h45,\hdf,\h4f,\h9b,\h17,\had,\h2b,\h41,\h7b,\he6,\h6c,\h37,\h10>>>>

VectorCiphers ==
  <<<<\h3a,\hd7,\h7b,\hb4,\h0d,\h7a,\h36,\h60,\ha8,\h9e,\hca,\hf3,\h24,\h66,\hef,\h97>>,
    <<\hf5,\hd3,\hd5,\h85,\h03,\hb9,\h69,\h9d,\he7,\h85,\h89,\h5a,\h96,\hfd,\hba,\haf>>,
    <<\h43,\hb1,\hcd,\h7f,\h59,\h8e,\hce,\h23,\h88,\h1b,\h00,\he3,\hed,\h03,\h06,\h88>>,
    <<\h7b,\h0c,\h78,\h5e,\h27,\he8,\had,\h3f,\h82,\h23,\h20,\h71,\h04,\h72,\h5d,\hd4>>>>

(* "The implementation is verified against the test vectors" (aes.c:6).    *)
MatchesVectors ==
  aes = "encrypted" /\ SubSeq(RoundKey, 1, 16) = VectorKey =>
    \A i \in 1 .. 4 : input = VectorBlocks[i] => state = VectorCiphers[i]
=============================================================================
