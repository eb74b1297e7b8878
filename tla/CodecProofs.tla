----------------------------- MODULE CodecProofs -----------------------------
(***************************************************************************)
(* Proofs about the packets between devices and gateway and the answers of *)
(* the platform, with the sizes of the code: what is encoded comes back,   *)
(* which datagrams are decrypted within their buffer, and for which one    *)
(* decoding fails.  An answer may have any length, a datagram those of its *)
(* buffer.                                                                 *)
(***************************************************************************)
EXTENDS TextProofs

-----------------------------------------------------------------------------
(* Datagrams. *)

(* The body of a datagram is decrypted within the buffer when it ends in   *)
(* its fifteenth block.                                                    *)
LEMMA WithinFacts ==
  ASSUME CodeSizes, NEW n \in 0 .. 255
  PROVE  Within(BodyRoom, BodyLength(n)) <=> n \in 8 .. 248
<1>1. SECURITY_KEY_SIZE = 16 /\ BodyRoom = 248 /\ GATEWAY_PROTOCOL_APP_KEY_SIZE = 8
  BY DEF CodeSizes, BodyRoom
<1>2. CASE n < 8
  <2>1. (n - 8) % 65536 = 65528 + n
    BY <1>2
  <2>2. BodyLength(n) = 65528 + n
    BY <1>1, <2>1 DEF BodyLength, uint16
  <2> QED
    BY <1>1, <1>2, <2>2 DEF Within, Terminates
<1>3. CASE n >= 8
  <2>1. BodyLength(n) = n - 8
    BY <1>1, <1>3 DEF BodyLength, uint16
  <2>2. Rounded(n - 8) = ((n + 7) \div 16) * 16
    BY <1>1 DEF Rounded
  <2>3. ((n + 7) \div 16) * 16 <= 248 <=> n <= 248
    BY <1>3
  <2> QED
    BY <1>1, <1>3, <2>1, <2>2, <2>3 DEF Within, Terminates
<1> QED
  BY <1>2, <1>3

PacketInv ==
  /\ secure \in BOOLEAN
  /\ stage = "sent" => length \in 0 .. 256
  /\ stage = "received" => arrived \in 1 .. 256 /\ length = uint8(arrived)
  /\ DecryptionStaysInPacket

-----------------------------------------------------------------------------
(* Packets, encoded and decoded. *)

PlainByte(n, i) ==
  IF i <= 8 THEN <<"app_key", i>>
  ELSE IF i = 9 THEN <<"dev_id", 1>>
  ELSE IF i = 10 THEN <<"type", 1>>
  ELSE IF i = 11 THEN <<"length", n>>
  ELSE <<"payload", i - 11>>

LEMMA ThreeCells ==
  ASSUME NEW a, NEW b, NEW c
  PROVE  /\ HasCells(<<a, b, c>>, 3)
         /\ <<a, b, c>>[1] = a /\ <<a, b, c>>[2] = b /\ <<a, b, c>>[3] = c
  BY DEF HasCells

(* What encoding a payload of n bytes for an insecure application writes.  *)
PlainPacket(p, n) == \A i \in 1 .. 11 + n : p[i] = PlainByte(n, i)

PacketBytes(n) == Header(n) \o Field("payload", n)

LEMMA PacketCells ==
  ASSUME CodeSizes, NEW n \in Nat
  PROVE  HasCells(PacketBytes(n), 11 + n) /\ PlainPacket(PacketBytes(n), n)
<1> DEFINE key == Field("app_key", 8)
           head == <<<<"dev_id", 1>>, <<"type", 1>>, <<"length", n>>>>
           payload == Field("payload", n)
           front == key \o head
           bytes == front \o payload
<1>1. HasCells(key, 8) /\ \A i \in 1 .. 8 : key[i] = <<"app_key", i>>
  BY FieldCells
<1>2. /\ HasCells(head, 3)
      /\ head[1] = <<"dev_id", 1>> /\ head[2] = <<"type", 1>> /\ head[3] = <<"length", n>>
  BY ThreeCells
<1>3. HasCells(payload, n) /\ \A i \in 1 .. n : payload[i] = <<"payload", i>>
  BY FieldCells
<1> HIDE DEF key, head, payload
<1>4. Header(n) = front
  BY DEF Header, CodeSizes, key, head
<1>5. Joined(front, key, 8, head, 3)
  BY <1>1, <1>2, JoinedCells
<1> HIDE DEF front
<1>6. Joined(bytes, front, 11, payload, n)
  <2>1. HasCells(front, 11)
    BY <1>5 DEF Joined
  <2> QED
    BY <1>3, <2>1, JoinedCells
<1> HIDE DEF bytes
<1>7. HasCells(bytes, 11 + n)
  BY <1>6 DEF Joined
<1>8. ASSUME NEW i \in 1 .. 11 + n PROVE bytes[i] = PlainByte(n, i)
  <2>1. CASE i \in 1 .. 8
    <3>1. bytes[i] = front[i] /\ front[i] = key[i]
      BY <1>5, <1>6, <2>1 DEF Joined
    <3> QED
      BY <1>1, <2>1, <3>1 DEF PlainByte
  <2>2. CASE i \in 9 .. 11
    <3>1. i - 8 \in 1 .. 3 /\ 8 + (i - 8) = i /\ i \in 1 .. 11
      BY <2>2
    <3>2. bytes[i] = front[i] /\ front[8 + (i - 8)] = head[i - 8]
      BY <1>5, <1>6, <3>1 DEF Joined
    <3>3. i = 9 \/ i = 10 \/ i = 11
      BY <2>2
    <3> QED
      BY <1>2, <3>1, <3>2, <3>3 DEF PlainByte
  <2>3. CASE i > 11
    <3>1. i - 11 \in 1 .. n /\ 11 + (i - 11) = i
      BY <2>3
    <3>2. bytes[11 + (i - 11)] = payload[i - 11]
      BY <1>6, <3>1 DEF Joined
    <3> QED
      BY <1>3, <2>3, <3>1, <3>2 DEF PlainByte
  <2> QED
    BY <2>1, <2>2, <2>3
<1> QED
  BY <1>4, <1>7, <1>8 DEF bytes, payload, PacketBytes, PlainPacket

(* The same for a secure one: app_key, and blocks that remember the bytes. *)
CodedByte(cell, tag, k, size, byte) ==
  \E b : cell = Encrypted(tag, b, Place(k)) /\ (k <= size => b = byte)

CodedPacket(p, n) ==
  /\ \A i \in 1 .. 8 : p[i] = <<"app_key", i>>
  /\ \A k \in 1 .. Rounded(3 + n) : CodedByte(p[8 + k], "packet", k, 3 + n, PlainByte(n, 8 + k))

PacketBuffer(n) == PacketBytes(n) \o Leftovers(Len(PacketBytes(n)))

LEMMA BufferCells ==
  ASSUME CodeSizes, NEW n \in 0 .. 245
  PROVE  HasCells(PacketBuffer(n), 256) /\ PlainPacket(PacketBuffer(n), n)
<1>0. n \in Nat
  OBVIOUS
<1> DEFINE bytes  == PacketBytes(n)
           left   == Leftovers(Len(bytes))
           buffer == bytes \o left
<1>1. HasCells(bytes, 11 + n) /\ PlainPacket(bytes, n)
  BY <1>0, PacketCells
<1> HIDE DEF bytes
<1>2. Len(bytes) = 11 + n
  BY <1>1, CellsAreSeq
<1>3. HasCells(left, 245 - n)
  BY <1>2 DEF Leftovers, HasCells, CodeSizes
<1> HIDE DEF left
<1>4. Joined(buffer, bytes, 11 + n, left, 245 - n)
  <2>1. 11 + n \in Nat /\ 245 - n \in Nat
    OBVIOUS
  <2> QED
    BY <1>1, <1>3, <2>1, JoinedCells
<1> HIDE DEF buffer
<1>5. HasCells(buffer, 256)
  <2>1. (11 + n) + (245 - n) = 256
    OBVIOUS
  <2> QED
    BY <1>4, <2>1 DEF Joined
<1>6. PlainPacket(buffer, n)
  BY <1>1, <1>4 DEF Joined, PlainPacket
<1> QED
  BY <1>5, <1>6 DEF buffer, left, bytes, PacketBuffer

LEMMA PlainEncoding ==
  ASSUME CodeSizes, NEW n \in 0 .. 255,
         NEW e, e = gateway_protocol_packet_encode(secure, n), ~secure
  PROVE  /\ e = Overrun <=> n > 245
         /\ n <= 245 => e.length = uint8(11 + n) /\ PlainPacket(e.packet, n)
<1> DEFINE bytes  == PacketBytes(n)
           buffer == PacketBuffer(n)
<1>1. Len(bytes) = 11 + n
  <2>1. n \in Nat
    OBVIOUS
  <2>2. HasCells(bytes, 11 + n)
    BY <2>1, PacketCells
  <2> QED
    BY <2>2, CellsAreSeq
<1>2. e = IF Len(bytes) > DEVICE_DATA_MAX_LENGTH THEN Overrun
          ELSE [length |-> uint8(Len(bytes)), packet |-> buffer]
  BY DEF gateway_protocol_packet_encode, PacketBytes, PacketBuffer
<1>3. n <= 245 => PlainPacket(buffer, n)
  BY BufferCells
<1> HIDE DEF bytes, buffer
<1>4. CASE n <= 245
  <2>1. e = [length |-> uint8(11 + n), packet |-> buffer]
    BY <1>1, <1>2, <1>4 DEF CodeSizes
  <2>2. uint8(11 + n) # -1
    BY DEF uint8
  <2>3. e # Overrun
    BY <2>1, <2>2 DEF Overrun
  <2> QED
    BY <1>3, <1>4, <2>1, <2>3
<1>5. CASE n > 245
  BY <1>1, <1>2, <1>5 DEF CodeSizes
<1> QED
  BY <1>4, <1>5

LEMMA RoundedFacts ==
  ASSUME SECURITY_KEY_SIZE = 16, NEW n \in Nat
  PROVE  /\ Rounded(n) \in Nat /\ n <= Rounded(n) /\ Rounded(n) <= n + 15
         /\ Rounded(n) % 16 = 0
         /\ n % 16 = 0 => Rounded(n) = n
         /\ Rounded(Rounded(n)) = Rounded(n)
<1>1. Rounded(n) = ((n + 15) \div 16) * 16
  BY DEF Rounded
<1>2. Rounded(n) \in Nat /\ n <= Rounded(n) /\ Rounded(n) <= n + 15 /\ Rounded(n) % 16 = 0
  BY <1>1
<1>3. n % 16 = 0 => Rounded(n) = n
  BY <1>1
<1>4. \A r \in Nat : r % 16 = 0 => Rounded(r) = r
  <2> SUFFICES ASSUME NEW r \in Nat, r % 16 = 0 PROVE Rounded(r) = r
    OBVIOUS
  <2>1. Rounded(r) = ((r + 15) \div 16) * 16
    BY DEF Rounded
  <2> QED
    BY <2>1
<1> QED
  BY <1>2, <1>3, <1>4

LEMMA CodedEncoding ==
  ASSUME CodeSizes, NEW n \in 0 .. 255,
         NEW e, e = gateway_protocol_packet_encode(secure, n), secure = TRUE
  PROVE  /\ e = Overrun <=> n > 237
         /\ n <= 237 => e.length = 8 + Rounded(3 + n) /\ CodedPacket(e.packet, n)
<1> DEFINE bytes  == PacketBytes(n)
           buffer == PacketBuffer(n)
           body   == BodyLength(uint8(Len(bytes)))
           coded  == security_adapter_encrypt("packet", Body(buffer), body)
<1>1. Len(bytes) = 11 + n
  <2>1. n \in Nat
    OBVIOUS
  <2>2. HasCells(bytes, 11 + n)
    BY <2>1, PacketCells
  <2> QED
    BY <2>2, CellsAreSeq
<1>2. e = IF Len(bytes) > DEVICE_DATA_MAX_LENGTH \/ ~Within(BodyRoom, body) THEN Overrun
          ELSE [length |-> uint8(Rounded(body) + GATEWAY_PROTOCOL_APP_KEY_SIZE),
                packet |-> Prefix(buffer) \o coded]
  BY DEF gateway_protocol_packet_encode, PacketBytes, PacketBuffer
<1>3. n <= 245 => HasCells(buffer, 256) /\ PlainPacket(buffer, n)
  BY BufferCells
<1> HIDE DEF bytes, buffer, body, coded
<1>4. CASE n > 245
  BY <1>1, <1>2, <1>4 DEF CodeSizes
<1>5. CASE n = 245
  <2>1. uint8(Len(bytes)) = 0
    BY <1>1, <1>5 DEF uint8
  <2>2. ~Within(BodyRoom, body)
    BY <2>1, WithinFacts DEF body
  <2> QED
    BY <1>2, <1>5, <2>2
<1>6. CASE n < 245
  <2>0. 11 + n \in 0 .. 255 /\ (11 + n \in 8 .. 248 <=> n <= 237)
    BY <1>6
  <2>1. uint8(Len(bytes)) = 11 + n
    BY <1>1, <2>0, Uint8Facts
  <2>2. Within(BodyRoom, body) <=> n <= 237
    <3>1. Within(BodyRoom, BodyLength(11 + n)) <=> 11 + n \in 8 .. 248
      BY <2>0, WithinFacts, Zenon
    <3> QED
      BY <2>0, <2>1, <3>1 DEF body
  <2>3. body = 3 + n
    BY <1>6, <2>1 DEF BodyLength, uint16, CodeSizes, body
  <2>4. CASE n > 237
    BY <1>2, <2>2, <2>4
  <2>5. CASE n <= 237
    <3> DEFINE r == Rounded(3 + n)
    <3>1. r \in Nat /\ 3 + n <= r /\ r <= 240
      <4>1. Rounded(3 + n) = ((n + 18) \div 16) * 16
        BY DEF Rounded, CodeSizes
      <4> QED
        BY <2>5, <4>1
    <3>2. uint8(Rounded(body) + GATEWAY_PROTOCOL_APP_KEY_SIZE) = 8 + r
      <4> HIDE DEF r
      <4>1. r + 8 \in 0 .. 255 /\ r + 8 = 8 + r
        BY <3>1
      <4> QED
        BY <2>3, <4>1, Uint8Facts DEF CodeSizes, r
    <3> DEFINE key == Prefix(buffer)
               rest == Body(buffer)
    <3>3. Cut(key, buffer, 1, 8) /\ Cut(rest, buffer, 9, 256)
      <4>1. HasCells(buffer, 256)
        BY <1>3, <2>5
      <4>2. Len(buffer) = 256
        BY <4>1, CellsAreSeq
      <4>3. key = SubSeq(buffer, 1, 8) /\ rest = SubSeq(buffer, 9, 256)
        BY <4>2 DEF Prefix, Body, CodeSizes
      <4> QED
        BY <4>1, <4>3, CutCells
    <3> HIDE DEF key, rest
    <3>4. HasCells(key, 8) /\ HasCells(rest, 248)
      BY <3>3 DEF Cut
    <3>5. DOMAIN rest = 1 .. 248
      BY <3>4, CellsAreSeq
    <3>6. HasCells(coded, 248) /\ \A k \in 1 .. r : coded[k] = Encrypted("packet", rest[k], Place(k))
      <4> HIDE DEF r
      <4>1. coded = [k \in 1 .. 248 |-> IF k <= r THEN Encrypted("packet", rest[k], Place(k))
                                        ELSE rest[k]]
        BY <2>3, <3>5 DEF security_adapter_encrypt, rest, r, coded
      <4> QED
        BY <3>1, <4>1 DEF HasCells
    <3> DEFINE p == key \o coded
    <3>7. Joined(p, key, 8, coded, 248)
      BY <3>4, <3>6, JoinedCells
    <3> HIDE DEF p, r
    <3>8. \A i \in 1 .. 8 : p[i] = <<"app_key", i>>
      <4> SUFFICES ASSUME NEW i \in 1 .. 8 PROVE p[i] = <<"app_key", i>>
        OBVIOUS
      <4>1. p[i] = key[i]
        BY <3>7 DEF Joined
      <4>2. key[i] = buffer[i]
        BY <3>3 DEF Cut
      <4>3. buffer[i] = PlainByte(n, i)
        BY <1>3, <2>5 DEF PlainPacket
      <4> QED
        BY <4>1, <4>2, <4>3 DEF PlainByte
    <3>9. \A k \in 1 .. r : CodedByte(p[8 + k], "packet", k, 3 + n, PlainByte(n, 8 + k))
      <4> SUFFICES ASSUME NEW k \in 1 .. r
                   PROVE  CodedByte(p[8 + k], "packet", k, 3 + n, PlainByte(n, 8 + k))
        OBVIOUS
      <4>1. k \in 1 .. 248
        BY <3>1
      <4>2. p[8 + k] = coded[k]
        BY <3>7, <4>1 DEF Joined
      <4>3. coded[k] = Encrypted("packet", rest[k], Place(k))
        BY <3>6
      <4>4. k <= 3 + n => rest[k] = PlainByte(n, 8 + k)
        <5> SUFFICES ASSUME k <= 3 + n PROVE rest[k] = PlainByte(n, 8 + k)
          OBVIOUS
        <5>1. rest[k] = buffer[8 + k]
          BY <3>3, <4>1 DEF Cut
        <5>2. 8 + k \in 1 .. 11 + n
          BY <4>1
        <5> QED
          BY <1>3, <2>5, <5>1, <5>2 DEF PlainPacket
      <4> QED
        BY <4>2, <4>3, <4>4 DEF CodedByte
    <3>10. e = [length |-> 8 + r, packet |-> p]
      <4>1. ~(Len(bytes) > DEVICE_DATA_MAX_LENGTH)
        BY <1>1, <2>5 DEF CodeSizes
      <4>2. e = [length |-> uint8(Rounded(body) + GATEWAY_PROTOCOL_APP_KEY_SIZE), packet |-> p]
        BY <1>2, <2>2, <2>5, <4>1 DEF p, key
      <4> QED
        BY <3>2, <4>2
    <3>11. e # Overrun
      <4>1. 8 + r # -1
        BY <3>1
      <4> QED
        BY <3>10, <4>1 DEF Overrun
    <3>12. CodedPacket(p, n)
      BY <3>8, <3>9 DEF CodedPacket, r
    <3> QED
      BY <2>5, <3>10, <3>11, <3>12 DEF r
  <2>6. n > 237 \/ n <= 237
    OBVIOUS
  <2> QED
    BY <2>4, <2>5, <2>6, Zenon
<1>7. n > 245 \/ n = 245 \/ n < 245
  OBVIOUS
<1> QED
  BY <1>4, <1>5, <1>6, <1>7, Zenon

LEMMA BlockFacts ==
  ASSUME SECURITY_KEY_SIZE = 16, NEW r \in Nat, r % 16 = 0, NEW k \in 1 .. r
  PROVE  Block(k) \subseteq 1 .. r
<1>1. Place(k) = (k - 1) % 16
  BY DEF Place
<1> DEFINE p == (k - 1) % 16
<1>2. p \in 0 .. 15 /\ k - p >= 1 /\ k - p + 15 <= r
  <2>1. PICK q \in Nat : r = 16 * q
    <3>1. r = 16 * (r \div 16) /\ r \div 16 \in Nat
      OBVIOUS
    <3> QED
      BY <3>1
  <2>2. k - 1 = 16 * ((k - 1) \div 16) + p /\ p \in 0 .. 15 /\ (k - 1) \div 16 \in Nat
    OBVIOUS
  <2>3. (k - 1) \div 16 <= q - 1
    BY <2>1, <2>2
  <2> HIDE DEF p
  <2> QED
    BY <2>1, <2>2, <2>3
<1> HIDE DEF p
<1> QED
  BY <1>1, <1>2 DEF Block, p

(* Blocks encrypted for one message decrypt.                               *)
CodedCells(bytes, tag, r) == \A k \in 1 .. r : \E b : bytes[k] = Encrypted(tag, b, Place(k))

LEMMA IntactFacts ==
  ASSUME SECURITY_KEY_SIZE = 16, NEW bytes, NEW tag, NEW r \in Nat, r % 16 = 0,
         CodedCells(bytes, tag, r), NEW k \in 1 .. r
  PROVE  IntactBlock(bytes, k)
<1>1. \A m \in 1 .. r : bytes[m][1] = "encrypted" /\ bytes[m][2] = tag /\ bytes[m][4] = Place(m)
  BY DEF CodedCells, Encrypted
<1>2. Block(k) \subseteq 1 .. r
  BY BlockFacts
<1> QED
  BY <1>1, <1>2 DEF IntactBlock

(* plain is the packet p, with its body decrypted over r bytes.            *)
Decrypted(plain, body, p, r) ==
  /\ DOMAIN body = 1 .. 248
  /\ \A i \in 1 .. 8 : plain[i] = p[i]
  /\ \A k \in 1 .. 248 : /\ body[k] = p[8 + k]
                         /\ plain[8 + k] = security_adapter_decrypt(body, r)[k]

LEMMA DecryptedFacts ==
  ASSUME CodeSizes, NEW p, HasCells(p, 256), NEW len \in 8 .. 248, secure = TRUE
  PROVE  Decrypted(Plain(secure, p, len), Body(p), p, len - 8)
<1> DEFINE key == Prefix(p)
           body == Body(p)
           dec == security_adapter_decrypt(body, len - 8)
           plain == Plain(secure, p, len)
<1>1. Cut(key, p, 1, 8) /\ Cut(body, p, 9, 256)
  <2>1. Len(p) = 256
    BY CellsAreSeq
  <2>2. key = SubSeq(p, 1, 8) /\ body = SubSeq(p, 9, 256)
    BY <2>1 DEF Prefix, Body, CodeSizes
  <2> QED
    BY <2>2, CutCells
<1>2. BodyLength(len) = len - 8
  BY DEF BodyLength, uint16, CodeSizes
<1>3. plain = key \o dec
  BY <1>2 DEF Plain
<1> HIDE DEF key, body, plain
<1>4. HasCells(key, 8) /\ HasCells(body, 248)
  BY <1>1 DEF Cut
<1>9. DOMAIN body = 1 .. 248
  BY <1>4 DEF HasCells
<1>5. HasCells(dec, 248)
  BY <1>9 DEF security_adapter_decrypt, HasCells
<1> HIDE DEF dec
<1>6. Joined(plain, key, 8, dec, 248)
  BY <1>3, <1>4, <1>5, JoinedCells
<1>7. \A i \in 1 .. 8 : plain[i] = p[i]
  <2> SUFFICES ASSUME NEW i \in 1 .. 8 PROVE plain[i] = p[i]
    OBVIOUS
  <2>1. plain[i] = key[i]
    BY <1>6 DEF Joined
  <2>2. key[i] = p[i]
    BY <1>1 DEF Cut
  <2> QED
    BY <2>1, <2>2
<1>8. ASSUME NEW k \in 1 .. 248 PROVE body[k] = p[8 + k] /\ plain[8 + k] = dec[k]
  <2>1. plain[8 + k] = dec[k]
    BY <1>6 DEF Joined
  <2>2. body[k] = p[8 + k]
    BY <1>1 DEF Cut
  <2> QED
    BY <2>1, <2>2
<1> QED
  BY <1>7, <1>8, <1>9 DEF Decrypted, body, plain, dec

(* What encoding made comes out of decrypting.                             *)
CodedAs(p, len, n) ==
  IF secure
  THEN n \in 0 .. 237 /\ len = 8 + Rounded(3 + n) /\ CodedPacket(p, n)
  ELSE n \in 0 .. 245 /\ len = uint8(11 + n) /\ PlainPacket(p, n)

LEMMA RoundedBody ==
  ASSUME SECURITY_KEY_SIZE = 16, NEW n \in 0 .. 237
  PROVE  /\ Rounded(3 + n) \in 16 .. 240 /\ 3 + n <= Rounded(3 + n)
         /\ Rounded(3 + n) % 16 = 0
         /\ Rounded(Rounded(3 + n)) = Rounded(3 + n)
<1>1. Rounded(3 + n) = ((n + 18) \div 16) * 16
  BY DEF Rounded
<1>2. ((n + 18) \div 16) * 16 \in 16 .. 240 /\ 3 + n <= ((n + 18) \div 16) * 16
  OBVIOUS
<1>3. 3 + n \in Nat
  OBVIOUS
<1> QED
  BY <1>1, <1>2, <1>3, RoundedFacts

LEMMA CodedComesBack ==
  ASSUME CodeSizes, NEW p, HasCells(p, 256), NEW len, NEW n, secure = TRUE,
         n \in 0 .. 237, len = 8 + Rounded(3 + n), CodedPacket(p, n)
  PROVE  PlainPacket(Plain(secure, p, len), n)
<1> DEFINE r == Rounded(3 + n)
           body == Body(p)
           plain == Plain(secure, p, len)
<1>1. r \in 16 .. 240 /\ 3 + n <= r /\ r % 16 = 0 /\ Rounded(r) = r
  BY RoundedBody DEF CodeSizes
<1> HIDE DEF r
<1>2. len \in 8 .. 248 /\ len - 8 = r
  BY <1>1 DEF r
<1>3. Decrypted(plain, body, p, r)
  BY <1>2, DecryptedFacts
<1>4. DOMAIN body = 1 .. 248
  BY <1>3 DEF Decrypted
<1> HIDE DEF body, plain
<1>5. \A k \in 1 .. r : CodedByte(body[k], "packet", k, 3 + n, PlainByte(n, 8 + k))
  <2> SUFFICES ASSUME NEW k \in 1 .. r
               PROVE  CodedByte(body[k], "packet", k, 3 + n, PlainByte(n, 8 + k))
    OBVIOUS
  <2>1. body[k] = p[8 + k]
    BY <1>1, <1>3 DEF Decrypted
  <2> QED
    BY <2>1 DEF CodedPacket, r
<1>6. CodedCells(body, "packet", r)
  BY <1>5 DEF CodedCells, CodedByte
<1>7. ASSUME NEW k \in 1 .. r PROVE plain[8 + k] = body[k][3]
  <2>1. k \in 1 .. 248 /\ ~(k > r) /\ r \in Nat
    BY <1>1
  <2>2. IntactBlock(body, k)
    BY <1>1, <1>6, <2>1, IntactFacts DEF CodeSizes
  <2> QED
    BY <1>1, <1>3, <1>4, <2>1, <2>2 DEF security_adapter_decrypt, Decrypted
<1>8. ASSUME NEW k \in 1 .. 3 + n PROVE plain[8 + k] = PlainByte(n, 8 + k)
  <2>1. k \in 1 .. r /\ k <= 3 + n
    BY <1>1
  <2>2. body[k][3] = PlainByte(n, 8 + k)
    BY <1>5, <2>1 DEF CodedByte, Encrypted
  <2> QED
    BY <1>7, <2>1, <2>2
<1>9. ASSUME NEW i \in 1 .. 11 + n PROVE plain[i] = PlainByte(n, i)
  <2>1. CASE i \in 1 .. 8
    <3>1. plain[i] = p[i]
      BY <1>3, <2>1 DEF Decrypted
    <3>2. p[i] = <<"app_key", i>>
      BY <2>1 DEF CodedPacket
    <3> QED
      BY <2>1, <3>1, <3>2 DEF PlainByte
  <2>2. CASE i > 8
    <3>1. i - 8 \in 1 .. 3 + n /\ 8 + (i - 8) = i
      BY <2>2
    <3> QED
      BY <1>8, <3>1
  <2> QED
    BY <2>1, <2>2
<1> QED
  BY <1>9 DEF PlainPacket, plain

LEMMA NoiseStaysNoise ==
  ASSUME CodeSizes, NEW p, HasCells(p, 256), NEW len \in 8 .. 248, secure = TRUE,
         p[11][1] # "encrypted"
  PROVE  Plain(secure, p, len)[11] \in {p[11], Junk}
<1> DEFINE body == Body(p)
           plain == Plain(secure, p, len)
<1> HIDE DEF body, plain
<1>1. Decrypted(plain, body, p, len - 8)
  BY DecryptedFacts DEF plain, body
<1>2. /\ DOMAIN body = 1 .. 248
      /\ body[3] = p[11] /\ plain[11] = security_adapter_decrypt(body, len - 8)[3]
  <2>1. 3 \in 1 .. 248 /\ 8 + 3 = 11
    OBVIOUS
  <2>2. body[3] = p[8 + 3] /\ plain[8 + 3] = security_adapter_decrypt(body, len - 8)[3]
    BY <1>1, <2>1 DEF Decrypted
  <2> QED
    BY <1>1, <2>1, <2>2 DEF Decrypted
<1>3. ~IntactBlock(body, 3)
  BY <1>2 DEF IntactBlock
<1>4. security_adapter_decrypt(body, len - 8)[3] \in {body[3], Junk}
  <2>1. 3 \in DOMAIN body
    BY <1>2
  <2> QED
    BY <1>3, <2>1 DEF security_adapter_decrypt
<1> QED
  BY <1>2, <1>4 DEF plain

LEMMA EncodedLengthFacts ==
  ASSUME CodeSizes, secure \in BOOLEAN, NEW n \in 0 .. 255,
         NEW e, e = gateway_protocol_packet_encode(secure, n), e # Overrun
  PROVE  e.length \in 0 .. 255
<1>1. CASE secure = TRUE
  <2>1. /\ e = Overrun <=> n > 237
        /\ n <= 237 => e.length = 8 + Rounded(3 + n)
    BY <1>1, CodedEncoding
  <2>2. n \in 0 .. 237
    BY <2>1
  <2>3. Rounded(3 + n) \in 16 .. 240
    BY <2>2, RoundedBody DEF CodeSizes
  <2> QED
    BY <2>1, <2>2, <2>3
<1>2. CASE ~secure
  <2>1. e.length = uint8(11 + n)
    BY <1>2, PlainEncoding
  <2> QED
    BY <2>1, Uint8Facts
<1> QED
  BY <1>1, <1>2

-----------------------------------------------------------------------------
(* Decrypting datagrams. *)

LEMMA DecodeKeeps ==
  ASSUME CodeSizes, PacketInv, Decode
  PROVE  PacketInv'
<1>1. /\ stage = "received" /\ arrived \in 1 .. 256 /\ length = uint8(arrived)
      /\ arrived' = arrived /\ secure' = secure /\ secure \in BOOLEAN
  BY DEF PacketInv, Decode
<1>2. stage' = IF DecryptsInPacket(secure, length) THEN "decoded" ELSE "decrypt_overrun"
  BY DEF Decode
<1>3. length \in 0 .. 255 /\ (length \in 8 .. 248 <=> arrived \in 8 .. 248)
  <2>1. CASE arrived = 256
    BY <1>1, <2>1, Uint8Facts
  <2>2. CASE arrived \in 1 .. 255
    BY <1>1, <2>2, Uint8Facts
  <2> QED
    BY <1>1, <2>1, <2>2
<1>4. DecryptsInPacket(secure, length) <=> (secure => arrived \in 8 .. 248)
  BY <1>3, WithinFacts DEF DecryptsInPacket
<1>5. /\ GATEWAY_PROTOCOL_APP_KEY_SIZE = 8
      /\ DEVICE_DATA_MAX_LENGTH - (BodyRoom % SECURITY_KEY_SIZE) = 248
  BY DEF CodeSizes, BodyRoom
<1>6. DecryptionStaysInPacket'
  BY <1>1, <1>2, <1>4, <1>5 DEF DecryptionStaysInPacket
<1> QED
  BY <1>1, <1>2, <1>6 DEF PacketInv

LEMMA NextPacketInv ==
  ASSUME CodeSizes, PacketInv, [Next]_vars
  PROVE  PacketInv'
<1> USE DEF PacketInv, DecryptionStaysInPacket
<1>1. ASSUME NEW n \in PayloadLengths8, Encode(n) PROVE PacketInv'
  <2>1. n \in 0 .. 255
    BY ExchangeAssumption
  <2>2. secure' = secure /\ stage' \in {"sent", "encode_overrun"}
    BY <1>1 DEF Encode
  <2>3. stage' = "sent" => /\ gateway_protocol_packet_encode(secure, n) # Overrun
                           /\ length' = gateway_protocol_packet_encode(secure, n).length
    BY <1>1 DEF Encode
  <2>4. stage' = "sent" => length' \in 0 .. 255
    <3> SUFFICES ASSUME stage' = "sent" PROVE length' \in 0 .. 255
      OBVIOUS
    <3>1. gateway_protocol_packet_encode(secure, n).length \in 0 .. 255
      BY <2>1, <2>3, EncodedLengthFacts DEF PacketInv
    <3> QED
      BY <2>3, <3>1
  <2>5. stage' = "sent" => length' \in 0 .. 256
    BY <2>4
  <2> QED
    BY <2>2, <2>5
<1>2. ASSUME NEW n \in NoiseLengths, Noise(n) PROVE PacketInv'
  <2>1. n \in 0 .. 256
    BY ExchangeAssumption DEF CodeSizes
  <2> QED
    BY <1>2, <2>1 DEF Noise
<1>3. CASE recv_gcom_ch
  <2>1. /\ length \in 0 .. 256 /\ arrived' = length /\ length' = uint8(arrived')
        /\ secure' = secure
        /\ stage' = IF length = 0 THEN "dropped" ELSE "received"
    BY <1>3 DEF recv_gcom_ch
  <2> QED
    BY <2>1
<1>4. CASE Decode
  BY <1>4, DecodeKeeps
<1>5. ASSUME NEW n \in AnswerLengths, Answer(n) PROVE PacketInv'
  BY <1>5 DEF Answer
<1>6. ASSUME NEW n \in ReadLengths \cup {length}, Read(n) PROVE PacketInv'
  BY <1>6 DEF Read
<1>7. CASE DecodeAnswer
  <2>1. secure' = secure /\ stage' \in {"rejected", "answer_overrun", "copy_overrun", "accepted"}
    BY <1>7 DEF DecodeAnswer
  <2> QED
    BY <2>1
<1>8. ASSUME NEW m \in Messages, StoreMessage(m) PROVE PacketInv'
  BY <1>8 DEF StoreMessage
<1>9. CASE PrepareMessage
  <2>1. secure' = secure /\ stage' \in {"prepared", "unterminated"}
    BY <1>9 DEF PrepareMessage
  <2> QED
    BY <2>1
<1>10. ASSUME NEW dev_digits \in 1 .. 3, RetireMessage(dev_digits) PROVE PacketInv'
  <2>1. secure' = secure /\ stage' \in {"retired", "update_cut"}
    BY <1>10 DEF RetireMessage
  <2> QED
    BY <2>1
<1>11. CASE UNCHANGED vars
  BY <1>11 DEF vars
<1> QED
  BY <1>1, <1>2, <1>3, <1>4, <1>5, <1>6, <1>7, <1>8, <1>9, <1>10, <1>11 DEF Next

(* Decrypting a datagram stays in its buffer for those of 8 to 248 bytes,  *)
(* and for no others.                                                      *)
THEOREM DecryptionStays ==
  ASSUME CodeSizes
  PROVE  Spec => []DecryptionStaysInPacket
<1>1. Init => PacketInv
  BY DEF Init, PacketInv, DecryptionStaysInPacket
<1>2. PacketInv /\ [Next]_vars => PacketInv'
  BY NextPacketInv
<1>3. PacketInv => DecryptionStaysInPacket
  BY DEF PacketInv
<1> QED
  BY <1>1, <1>2, <1>3, PTL DEF Spec

-----------------------------------------------------------------------------
(* What is sent comes back. *)

RoundInv ==
  /\ secure \in BOOLEAN
  /\ stage = "idle" => sent = None
  /\ stage = "sent" => IF sent = None THEN packet[11] = Junk ELSE CodedAs(packet, length, sent)
  /\ stage = "received" =>
       /\ HasCells(packet, 256)
       /\ IF sent = None THEN packet[11] \in {Junk, <<"zero", 11>>}
          ELSE CodedAs(packet, length, sent) /\ length # 0
  /\ PacketRoundTrip
  /\ DecodeFailsOnlyOnWrap

LEMMA SizesFacts ==
  ASSUME CodeSizes, secure \in BOOLEAN
  PROVE  /\ HeaderSize = 11
         /\ LongestPayload = IF secure THEN 237 ELSE 244
<1>1. HeaderSize = 11 /\ BodyRoom = 248 /\ SECURITY_KEY_SIZE = 16
  BY DEF CodeSizes, HeaderSize, BodyRoom
<1>2. (248 \div 16) * 16 - 3 = 237 /\ 255 - 11 = 244
  OBVIOUS
<1> QED
  BY <1>1, <1>2 DEF LongestPayload

LEMMA EncodeRounds ==
  ASSUME CodeSizes, RoundInv, NEW n \in 0 .. 255, Encode(n)
  PROVE  RoundInv'
<1> DEFINE e == gateway_protocol_packet_encode(secure, n)
<1>1. /\ stage = "idle" /\ sent' = n /\ secure' = secure /\ secure \in BOOLEAN
      /\ e = Overrun => stage' = "encode_overrun"
      /\ e # Overrun => stage' = "sent" /\ packet' = e.packet /\ length' = e.length
  BY DEF Encode, RoundInv
<1> HIDE DEF e
<1>2. n # None
  BY DEF None
<1>3. CASE secure = TRUE
  <2>1. e = Overrun <=> n > 237
    BY <1>3, CodedEncoding DEF e
  <2>2. n <= 237 => e.length = 8 + Rounded(3 + n) /\ CodedPacket(e.packet, n)
    BY <1>3, CodedEncoding DEF e
  <2>3. stage' = "sent" => CodedAs(packet', length', n)
    BY <1>1, <1>3, <2>1, <2>2 DEF CodedAs
  <2>4. stage' = "encode_overrun" => n > 237
    BY <1>1, <2>1
  <2>5. stage' \in {"sent", "encode_overrun"}
    BY <1>1
  <2>6. LongestPayload' = 237
    BY <1>1, <1>3, SizesFacts DEF LongestPayload
  <2>7. PacketRoundTrip' /\ DecodeFailsOnlyOnWrap'
    BY <1>1, <2>4, <2>5, <2>6 DEF PacketRoundTrip, DecodeFailsOnlyOnWrap
  <2> QED
    BY <1>1, <1>2, <2>3, <2>5, <2>7 DEF RoundInv, CodedAs
<1>4. CASE ~secure
  <2>1. e = Overrun <=> n > 245
    BY <1>4, PlainEncoding DEF e
  <2>2. n <= 245 => e.length = uint8(11 + n) /\ PlainPacket(e.packet, n)
    BY <1>4, PlainEncoding DEF e
  <2>3. stage' = "sent" => CodedAs(packet', length', n)
    BY <1>1, <1>4, <2>1, <2>2 DEF CodedAs
  <2>4. stage' = "encode_overrun" => n > 245
    BY <1>1, <2>1
  <2>5. stage' \in {"sent", "encode_overrun"}
    BY <1>1
  <2>6. LongestPayload' = 244
    BY <1>1, <1>4, SizesFacts DEF LongestPayload
  <2>7. PacketRoundTrip' /\ DecodeFailsOnlyOnWrap'
    BY <1>1, <2>4, <2>5, <2>6 DEF PacketRoundTrip, DecodeFailsOnlyOnWrap
  <2> QED
    BY <1>1, <1>2, <2>3, <2>5, <2>7 DEF RoundInv, CodedAs
<1> QED
  BY <1>1, <1>3, <1>4

LEMMA ReceiveRounds ==
  ASSUME CodeSizes, RoundInv, PacketInv, recv_gcom_ch
  PROVE  RoundInv'
<1>1. /\ stage = "sent" /\ secure' = secure /\ sent' = sent /\ secure \in BOOLEAN
      /\ length \in 0 .. 256 /\ length' = uint8(length)
      /\ stage' = IF length = 0 THEN "dropped" ELSE "received"
      /\ packet' = [i \in 1 .. 256 |-> IF i <= length THEN packet[i] ELSE <<"zero", i>>]
  BY DEF recv_gcom_ch, RoundInv, PacketInv, CodeSizes
<1>2. HasCells(packet', 256)
  BY <1>1 DEF HasCells
<1>3. \A i \in 1 .. 256 : packet'[i] = IF i <= length THEN packet[i] ELSE <<"zero", i>>
  BY <1>1
<1>4. CASE sent = None
  <2>1. packet'[11] \in {Junk, <<"zero", 11>>}
    BY <1>1, <1>3, <1>4 DEF RoundInv
  <2> QED
    BY <1>1, <1>2, <1>4, <2>1 DEF RoundInv, PacketRoundTrip, DecodeFailsOnlyOnWrap
<1>5. CASE sent # None
  <2>1. CodedAs(packet, length, sent)
    BY <1>1, <1>5 DEF RoundInv
  <2>2. CASE secure = TRUE
    <3>1. sent \in 0 .. 237 /\ length = 8 + Rounded(3 + sent) /\ CodedPacket(packet, sent)
      BY <2>1, <2>2 DEF CodedAs
    <3> DEFINE r == Rounded(3 + sent)
    <3>2. r \in 16 .. 240
      BY <3>1, RoundedBody DEF CodeSizes
    <3> HIDE DEF r
    <3>3. length = 8 + r /\ length \in 1 .. 255
      BY <3>1, <3>2 DEF r
    <3>4. length' = length /\ stage' = "received"
      BY <1>1, <3>3, Uint8Facts
    <3>5. \A i \in 1 .. 8 : packet'[i] = packet[i]
      BY <1>3, <3>2, <3>3
    <3>6. \A k \in 1 .. r : packet'[8 + k] = packet[8 + k]
      <4> SUFFICES ASSUME NEW k \in 1 .. r PROVE packet'[8 + k] = packet[8 + k]
        OBVIOUS
      <4>1. 8 + k \in 1 .. 256 /\ 8 + k <= length
        BY <3>2, <3>3
      <4> QED
        BY <1>3, <4>1
    <3>7. CodedPacket(packet', sent)
      BY <3>1, <3>5, <3>6 DEF CodedPacket, r
    <3>8. CodedAs(packet', length', sent')
      BY <1>1, <2>2, <3>1, <3>4, <3>7 DEF CodedAs
    <3>9. length' # 0
      BY <3>3, <3>4
    <3> QED
      BY <1>1, <1>2, <1>5, <2>2, <3>4, <3>8, <3>9
         DEF RoundInv, CodedAs, PacketRoundTrip, DecodeFailsOnlyOnWrap
  <2>3. CASE ~secure
    <3>1. sent \in 0 .. 245 /\ length = uint8(11 + sent) /\ PlainPacket(packet, sent)
      BY <2>1, <2>3 DEF CodedAs
    <3>2. CASE sent = 245
      <4>1. stage' = "dropped"
        BY <1>1, <3>1, <3>2, Uint8Facts
      <4>2. LongestPayload' = 244
        BY <1>1, <2>3, SizesFacts DEF LongestPayload
      <4> QED
        BY <1>1, <1>5, <3>2, <4>1, <4>2 DEF RoundInv, PacketRoundTrip, DecodeFailsOnlyOnWrap
    <3>3. CASE sent # 245
      <4>1. 11 + sent \in 0 .. 255 /\ sent \in Nat
        BY <3>1, <3>3
      <4>0. uint8(11 + sent) = 11 + sent
        BY <4>1, Uint8Facts, Zenon
      <4>2. length = 11 + sent /\ length' = uint8(11 + sent)
        BY <1>1, <3>1, <4>0
      <4>3. stage' = "received" /\ length' # 0
        BY <1>1, <4>0, <4>1, <4>2
      <4>4. PlainPacket(packet', sent)
        <5> SUFFICES ASSUME NEW i \in 1 .. 11 + sent PROVE packet'[i] = PlainByte(sent, i)
          BY DEF PlainPacket
        <5>1. i \in 1 .. 256 /\ i <= length
          BY <4>1, <4>2
        <5> QED
          BY <1>3, <3>1, <5>1 DEF PlainPacket
      <4>5. CodedAs(packet', length', sent')
        BY <1>1, <2>3, <3>1, <4>2, <4>4 DEF CodedAs
      <4> QED
        BY <1>1, <1>2, <1>5, <2>3, <4>3, <4>5
           DEF RoundInv, CodedAs, PacketRoundTrip, DecodeFailsOnlyOnWrap
    <3> QED
      BY <3>2, <3>3
  <2> QED
    BY <1>1, <2>2, <2>3
<1> QED
  BY <1>4, <1>5

(* The receiver reads the byte of the length as a number of eight bits.    *)
LEMMA NumbersFacts ==
  ASSUME NEW n
  PROVE  /\ Numbers(<<"length", n>>) = {n}
         /\ Numbers(Junk) = 0 .. 255
         /\ Numbers(<<"zero", 11>>) = {0}
  BY DEF Numbers, Junk

LEMMA WrapFacts ==
  ASSUME NEW n \in 0 .. 255
  PROVE  uint8(11 + n) = 0 <=> n = 245
  BY DEF uint8

LEMMA LengthsRead ==
  ASSUME CodeSizes, RoundInv, PacketInv, stage = "received", DecryptsInPacket(secure, length)
  PROVE  LET plain == Plain(secure, packet, length)
         IN  /\ sent = None => plain[11] \in {Junk, <<"zero", 11>>}
             /\ sent # None => sent \in 0 .. 245 /\ PlainPacket(plain, sent)
                               /\ uint8(11 + sent) # 0
<1> DEFINE plain == Plain(secure, packet, length)
<1>1. HasCells(packet, 256) /\ secure \in BOOLEAN
  BY DEF RoundInv
<1>2. CASE secure = TRUE
  <2>1. length \in 8 .. 248
    <3>1. length \in 0 .. 255
      <4>1. length = uint8(arrived) /\ arrived \in Int
        BY DEF PacketInv
      <4> QED
        BY <4>1, Uint8Facts
    <3>2. Within(BodyRoom, BodyLength(length))
      BY <1>2 DEF DecryptsInPacket
    <3> QED
      BY <3>1, <3>2, WithinFacts
  <2>2. sent = None => plain[11] \in {Junk, <<"zero", 11>>}
    <3> SUFFICES ASSUME sent = None PROVE plain[11] \in {Junk, <<"zero", 11>>}
      OBVIOUS
    <3>1. packet[11] \in {Junk, <<"zero", 11>>}
      BY DEF RoundInv
    <3>2. packet[11][1] # "encrypted"
      BY <3>1 DEF Junk
    <3>3. plain[11] \in {packet[11], Junk}
      BY <1>1, <1>2, <2>1, <3>2, NoiseStaysNoise
    <3> QED
      BY <3>1, <3>3
  <2>3. ASSUME sent # None
        PROVE  sent \in 0 .. 245 /\ PlainPacket(plain, sent) /\ uint8(11 + sent) # 0
    <3>1. sent \in 0 .. 237 /\ length = 8 + Rounded(3 + sent) /\ CodedPacket(packet, sent)
      BY <1>2, <2>3 DEF RoundInv, CodedAs
    <3>2. PlainPacket(plain, sent)
      BY <1>1, <1>2, <3>1, CodedComesBack
    <3>3. sent \in 0 .. 255 /\ sent # 245 /\ sent \in 0 .. 245
      BY <3>1
    <3>4. uint8(11 + sent) # 0
      BY <3>3, WrapFacts
    <3> QED
      BY <3>2, <3>3, <3>4
  <2> QED
    BY <2>2, <2>3
<1>3. CASE ~secure
  <2>1. plain = packet
    BY <1>3 DEF Plain
  <2>2. sent = None => packet[11] \in {Junk, <<"zero", 11>>}
    BY DEF RoundInv
  <2>3. sent # None => sent \in 0 .. 245 /\ PlainPacket(packet, sent) /\ uint8(11 + sent) # 0
    BY <1>3 DEF RoundInv, CodedAs
  <2> HIDE DEF plain
  <2> QED
    BY <2>1, <2>2, <2>3 DEF plain
<1> QED
  BY <1>1, <1>2, <1>3

LEMMA DecodeRounds ==
  ASSUME CodeSizes, RoundInv, PacketInv, Decode
  PROVE  RoundInv'
<1>1. /\ stage = "received" /\ sent' = sent /\ secure' = secure /\ secure \in BOOLEAN
  BY DEF Decode, RoundInv
<1> DEFINE plain == Plain(secure, packet, length)
<1>2. CASE DecryptsInPacket(secure, length)
  <2>1. /\ sent = None => plain[11] \in {Junk, <<"zero", 11>>}
        /\ sent # None => sent \in 0 .. 245 /\ PlainPacket(plain, sent) /\ uint8(11 + sent) # 0
    BY <1>1, <1>2, LengthsRead
  <2>2. stage' = "decoded"
    BY <1>2 DEF Decode
  <2>3. PICK n \in Numbers(plain[11]) :
          result' = gateway_protocol_packet_decode(secure, packet, length, n)
    BY <1>1, <1>2, SizesFacts DEF Decode, PayloadLengths
  <2> HIDE DEF plain
  <2>4. result' = [ret |-> uint8(11 + n), dev_id |-> plain[9], type |-> plain[10],
                   payload |-> [i \in 1 .. n |-> IF 11 + i <= 256 THEN plain[11 + i] ELSE Junk]]
    BY <1>1, <2>3, SizesFacts
       DEF gateway_protocol_packet_decode, Position, CodeSizes, plain
  <2>5. sent # None => n = sent
    <3> SUFFICES ASSUME sent # None PROVE n = sent
      OBVIOUS
    <3>1. 11 \in 1 .. 11 + sent
      BY <2>1
    <3>2. plain[11] = PlainByte(sent, 11)
      BY <2>1, <3>1 DEF PlainPacket
    <3>3. PlainByte(sent, 11) = <<"length", sent>>
      BY DEF PlainByte
    <3> QED
      BY <2>3, <3>2, <3>3, NumbersFacts
  <2>6. n \in 0 .. 255
    <3>1. CASE sent = None
      <4>1. Numbers(plain[11]) \subseteq 0 .. 255
        <5>1. plain[11] = Junk \/ plain[11] = <<"zero", 11>>
          BY <2>1, <3>1
        <5>2. Numbers(Junk) \subseteq 0 .. 255 /\ Numbers(<<"zero", 11>>) \subseteq 0 .. 255
          <6>1. 0 \in 0 .. 255
            OBVIOUS
          <6> QED
            BY <6>1, NumbersFacts, Zenon
        <5> QED
          BY <5>1, <5>2, Zenon
      <4> QED
        BY <2>3, <4>1
    <3>2. CASE sent # None
      BY <2>1, <2>5, <3>2
    <3> QED
      BY <3>1, <3>2
  <2>7. Len(result'.payload) = n
    <3>1. HasCells(result'.payload, n)
      BY <2>4, <2>6 DEF HasCells
    <3> QED
      BY <3>1, CellsAreSeq
  <2>8. DecodeFailsOnlyOnWrap'
    <3>1. 256 - HeaderSize = 245
      BY <1>1, SizesFacts
    <3>2. result'.ret = uint8(11 + n)
      BY <2>4
    <3>3. result'.ret = 0 <=> n = 245
      BY <2>6, <3>2, WrapFacts
    <3> QED
      BY <2>7, <3>1, <3>3 DEF DecodeFailsOnlyOnWrap
  <2>9. PacketRoundTrip'
    <3>1. CASE sent = None
      BY <1>1, <3>1 DEF PacketRoundTrip
    <3>2. CASE sent # None
      <4>1. n = sent /\ PlainPacket(plain, n) /\ n \in 0 .. 245 /\ uint8(11 + n) # 0
        BY <2>1, <2>5, <3>2
      <4>2. /\ result'.ret = uint8(11 + n)
            /\ result'.dev_id = plain[9] /\ result'.type = plain[10]
            /\ result'.payload = [i \in 1 .. n |->
                                    IF 11 + i <= 256 THEN plain[11 + i] ELSE Junk]
        BY <2>4
      <4>3. plain[9] = <<"dev_id", 1>> /\ plain[10] = <<"type", 1>>
        <5>1. 9 \in 1 .. 11 + n /\ 10 \in 1 .. 11 + n
          BY <4>1
        <5>2. plain[9] = PlainByte(n, 9) /\ plain[10] = PlainByte(n, 10)
          BY <4>1, <5>1 DEF PlainPacket
        <5> QED
          BY <5>2 DEF PlainByte
      <4>4. result'.payload = Field("payload", n)
        <5>1. ASSUME NEW i \in 1 .. n
              PROVE (IF 11 + i <= 256 THEN plain[11 + i] ELSE Junk) = <<"payload", i>>
          <6>1. 11 + i \in 1 .. 11 + n /\ 11 + i <= 256 /\ ~(11 + i <= 11) /\ (11 + i) - 11 = i
            BY <4>1
          <6>2. plain[11 + i] = PlainByte(n, 11 + i)
            BY <4>1, <6>1 DEF PlainPacket
          <6>3. PlainByte(n, 11 + i) = <<"payload", i>>
            BY <6>1 DEF PlainByte
          <6> QED
            BY <6>1, <6>2, <6>3
        <5> QED
          BY <4>2, <5>1 DEF Field
      <4> QED
        BY <1>1, <2>2, <4>1, <4>2, <4>3, <4>4 DEF PacketRoundTrip
    <3> QED
      BY <3>1, <3>2
  <2> QED
    BY <1>1, <2>2, <2>8, <2>9 DEF RoundInv
<1>3. CASE ~DecryptsInPacket(secure, length)
  <2>1. stage' = "decrypt_overrun"
    BY <1>3 DEF Decode
  <2>2. sent = None
    <3> SUFFICES ASSUME sent # None PROVE FALSE
      OBVIOUS
    <3>1. secure = TRUE /\ ~Within(BodyRoom, BodyLength(length))
      BY <1>1, <1>3 DEF DecryptsInPacket
    <3>2. sent \in 0 .. 237 /\ length = 8 + Rounded(3 + sent)
      BY <1>1, <3>1 DEF RoundInv, CodedAs
    <3>3. Rounded(3 + sent) \in 16 .. 240
      BY <3>2, RoundedBody DEF CodeSizes
    <3>4. length \in 8 .. 248 /\ length \in 0 .. 255
      BY <3>2, <3>3
    <3> QED
      BY <3>1, <3>4, WithinFacts
  <2> QED
    BY <1>1, <2>1, <2>2 DEF RoundInv, PacketRoundTrip, DecodeFailsOnlyOnWrap
<1> QED
  BY <1>2, <1>3

LEMMA NextRoundInv ==
  ASSUME CodeSizes, RoundInv, PacketInv, [Next]_vars
  PROVE  RoundInv'
<1> USE DEF RoundInv, PacketRoundTrip, DecodeFailsOnlyOnWrap
<1>1. ASSUME NEW n \in PayloadLengths8, Encode(n) PROVE RoundInv'
  <2>1. n \in 0 .. 255
    BY ExchangeAssumption
  <2> QED
    BY <1>1, <2>1, EncodeRounds
<1>2. ASSUME NEW n \in NoiseLengths, Noise(n) PROVE RoundInv'
  <2>1. /\ stage = "idle" /\ stage' = "sent" /\ sent' = sent /\ secure' = secure
        /\ packet' = [i \in 1 .. 256 |-> Junk]
    BY <1>2 DEF Noise, CodeSizes
  <2>2. packet'[11] = Junk
    BY <2>1
  <2> QED
    BY <2>1, <2>2
<1>3. CASE recv_gcom_ch
  BY <1>3, ReceiveRounds
<1>4. CASE Decode
  BY <1>4, DecodeRounds
<1>5. ASSUME NEW n \in AnswerLengths, Answer(n) PROVE RoundInv'
  BY <1>5 DEF Answer
<1>6. ASSUME NEW n \in ReadLengths \cup {length}, Read(n) PROVE RoundInv'
  BY <1>6 DEF Read
<1>7. CASE DecodeAnswer
  <2>1. secure' = secure /\ stage' \in {"rejected", "answer_overrun", "copy_overrun", "accepted"}
    BY <1>7 DEF DecodeAnswer
  <2> QED
    BY <2>1
<1>8. ASSUME NEW m \in Messages, StoreMessage(m) PROVE RoundInv'
  BY <1>8 DEF StoreMessage
<1>9. CASE PrepareMessage
  <2>1. secure' = secure /\ stage' \in {"prepared", "unterminated"}
    BY <1>9 DEF PrepareMessage
  <2> QED
    BY <2>1
<1>10. ASSUME NEW dev_digits \in 1 .. 3, RetireMessage(dev_digits) PROVE RoundInv'
  <2>1. secure' = secure /\ stage' \in {"retired", "update_cut"}
    BY <1>10 DEF RetireMessage
  <2> QED
    BY <2>1
<1>11. CASE UNCHANGED vars
  BY <1>11 DEF vars, CodedAs, LongestPayload
<1> QED
  BY <1>1, <1>2, <1>3, <1>4, <1>5, <1>6, <1>7, <1>8, <1>9, <1>10, <1>11 DEF Next

LEMMA InitRoundInv == Init => RoundInv /\ PacketInv
  BY DEF Init, RoundInv, PacketInv, PacketRoundTrip, DecodeFailsOnlyOnWrap,
         DecryptionStaysInPacket, None

(* Every payload that packet_encode can encode, up to the longest, comes   *)
(* out of packet_decode unchanged, whatever its length; longer ones only   *)
(* are refused, dropped or decrypted behind the buffer.                    *)
THEOREM PacketsComeBack ==
  ASSUME CodeSizes
  PROVE  Spec => []PacketRoundTrip
<1>1. RoundInv /\ PacketInv /\ [Next]_vars => (RoundInv /\ PacketInv)'
  BY NextRoundInv, NextPacketInv
<1>2. RoundInv => PacketRoundTrip
  BY DEF RoundInv
<1> QED
  BY <1>1, <1>2, InitRoundInv, PTL DEF Spec

(* Whatever datagram arrives, packet_decode returns 0 only for a length    *)
(* field of 245.                                                           *)
THEOREM FailsOnlyOnWrap ==
  ASSUME CodeSizes
  PROVE  Spec => []DecodeFailsOnlyOnWrap
<1>1. RoundInv /\ PacketInv /\ [Next]_vars => (RoundInv /\ PacketInv)'
  BY NextRoundInv, NextPacketInv
<1>2. RoundInv => DecodeFailsOnlyOnWrap
  BY DEF RoundInv
<1> QED
  BY <1>1, <1>2, InitRoundInv, PTL DEF Spec

-----------------------------------------------------------------------------
(* Answers of the platform, of any length, read into a buffer of any size  *)
(* that holds the gateway's own packet.                                    *)

AnswerSizes ==
  /\ SECURITY_KEY_SIZE = 16
  /\ GATEWAY_ID_SIZE = 6
  /\ AUTH_BUFFER >= 22

AnswerByte(type, n, k) ==
  IF k = 1 THEN <<type, 1>>
  ELSE IF k = 2 THEN <<"length", n>>
  ELSE IF k = 3 THEN <<"length_high", n>>
  ELSE <<"payload", k - 3>>

(* The cells from the first to the given one of an encoded answer.         *)
AnswerCells(p, type, n, size) ==
  \A i \in 1 .. size :
    /\ i <= 6 => p[i] = <<"gateway_id", i>>
    /\ i > 6 => CodedByte(p[i], type, i - 6, 3 + n, AnswerByte(type, n, i - 6))

LEMMA EncodedAnswer ==
  ASSUME AnswerSizes, NEW type, NEW n \in Nat
  PROVE  LET p == gateway_telemetry_protocol_encode_packet(type, n)
         IN  /\ HasCells(p, uint16(Rounded(3 + n) + 6))
             /\ AnswerCells(p, type, n, uint16(Rounded(3 + n) + 6))
<1> DEFINE id      == Field("gateway_id", 6)
           head    == <<<<type, 1>>, <<"length", n>>, <<"length_high", n>>>>
           payload == Field("payload", n)
           front   == id \o head
           plain   == front \o payload
           r       == Rounded(3 + n)
           left    == [i \in 1 .. r - (3 + n) |-> <<"left", i>>]
           buffer  == plain \o left
           key     == Id(buffer)
           rest    == AfterId(buffer)
           coded   == security_adapter_encrypt(type, rest, 3 + n)
           whole   == key \o coded
           size    == uint16(r + 6)
<1>1. HasCells(id, 6) /\ \A i \in 1 .. 6 : id[i] = <<"gateway_id", i>>
  BY FieldCells
<1>2. /\ HasCells(head, 3)
      /\ head[1] = <<type, 1>> /\ head[2] = <<"length", n>> /\ head[3] = <<"length_high", n>>
  BY ThreeCells
<1>3. HasCells(payload, n) /\ \A i \in 1 .. n : payload[i] = <<"payload", i>>
  BY FieldCells
<1>4. r \in Nat /\ 3 + n <= r
  BY RoundedFacts DEF AnswerSizes
<1> HIDE DEF id, head, payload, r
<1>5. Joined(front, id, 6, head, 3)
  BY <1>1, <1>2, JoinedCells
<1> HIDE DEF front
<1>6. Joined(plain, front, 9, payload, n)
  <2>1. HasCells(front, 9)
    BY <1>5 DEF Joined
  <2> QED
    BY <1>3, <2>1, JoinedCells
<1> HIDE DEF plain
<1>7. HasCells(plain, 9 + n)
  BY <1>6 DEF Joined
<1>8. HasCells(left, r - (3 + n))
  BY <1>4 DEF HasCells
<1> HIDE DEF left
<1>9. Joined(buffer, plain, 9 + n, left, r - (3 + n))
  <2>1. 9 + n \in Nat /\ r - (3 + n) \in Nat
    BY <1>4
  <2> QED
    BY <1>7, <1>8, <2>1, JoinedCells
<1> HIDE DEF buffer
<1>10. HasCells(buffer, 6 + r)
  <2>1. (9 + n) + (r - (3 + n)) = 6 + r
    BY <1>4
  <2> QED
    BY <1>9, <2>1 DEF Joined
<1>11. Cut(key, buffer, 1, 6) /\ Cut(rest, buffer, 7, 6 + r)
  <2>1. Len(buffer) = 6 + r
    BY <1>10, CellsAreSeq
  <2>2. key = SubSeq(buffer, 1, 6) /\ rest = SubSeq(buffer, 7, 6 + r)
    BY <2>1 DEF Id, AfterId, AnswerSizes
  <2>3. 6 + r \in Nat /\ 1 \in 1 .. 6 + r + 1 /\ 6 \in 1 - 1 .. 6 + r
        /\ 7 \in 1 .. 6 + r + 1 /\ 6 + r \in 7 - 1 .. 6 + r
    BY <1>4
  <2>4. Cut(SubSeq(buffer, 1, 6), buffer, 1, 6)
    BY <1>10, <2>3, CutCells
  <2>5. Cut(SubSeq(buffer, 7, 6 + r), buffer, 7, 6 + r)
    BY <1>10, <2>3, CutCells
  <2> QED
    BY <2>2, <2>4, <2>5
<1> HIDE DEF key, rest
<1>12. HasCells(key, 6)
  BY <1>11 DEF Cut
<1>13. HasCells(rest, r)
  <2>1. (6 + r) - 7 + 1 = r
    BY <1>4
  <2> QED
    BY <1>11, <2>1 DEF Cut
<1>14. HasCells(coded, r) /\ \A k \in 1 .. r : coded[k] = Encrypted(type, rest[k], Place(k))
  <2>1. DOMAIN rest = 1 .. r
    BY <1>13, CellsAreSeq
  <2>2. coded = [k \in 1 .. r |-> IF k <= r THEN Encrypted(type, rest[k], Place(k)) ELSE rest[k]]
    BY <2>1 DEF security_adapter_encrypt, r
  <2> HIDE DEF coded
  <2> QED
    BY <1>4, <2>2 DEF HasCells
<1> HIDE DEF coded
<1>15. Joined(whole, key, 6, coded, r)
  BY <1>4, <1>12, <1>14, JoinedCells
<1> HIDE DEF whole
<1>16. HasCells(whole, 6 + r)
  BY <1>15 DEF Joined
<1>17. size \in 0 .. 6 + r
  BY <1>4 DEF uint16
<1>18. gateway_telemetry_protocol_encode_packet(type, n) = SubSeq(whole, 1, size)
  <2>1. Len(plain) = 9 + n
    BY <1>7, CellsAreSeq
  <2>2. Len(plain) - GATEWAY_ID_SIZE = 3 + n
    BY <2>1 DEF AnswerSizes
  <2>3. plain = Field("gateway_id", GATEWAY_ID_SIZE)
                \o <<<<type, 1>>, <<"length", n>>, <<"length_high", n>>>> \o Field("payload", n)
    BY DEF plain, front, id, head, payload, AnswerSizes
  <2>4. EncodedLength(3 + n) = size
    BY DEF EncodedLength, AnswerSizes, r
  <2> QED
    BY <2>2, <2>3, <2>4
       DEF gateway_telemetry_protocol_encode_packet, whole, coded, key, rest, buffer, left, r
<1> HIDE DEF size
<1>19. Cut(SubSeq(whole, 1, size), whole, 1, size)
  BY <1>4, <1>16, <1>17, CutCells
<1>20. HasCells(SubSeq(whole, 1, size), size)
  <2>1. size - 1 + 1 = size
    BY <1>17
  <2> QED
    BY <1>19, <2>1 DEF Cut
<1>21. ASSUME NEW i \in 1 .. size PROVE SubSeq(whole, 1, size)[i] = whole[i] /\ i \in 1 .. 6 + r
  <2>1. i \in 1 .. size - 1 + 1 /\ 1 + i - 1 = i /\ i \in 1 .. 6 + r
    BY <1>4, <1>17
  <2> QED
    BY <1>19, <2>1 DEF Cut
<1>22. ASSUME NEW i \in 1 .. 6 PROVE whole[i] = <<"gateway_id", i>>
  <2>1. whole[i] = key[i]
    BY <1>15 DEF Joined
  <2>2. key[i] = buffer[i]
    BY <1>11 DEF Cut
  <2>3. buffer[i] = plain[i]
    <3>1. i \in 1 .. 9 + n
      OBVIOUS
    <3> QED
      BY <1>9, <3>1 DEF Joined
  <2>4. plain[i] = front[i] /\ front[i] = id[i]
    BY <1>5, <1>6 DEF Joined
  <2> QED
    BY <1>1, <2>1, <2>2, <2>3, <2>4
<1>23. ASSUME NEW k \in 1 .. r
       PROVE  CodedByte(whole[6 + k], type, k, 3 + n, AnswerByte(type, n, k))
  <2>1. whole[6 + k] = Encrypted(type, rest[k], Place(k))
    BY <1>14, <1>15 DEF Joined
  <2>2. ASSUME k <= 3 + n PROVE rest[k] = AnswerByte(type, n, k)
    <3>1. k \in 1 .. (6 + r) - 7 + 1 /\ 7 + k - 1 = 6 + k /\ 6 + k \in 1 .. 9 + n
      BY <1>4, <2>2
    <3>2. rest[k] = buffer[6 + k]
      BY <1>11, <3>1 DEF Cut
    <3>3. buffer[6 + k] = plain[6 + k]
      BY <1>9, <3>1 DEF Joined
    <3>4. CASE k <= 3
      <4>1. k \in 1 .. 3 /\ 6 + k \in 1 .. 9
        BY <3>4
      <4>2. plain[6 + k] = front[6 + k] /\ front[6 + k] = head[k]
        BY <1>5, <1>6, <4>1 DEF Joined
      <4>3. k = 1 \/ k = 2 \/ k = 3
        BY <4>1
      <4> QED
        BY <1>2, <3>2, <3>3, <4>2, <4>3 DEF AnswerByte
    <3>5. CASE k > 3
      <4>1. k - 3 \in 1 .. n /\ 9 + (k - 3) = 6 + k
        BY <2>2, <3>5
      <4>2. plain[9 + (k - 3)] = payload[k - 3]
        BY <1>6, <4>1 DEF Joined
      <4> QED
        BY <1>3, <3>2, <3>3, <3>5, <4>1, <4>2 DEF AnswerByte
    <3> QED
      BY <3>4, <3>5
  <2> QED
    BY <2>1, <2>2 DEF CodedByte
<1> DEFINE answer == SubSeq(whole, 1, size)
<1>24. ASSUME NEW i \in 1 .. size
       PROVE  /\ i <= 6 => answer[i] = <<"gateway_id", i>>
              /\ i > 6 => CodedByte(answer[i], type, i - 6, 3 + n, AnswerByte(type, n, i - 6))
  <2>1. answer[i] = whole[i] /\ i \in 1 .. 6 + r
    BY <1>21
  <2> HIDE DEF answer
  <2>2. ASSUME i <= 6 PROVE answer[i] = <<"gateway_id", i>>
    <3>1. i \in 1 .. 6
      BY <2>1, <2>2
    <3> QED
      BY <1>22, <2>1, <3>1
  <2>3. ASSUME i > 6
        PROVE  CodedByte(answer[i], type, i - 6, 3 + n, AnswerByte(type, n, i - 6))
    <3>1. i - 6 \in 1 .. r /\ 6 + (i - 6) = i
      BY <1>4, <2>1, <2>3
    <3>2. CodedByte(whole[6 + (i - 6)], type, i - 6, 3 + n, AnswerByte(type, n, i - 6))
      BY <1>23, <3>1
    <3>3. whole[6 + (i - 6)] = answer[i]
      BY <2>1, <3>1
    <3> QED
      BY <3>2, <3>3
  <2> QED
    BY <2>2, <2>3
<1>25. AnswerCells(answer, type, n, size)
  <2> HIDE DEF answer
  <2> QED
    BY <1>24 DEF AnswerCells
<1> QED
  BY <1>18, <1>20, <1>25 DEF size, r

LEMMA AuthCells ==
  ASSUME AnswerSizes
  PROVE  LET auth == gateway_telemetry_protocol_encode_packet("AUTH", 0)
         IN  Len(auth) = 22 /\ \A i \in 7 .. 22 : \E b : auth[i] = Encrypted("AUTH", b, Place(i - 6))
<1> DEFINE auth == gateway_telemetry_protocol_encode_packet("AUTH", 0)
<1>1. Rounded(3 + 0) = 16
  BY DEF Rounded, AnswerSizes
<1>2. uint16(Rounded(3 + 0) + 6) = 22
  BY <1>1 DEF uint16
<1>3. HasCells(auth, uint16(Rounded(3 + 0) + 6))
      /\ AnswerCells(auth, "AUTH", 0, uint16(Rounded(3 + 0) + 6))
  BY EncodedAnswer
<1> HIDE DEF auth
<1>4. HasCells(auth, 22) /\ AnswerCells(auth, "AUTH", 0, 22)
  BY <1>2, <1>3
<1>5. Len(auth) = 22
  BY <1>4, CellsAreSeq
<1>6. \A i \in 7 .. 22 : \E b : auth[i] = Encrypted("AUTH", b, Place(i - 6))
  BY <1>4 DEF AnswerCells, CodedByte
<1> QED
  BY <1>5, <1>6 DEF auth

(* The answer that is on its way, and the buffer after a read.             *)
AnswerSent ==
  /\ sent \in Nat
  /\ length = uint16(Rounded(3 + sent) + 6)
  /\ HasCells(packet, length)
  /\ AnswerCells(packet, "CONFIG", sent, length)

AnswerRead ==
  /\ sent \in Nat
  /\ arrived \in Nat \cup {-1} /\ length = uint16(arrived)
  /\ arrived <= AUTH_BUFFER /\ arrived <= Rounded(3 + sent) + 6
  /\ arrived >= 6 =>
       /\ HasCells(packet, AUTH_BUFFER)
       /\ AnswerCells(packet, "CONFIG", sent, arrived)
       /\ \A i \in arrived + 1 .. AUTH_BUFFER :
            /\ i <= 22 => \E b : packet[i] = Encrypted("AUTH", b, Place(i - 6))
            /\ i > 22 => packet[i] = <<"left", i>>

AnswerInv ==
  /\ stage = "answered" => AnswerSent
  /\ stage = "read" => AnswerRead
  /\ TelemetryRoundTrip

LEMMA ReadKeepsAnswer ==
  ASSUME AnswerSizes, AnswerInv, NEW n \in ReadLengths \cup {length}, Read(n)
  PROVE  AnswerInv'
<1>1. /\ stage = "answered" /\ AnswerSent
      /\ n <= length /\ n <= AUTH_BUFFER
      /\ stage' = "read" /\ arrived' = n /\ length' = uint16(n) /\ sent' = sent
      /\ packet' = BufferAfterRead(SubSeq(packet, 1, n))
  BY DEF Read, AnswerInv
<1>2. sent \in Nat /\ HasCells(packet, length) /\ AnswerCells(packet, "CONFIG", sent, length)
  BY <1>1 DEF AnswerSent
<1> DEFINE r == Rounded(3 + sent)
<1>3. r \in Nat
  BY <1>2, RoundedFacts DEF AnswerSizes
<1>4. length = uint16(r + 6)
  BY <1>1 DEF AnswerSent
<1> HIDE DEF r
<1>5. length \in Nat /\ length <= r + 6
  BY <1>3, <1>4 DEF uint16
<1>6. n \in Nat \cup {-1}
  BY <1>5, ExchangeAssumption
<1>7. AUTH_BUFFER \in Nat
  BY TelemetryAssumption
<1>8. ASSUME n >= 6
      PROVE  /\ HasCells(packet', AUTH_BUFFER)
             /\ AnswerCells(packet', "CONFIG", sent, n)
             /\ \A i \in n + 1 .. AUTH_BUFFER :
                  /\ i <= 22 => \E b : packet'[i] = Encrypted("AUTH", b, Place(i - 6))
                  /\ i > 22 => packet'[i] = <<"left", i>>
  <2> DEFINE bytes == SubSeq(packet, 1, n)
             auth  == gateway_telemetry_protocol_encode_packet("AUTH", 0)
  <2>1. Cut(bytes, packet, 1, n)
    <3>1. 1 \in 1 .. length + 1 /\ n \in 1 - 1 .. length
      BY <1>1, <1>5, <1>6, <1>8
    <3> QED
      BY <1>2, <1>5, <3>1, CutCells
  <2> HIDE DEF bytes
  <2>2. HasCells(bytes, n) /\ \A i \in 1 .. n : bytes[i] = packet[i]
    <3>1. n - 1 + 1 = n /\ \A i \in 1 .. n : 1 + i - 1 = i
      BY <1>6, <1>8
    <3> QED
      BY <2>1, <3>1 DEF Cut
  <2>3. Len(bytes) = n
    BY <2>2, CellsAreSeq
  <2>4. Len(auth) = 22 /\ \A i \in 7 .. 22 : \E b : auth[i] = Encrypted("AUTH", b, Place(i - 6))
    BY AuthCells
  <2>5. packet' = [i \in 1 .. AUTH_BUFFER |->
                     IF i <= Len(bytes) THEN bytes[i]
                     ELSE IF i <= Len(auth) THEN auth[i]
                     ELSE <<"left", i>>]
    BY <1>1 DEF BufferAfterRead, bytes
  <2> HIDE DEF auth
  <2> DEFINE left(i) == IF i <= 22 THEN auth[i] ELSE <<"left", i>>
  <2>6. packet' = [i \in 1 .. AUTH_BUFFER |-> IF i <= n THEN bytes[i] ELSE left(i)]
    BY <2>3, <2>4, <2>5
  <2>7. HasCells(packet', AUTH_BUFFER)
    BY <1>7, <2>6 DEF HasCells
  <2>8. AnswerCells(packet', "CONFIG", sent, n)
    <3>1. \A i \in 1 .. n : packet'[i] = packet[i] /\ i \in 1 .. length
      BY <1>1, <1>5, <1>6, <1>7, <2>2, <2>6
    <3> QED
      BY <1>2, <3>1 DEF AnswerCells
  <2>9. ASSUME NEW i \in n + 1 .. AUTH_BUFFER
        PROVE  /\ i <= 22 => \E b : packet'[i] = Encrypted("AUTH", b, Place(i - 6))
               /\ i > 22 => packet'[i] = <<"left", i>>
    <3>1. i \in 1 .. AUTH_BUFFER /\ ~(i <= n) /\ i >= 7
      BY <1>6, <1>7, <1>8
    <3>2. packet'[i] = left(i)
      BY <2>6, <3>1
    <3>3. i <= 22 => i \in 7 .. 22
      BY <3>1
    <3> QED
      BY <2>4, <3>2, <3>3
  <2> QED
    BY <2>7, <2>8, <2>9
<1>9. AnswerRead'
  <2>1. n <= r + 6
    BY <1>1, <1>3, <1>5, <1>6
  <2> QED
    BY <1>1, <1>2, <1>6, <1>8, <2>1 DEF AnswerRead, r
<1> QED
  BY <1>1, <1>9 DEF AnswerInv, TelemetryRoundTrip

-----------------------------------------------------------------------------
(* plain is the buffer p, with what follows the id decrypted over s bytes. *)
AnswerDecrypted(plain, body, p, s) ==
  /\ DOMAIN body = 1 .. AUTH_BUFFER - 6
  /\ HasCells(plain, AUTH_BUFFER)
  /\ \A k \in 1 .. AUTH_BUFFER - 6 : /\ body[k] = p[6 + k]
                                     /\ plain[6 + k] = security_adapter_decrypt(body, s)[k]

LEMMA AnswerDecryptedFacts ==
  ASSUME AnswerSizes, NEW p, HasCells(p, AUTH_BUFFER),
         NEW n \in Nat, n >= 6, n <= 65535
  PROVE  AnswerDecrypted(AnswerPlain(p, n), AfterId(p), p, n - 6)
<1> DEFINE key   == Id(p)
           body  == AfterId(p)
           dec   == security_adapter_decrypt(body, n - 6)
           plain == AnswerPlain(p, n)
           room  == AUTH_BUFFER - 6
<1>1. AUTH_BUFFER \in Nat /\ AUTH_BUFFER >= 22 /\ room \in Nat
  BY TelemetryAssumption DEF AnswerSizes
<1>2. Cut(key, p, 1, 6) /\ Cut(body, p, 7, AUTH_BUFFER)
  <2>1. Len(p) = AUTH_BUFFER
    BY <1>1, CellsAreSeq
  <2>2. key = SubSeq(p, 1, 6) /\ body = SubSeq(p, 7, AUTH_BUFFER)
    BY <2>1 DEF Id, AfterId, AnswerSizes
  <2>3. /\ 1 \in 1 .. AUTH_BUFFER + 1 /\ 6 \in 1 - 1 .. AUTH_BUFFER
        /\ 7 \in 1 .. AUTH_BUFFER + 1 /\ AUTH_BUFFER \in 7 - 1 .. AUTH_BUFFER
    BY <1>1
  <2>4. Cut(SubSeq(p, 1, 6), p, 1, 6)
    BY <1>1, <2>3, CutCells
  <2>5. Cut(SubSeq(p, 7, AUTH_BUFFER), p, 7, AUTH_BUFFER)
    BY <1>1, <2>3, CutCells
  <2> QED
    BY <2>2, <2>4, <2>5
<1>3. plain = key \o dec
  <2>1. AnswerLength(n) = n - 6
    BY DEF AnswerLength, uint16, AnswerSizes
  <2> QED
    BY <2>1 DEF AnswerPlain
<1> HIDE DEF key, body, plain
<1>4. HasCells(key, 6) /\ HasCells(body, room)
  <2>1. AUTH_BUFFER - 7 + 1 = room
    BY <1>1
  <2> QED
    BY <1>2, <2>1 DEF Cut
<1> HIDE DEF room
<1>5. DOMAIN body = 1 .. room
  BY <1>4 DEF HasCells
<1>6. HasCells(dec, room)
  BY <1>1, <1>5 DEF security_adapter_decrypt, HasCells
<1> HIDE DEF dec
<1>7. Joined(plain, key, 6, dec, room)
  BY <1>1, <1>3, <1>4, <1>6, JoinedCells
<1>8. HasCells(plain, AUTH_BUFFER)
  <2>1. 6 + room = AUTH_BUFFER
    BY <1>1 DEF room
  <2> QED
    BY <1>7, <2>1 DEF Joined
<1>9. ASSUME NEW k \in 1 .. room PROVE body[k] = p[6 + k] /\ plain[6 + k] = dec[k]
  <2>1. plain[6 + k] = dec[k]
    BY <1>7 DEF Joined
  <2>2. k \in 1 .. AUTH_BUFFER - 7 + 1 /\ 7 + k - 1 = 6 + k
    BY <1>1 DEF room
  <2>3. body[k] = p[6 + k]
    BY <1>2, <2>2 DEF Cut
  <2> QED
    BY <2>1, <2>3
<1> QED
  BY <1>5, <1>8, <1>9 DEF AnswerDecrypted, body, plain, dec, room

LEMMA TooShort ==
  ASSUME AnswerSizes, NEW n \in -1 .. 5
  PROVE  ~DecryptsInBuffer(uint16(n))
<1>1. AnswerLength(uint16(n)) >= 65529
  <2>1. CASE n = -1
    <3>0. ASSUME NEW m \in -6 .. -1 PROVE m % 65536 = 65536 + m
      OBVIOUS
    <3>1. uint16(n) = 65535
      BY <2>1, <3>0 DEF uint16
    <3> QED
      BY <2>1, <3>1 DEF AnswerLength, uint16, AnswerSizes
  <2>2. CASE n \in 0 .. 5
    <3>1. uint16(n) = n
      BY <2>2 DEF uint16
    <3>2. (n - 6) % 65536 = 65530 + n
      BY <2>2
    <3> QED
      BY <2>2, <3>1, <3>2 DEF AnswerLength, uint16, AnswerSizes
  <2> QED
    BY <2>1, <2>2
<1> HIDE DEF AnswerSizes
<1>2. AnswerLength(uint16(n)) \in Int
  BY DEF AnswerLength, uint16, AnswerSizes
<1> QED
  BY <1>1, <1>2 DEF DecryptsInBuffer, Within, Terminates, AnswerSizes

(* Reads that reach the type, in a buffer where decrypting stays.          *)
LEMMA LongEnough ==
  ASSUME AnswerSizes, AnswerRead, arrived >= 6
  PROVE  /\ arrived \in 6 .. AUTH_BUFFER /\ length = arrived
         /\ AnswerLength(length) = arrived - 6
         /\ AnswerDecrypted(AnswerPlain(packet, length), AfterId(packet), packet, arrived - 6)
<1>1. /\ arrived \in 6 .. AUTH_BUFFER /\ length = uint16(arrived)
      /\ arrived \in Nat /\ arrived >= 6 /\ arrived <= 65535
  BY TelemetryAssumption DEF AnswerRead
<1>2. length = arrived
  BY <1>1 DEF uint16
<1>3. AnswerLength(length) = arrived - 6
  BY <1>1, <1>2 DEF AnswerLength, uint16, AnswerSizes
<1>4. HasCells(packet, AUTH_BUFFER)
  BY DEF AnswerRead
<1> QED
  BY <1>1, <1>2, <1>3, <1>4, AnswerDecryptedFacts

(* The bytes of complete blocks come back.                                 *)
LEMMA AnswerComesBack ==
  ASSUME AnswerSizes, AnswerRead, arrived >= 6,
         NEW r \in Nat, r % 16 = 0, r <= arrived - 6, NEW k \in 1 .. r, k <= 3 + sent
  PROVE  AnswerPlain(packet, length)[6 + k] = AnswerByte("CONFIG", sent, k)
<1> DEFINE plain == AnswerPlain(packet, length)
           body  == AfterId(packet)
           s     == Rounded(arrived - 6)
<1>1. /\ arrived \in 6 .. AUTH_BUFFER /\ AUTH_BUFFER \in Nat
      /\ AnswerDecrypted(plain, body, packet, arrived - 6)
  BY LongEnough, TelemetryAssumption
<1>2. arrived - 6 \in Nat /\ s \in Nat /\ arrived - 6 <= s
  <2>1. arrived - 6 \in Nat
    BY <1>1
  <2> QED
    BY <2>1, RoundedFacts DEF AnswerSizes
<1> HIDE DEF plain, body, s
<1>3. ASSUME NEW m \in 1 .. r
      PROVE  CodedByte(body[m], "CONFIG", m, 3 + sent, AnswerByte("CONFIG", sent, m))
  <2>1. m \in 1 .. AUTH_BUFFER - 6 /\ 6 + m \in 1 .. arrived /\ 6 + m > 6 /\ (6 + m) - 6 = m
    BY <1>1
  <2>2. body[m] = packet[6 + m]
    BY <1>1, <2>1 DEF AnswerDecrypted
  <2>3. CodedByte(packet[6 + m], "CONFIG", m, 3 + sent, AnswerByte("CONFIG", sent, m))
    <3>1. AnswerCells(packet, "CONFIG", sent, arrived)
      BY DEF AnswerRead
    <3>2. CodedByte(packet[6 + m], "CONFIG", (6 + m) - 6, 3 + sent,
                    AnswerByte("CONFIG", sent, (6 + m) - 6))
      BY <2>1, <3>1 DEF AnswerCells
    <3> QED
      BY <2>1, <3>2
  <2> QED
    BY <2>2, <2>3
<1>4. CodedCells(body, "CONFIG", r)
  BY <1>3 DEF CodedCells, CodedByte
<1>5. IntactBlock(body, k)
  BY <1>4, IntactFacts DEF AnswerSizes
<1>6. k \in 1 .. AUTH_BUFFER - 6 /\ ~(k > s)
  BY <1>1, <1>2
<1>7. plain[6 + k] = body[k][3]
  BY <1>1, <1>5, <1>6 DEF AnswerDecrypted, security_adapter_decrypt, s
<1>8. body[k][3] = AnswerByte("CONFIG", sent, k)
  BY <1>3 DEF CodedByte, Encrypted
<1> QED
  BY <1>7, <1>8 DEF plain

(* A part of the first block is never a configuration.                     *)
LEMMA PartIsNoConfig ==
  ASSUME AnswerSizes, AnswerRead, arrived \in 6 .. 21
  PROVE  AnswerPlain(packet, length)[7] # <<"CONFIG", 1>>
<1> DEFINE plain == AnswerPlain(packet, length)
           body  == AfterId(packet)
<1>1. /\ AUTH_BUFFER \in Nat /\ AUTH_BUFFER >= 22
      /\ AnswerDecrypted(plain, body, packet, arrived - 6)
  BY LongEnough, TelemetryAssumption DEF AnswerSizes
<1> HIDE DEF plain, body
<1>2. /\ 1 \in DOMAIN body /\ 16 \in DOMAIN body
      /\ body[1] = packet[7] /\ body[16] = packet[22]
      /\ plain[7] = security_adapter_decrypt(body, arrived - 6)[1]
  <2>1. 1 \in 1 .. AUTH_BUFFER - 6 /\ 16 \in 1 .. AUTH_BUFFER - 6 /\ 6 + 1 = 7 /\ 6 + 16 = 22
    BY <1>1
  <2>2. body[1] = packet[6 + 1] /\ plain[6 + 1] = security_adapter_decrypt(body, arrived - 6)[1]
    BY <1>1, <2>1 DEF AnswerDecrypted
  <2>3. body[16] = packet[6 + 16]
    BY <1>1, <2>1 DEF AnswerDecrypted
  <2> QED
    BY <1>1, <2>1, <2>2, <2>3 DEF AnswerDecrypted
<1>3. PICK b : packet[22] = Encrypted("AUTH", b, Place(22 - 6))
  <2>1. 22 \in arrived + 1 .. AUTH_BUFFER
    BY <1>1
  <2> QED
    BY <2>1 DEF AnswerRead
<1>4. CASE arrived = 6
  <2>1. PICK c : packet[7] = Encrypted("AUTH", c, Place(7 - 6))
    <3>1. 7 \in arrived + 1 .. AUTH_BUFFER
      BY <1>1, <1>4
    <3> QED
      BY <1>4, <3>1 DEF AnswerRead
  <2>2. Rounded(arrived - 6) = 0
    BY <1>4 DEF Rounded, AnswerSizes
  <2>3. plain[7] = packet[7]
    BY <1>2, <2>2 DEF security_adapter_decrypt
  <2> QED
    BY <2>1, <2>3 DEF Encrypted, plain
<1>5. CASE arrived \in 7 .. 21
  <2>1. PICK c : packet[7] = Encrypted("CONFIG", c, Place(7 - 6))
    <3>1. 7 \in 1 .. arrived
      BY <1>5
    <3>2. AnswerCells(packet, "CONFIG", sent, arrived)
      BY DEF AnswerRead
    <3>3. CodedByte(packet[7], "CONFIG", 7 - 6, 3 + sent, AnswerByte("CONFIG", sent, 7 - 6))
      BY <3>1, <3>2 DEF AnswerCells
    <3> QED
      BY <3>3 DEF CodedByte
  <2>2. Rounded(arrived - 6) >= 1 /\ Rounded(arrived - 6) \in Nat
    <3>1. arrived - 6 \in Nat
      BY <1>5
    <3>2. Rounded(arrived - 6) \in Nat /\ arrived - 6 <= Rounded(arrived - 6)
      BY <3>1, RoundedFacts DEF AnswerSizes
    <3> QED
      BY <1>5, <3>2
  <2>3. 16 \in Block(1)
    BY DEF Block, Place, AnswerSizes
  <2>4. ~IntactBlock(body, 1)
    <3>1. body[1][2] = "CONFIG" /\ body[16][2] = "AUTH"
      BY <1>2, <1>3, <2>1 DEF Encrypted
    <3> QED
      BY <2>3, <3>1 DEF IntactBlock
  <2>5. plain[7] = Junk
    BY <1>2, <2>2, <2>4 DEF security_adapter_decrypt
  <2> QED
    BY <2>5 DEF Junk, plain
<1> QED
  BY <1>4, <1>5

(* Without the end of its last block, the last byte of a payload is lost.  *)
LEMMA PartLosesPayload ==
  ASSUME AnswerSizes, AnswerRead, arrived \in 22 .. Rounded(3 + sent) + 5,
         9 + sent <= AUTH_BUFFER, Within(AUTH_BUFFER - 6, arrived - 6)
  PROVE  sent > 0 /\ AnswerPlain(packet, length)[9 + sent] # <<"payload", sent>>
<1> DEFINE plain == AnswerPlain(packet, length)
           body  == AfterId(packet)
           r     == Rounded(3 + sent)
           s     == Rounded(arrived - 6)
           k     == 3 + sent
<1>1. /\ AUTH_BUFFER \in Nat /\ sent \in Nat /\ arrived \in 22 .. AUTH_BUFFER
      /\ AnswerDecrypted(plain, body, packet, arrived - 6)
  BY LongEnough, TelemetryAssumption DEF AnswerSizes, AnswerRead
<1>2. /\ r = ((sent + 18) \div 16) * 16
      /\ s = ((arrived + 9) \div 16) * 16
  BY <1>1 DEF Rounded, AnswerSizes
<1>3. s <= AUTH_BUFFER - 6
  BY DEF Within
<1>4. arrived <= r + 5
  OBVIOUS
<1> HIDE DEF plain, body, r, s
<1>5. sent > 0
  <2>1. sent = 0 => r = 16
    BY <1>2
  <2> QED
    BY <1>1, <1>4, <2>1
<1>6. /\ s \in Nat /\ r \in Nat /\ arrived - 6 <= s
      /\ k <= r /\ k > r - 16 /\ r % 16 = 0
  BY <1>1, <1>2
<1>7. /\ k \in 1 .. AUTH_BUFFER - 6 /\ body[k] = packet[9 + sent]
      /\ plain[9 + sent] = security_adapter_decrypt(body, arrived - 6)[k]
  <2>1. k \in 1 .. AUTH_BUFFER - 6 /\ 6 + k = 9 + sent
    BY <1>1
  <2> HIDE DEF k
  <2> QED
    BY <1>1, <2>1 DEF AnswerDecrypted
<1>8. k \in DOMAIN body
  BY <1>1, <1>7 DEF AnswerDecrypted
<1>9. CASE k > s
  <2>1. 9 + sent \in arrived + 1 .. AUTH_BUFFER /\ 9 + sent > 22
    BY <1>1, <1>6, <1>9
  <2>2. packet[9 + sent] = <<"left", 9 + sent>>
    BY <1>1, <2>1 DEF AnswerRead
  <2>3. plain[9 + sent] = body[k]
    <3> HIDE DEF k
    <3> QED
      BY <1>7, <1>8, <1>9 DEF security_adapter_decrypt, s
  <2> QED
    BY <1>5, <1>7, <2>2, <2>3 DEF plain
<1>10. CASE k <= s
  <2>1. s = r
    <3>1. s <= r
      BY <1>1, <1>2, <1>4
    <3>2. s >= r
      <4>1. PICK a \in Int : s = 16 * a
        BY <1>1, <1>2
      <4>2. PICK c \in Int : r = 16 * c
        BY <1>1, <1>2
      <4>3. 16 * a > 16 * c - 16
        BY <1>1, <1>6, <1>10, <4>1, <4>2
      <4>4. a >= c
        BY <4>3
      <4> QED
        BY <4>1, <4>2, <4>4
    <3> QED
      BY <1>6, <3>1, <3>2
  <2>2. r \in 1 .. AUTH_BUFFER - 6 /\ 6 + r \in arrived + 1 .. AUTH_BUFFER /\ 6 + r > 22
    BY <1>1, <1>3, <1>4, <1>6, <2>1
  <2>3. packet[6 + r] = <<"left", 6 + r>>
    BY <1>1, <2>2 DEF AnswerRead
  <2>4. body[r] = packet[6 + r]
    BY <1>1, <2>2 DEF AnswerDecrypted
  <2>5. body[r][1] # "encrypted"
    BY <2>3, <2>4
  <2>6. r \in Block(k)
    <3> DEFINE p == (k - 1) % 16
    <3>1. Place(k) = p
      BY DEF Place, AnswerSizes
    <3>2. k - p + 15 = r
      <4>1. PICK c \in Int : r = 16 * c
        BY <1>1, <1>2
      <4>2. (k - 1) \div 16 = c - 1
        BY <1>1, <1>6, <4>1
      <4>3. k - 1 = 16 * ((k - 1) \div 16) + p
        BY <1>1
      <4>4. p \in Int /\ k \in Int
        BY <1>1
      <4> HIDE DEF p, k
      <4>5. k - 1 = 16 * (c - 1) + p
        BY <4>2, <4>3
      <4> QED
        BY <4>1, <4>4, <4>5
    <3>3. p \in 0 .. 15
      BY <1>1
    <3> HIDE DEF p
    <3> QED
      BY <1>1, <1>6, <3>1, <3>2, <3>3 DEF Block, AnswerSizes
  <2>7. ~IntactBlock(body, k)
    <3> HIDE DEF k
    <3> QED
      BY <2>5, <2>6 DEF IntactBlock
  <2>8. plain[9 + sent] = Junk
    <3>1. ~(k > s)
      BY <1>1, <1>6, <1>10
    <3> HIDE DEF k
    <3> QED
      BY <1>7, <1>8, <2>7, <3>1 DEF security_adapter_decrypt, s
  <2> QED
    BY <1>5, <2>8 DEF Junk, plain
<1> QED
  BY <1>1, <1>6, <1>9, <1>10

LEMMA SamePayload ==
  ASSUME NEW plain, NEW size \in Nat, HasCells(plain, size), NEW n \in Nat, 9 + n <= size,
         NEW m \in Nat
  PROVE  SubSeq(plain, 10, 9 + n) = Field("payload", m)
           <=> n = m /\ \A i \in 1 .. m : plain[9 + i] = <<"payload", i>>
<1> DEFINE cut == SubSeq(plain, 10, 9 + n)
           field == Field("payload", m)
<1>1. Cut(cut, plain, 10, 9 + n)
  <2>1. 10 \in 1 .. size + 1 /\ 9 + n \in 10 - 1 .. size
    OBVIOUS
  <2> QED
    BY <2>1, CutCells
<1> HIDE DEF cut
<1>2. HasCells(cut, n) /\ \A i \in 1 .. n : cut[i] = plain[9 + i]
  <2>1. (9 + n) - 10 + 1 = n /\ \A i \in 1 .. n : 10 + i - 1 = 9 + i
    OBVIOUS
  <2> QED
    BY <1>1, <2>1 DEF Cut
<1>3. HasCells(field, m) /\ \A i \in 1 .. m : field[i] = <<"payload", i>>
  BY FieldCells
<1> HIDE DEF field
<1>4. Len(cut) = n /\ Len(field) = m
  BY <1>2, <1>3, CellsAreSeq
<1>5. ASSUME cut = field PROVE n = m /\ \A i \in 1 .. m : plain[9 + i] = <<"payload", i>>
  <2>1. n = m
    BY <1>4, <1>5
  <2> QED
    BY <1>2, <1>3, <1>5, <2>1
<1>6. ASSUME n = m, \A i \in 1 .. m : plain[9 + i] = <<"payload", i>> PROVE cut = field
  <2>1. \A i \in 1 .. m : cut[i] = field[i]
    BY <1>2, <1>3, <1>6
  <2> QED
    BY <1>2, <1>3, <1>6, <2>1 DEF HasCells
<1> QED
  BY <1>5, <1>6 DEF cut, field

LEMMA DecodeKeepsAnswer ==
  ASSUME AnswerSizes, AnswerInv, DecodeAnswer
  PROVE  AnswerInv'
<1> DEFINE plain == AnswerPlain(packet, length)
           r == Rounded(3 + sent)
<1>1. /\ stage = "read" /\ AnswerRead /\ sent \in Nat
      /\ sent' = sent /\ arrived' = arrived
      /\ arrived \in Nat \cup {-1} /\ length = uint16(arrived)
      /\ arrived <= r + 6 /\ arrived <= AUTH_BUFFER /\ AUTH_BUFFER \in Nat
  BY TelemetryAssumption DEF DecodeAnswer, AnswerInv, AnswerRead
<1>2. r = ((sent + 18) \div 16) * 16
  BY <1>1 DEF Rounded, AnswerSizes
<1> HIDE DEF plain, r
<1>3. r \in Nat /\ r >= 16 /\ 3 + sent <= r /\ r % 16 = 0
  BY <1>1, <1>2
<1>4. GATEWAY_ID_SIZE + Rounded(3 + sent) = 6 + r
  BY DEF AnswerSizes, r
<1>5. CASE stage' \notin {"accepted", "answer_overrun", "copy_overrun"}
  <2>1. stage' = "rejected"
    BY <1>5 DEF DecodeAnswer
  <2> QED
    BY <2>1 DEF AnswerInv, TelemetryRoundTrip
<1>6. CASE stage' = "answer_overrun"
  <2>1. ~DecryptsInBuffer(length)
    BY <1>6 DEF DecodeAnswer
  <2>2. arrived < 22 \/ 6 + r > AUTH_BUFFER
    <3> SUFFICES ASSUME arrived >= 22, 6 + r <= AUTH_BUFFER PROVE FALSE
      BY <1>1, <1>3
    <3>1. AnswerLength(length) = arrived - 6
      BY <1>1, LongEnough
    <3>2. Rounded(arrived - 6) = ((arrived + 9) \div 16) * 16
      BY <1>1 DEF Rounded, AnswerSizes
    <3>3. Rounded(arrived - 6) <= r
      BY <1>1, <1>2, <1>3, <3>2
    <3>4. arrived - 6 <= 65536 - 16
      <4>1. AUTH_BUFFER < 65536
        BY TelemetryAssumption
      <4>2. r < 65530
        BY <1>1, <1>3, <4>1
      <4>3. r <= 65520
        BY <1>3, <4>2
      <4> QED
        BY <1>1, <1>3, <4>3
    <3>5. Within(AUTH_BUFFER - 6, arrived - 6)
      <4>1. Rounded(arrived - 6) <= AUTH_BUFFER - 6
        BY <1>1, <1>3, <3>2, <3>3
      <4> QED
        BY <3>4, <4>1 DEF Within, Terminates, AnswerSizes
    <3> QED
      BY <2>1, <3>1, <3>5 DEF DecryptsInBuffer, AnswerSizes
  <2>3. TelemetryRoundTrip'
    BY <1>1, <1>4, <1>6, <2>2 DEF TelemetryRoundTrip, AnswerSizes
  <2> QED
    BY <1>6, <2>3 DEF AnswerInv
<1>7. CASE stage' \in {"accepted", "copy_overrun"}
  <2>1. DecryptsInBuffer(length)
    BY <1>7 DEF DecodeAnswer
  <2>2. arrived >= 6
    <3> SUFFICES ASSUME ~(arrived >= 6) PROVE FALSE
      OBVIOUS
    <3>1. arrived \in -1 .. 5
      BY <1>1
    <3> QED
      BY <1>1, <2>1, <3>1, TooShort
  <2>3. /\ AnswerLength(length) = arrived - 6
        /\ AnswerDecrypted(plain, AfterId(packet), packet, arrived - 6)
    BY <1>1, <2>2, LongEnough DEF plain
  <2>4. HasCells(plain, AUTH_BUFFER)
    BY <2>3 DEF AnswerDecrypted
  <2>5. Within(AUTH_BUFFER - 6, arrived - 6)
    BY <2>1, <2>3 DEF DecryptsInBuffer, AnswerSizes
  <2>6. PICK n \in AnswerPayloadLengths(plain) :
          IF 9 + n > AUTH_BUFFER THEN stage' = "copy_overrun"
          ELSE /\ stage' = "accepted"
               /\ result' = [type |-> plain[7], payload |-> SubSeq(plain, 10, 9 + n)]
    BY <1>7, <2>1 DEF DecodeAnswer, TelemetryHeader, AnswerSizes, plain,
                      gateway_telemetry_protocol_decode_packet
  <2>7. arrived >= 22 => plain[7] = <<"CONFIG", 1>> /\ n = sent
    <3> SUFFICES ASSUME arrived >= 22 PROVE plain[7] = <<"CONFIG", 1>> /\ n = sent
      OBVIOUS
    <3>1. /\ 16 \in Nat /\ 16 % 16 = 0 /\ 16 <= arrived - 6
          /\ 1 \in 1 .. 16 /\ 2 \in 1 .. 16 /\ 1 <= 3 + sent /\ 2 <= 3 + sent
          /\ 6 + 1 = 7 /\ 6 + 2 = 8
      BY <1>1
    <3>2. plain[6 + 1] = AnswerByte("CONFIG", sent, 1) /\ plain[6 + 2] = AnswerByte("CONFIG", sent, 2)
      BY <1>1, <2>2, <3>1, AnswerComesBack DEF plain
    <3>3. plain[7] = <<"CONFIG", 1>> /\ plain[8] = <<"length", sent>>
      BY <3>1, <3>2 DEF AnswerByte
    <3>4. AnswerPayloadLengths(plain) = {sent}
      BY <3>3 DEF AnswerPayloadLengths, AnswerSizes
    <3> QED
      BY <2>6, <3>3, <3>4
  <2>8. CASE stage' = "copy_overrun"
    <3>1. 9 + n > AUTH_BUFFER
      BY <2>6, <2>8
    <3>2. arrived < 22 \/ 6 + r > AUTH_BUFFER
      BY <1>1, <1>3, <2>7, <3>1
    <3>3. TelemetryRoundTrip'
      BY <1>1, <1>4, <2>8, <3>2 DEF TelemetryRoundTrip, AnswerSizes
    <3> QED
      BY <2>8, <3>3 DEF AnswerInv
  <2>9. CASE stage' = "accepted"
    <3>1. ~(9 + n > AUTH_BUFFER)
      BY <2>6, <2>9
    <3>2. /\ result'.type = plain[7] /\ result'.payload = SubSeq(plain, 10, 9 + n)
          /\ result' = [type |-> plain[7], payload |-> SubSeq(plain, 10, 9 + n)]
      BY <2>6, <3>1
    <3> DEFINE config == [type |-> <<"CONFIG", 1>>, payload |-> Field("payload", sent)]
    <3>3. ASSUME arrived = 6 + r PROVE result' = config
      <4>1. plain[7] = <<"CONFIG", 1>> /\ n = sent /\ n \in Nat
        BY <1>1, <1>3, <2>7, <3>3
      <4>2. ASSUME NEW i \in 1 .. sent PROVE plain[9 + i] = <<"payload", i>>
        <5>1. /\ 3 + i \in 1 .. r /\ 3 + i <= 3 + sent /\ r <= arrived - 6
              /\ 6 + (3 + i) = 9 + i /\ (3 + i) - 3 = i /\ 3 + i > 3
          BY <1>1, <1>3, <3>3
        <5>2. plain[6 + (3 + i)] = AnswerByte("CONFIG", sent, 3 + i)
          BY <1>1, <1>3, <2>2, <5>1, AnswerComesBack DEF plain
        <5>3. AnswerByte("CONFIG", sent, 3 + i) = <<"payload", i>>
          BY <5>1 DEF AnswerByte
        <5> QED
          BY <5>1, <5>2, <5>3
      <4>3. SubSeq(plain, 10, 9 + n) = Field("payload", sent)
        <5>1. 9 + sent <= AUTH_BUFFER
          BY <1>1, <3>1, <4>1
        <5>2. \A i \in 1 .. sent : plain[9 + i] = <<"payload", i>>
          BY <4>2
        <5>3. SubSeq(plain, 10, 9 + sent) = Field("payload", sent)
          BY <1>1, <2>4, <5>1, <5>2, SamePayload
        <5> QED
          BY <4>1, <5>3
      <4> QED
        BY <3>2, <4>1, <4>3
    <3>4. ASSUME result' = config PROVE arrived = 6 + r
      <4>1. plain[7] = <<"CONFIG", 1>> /\ SubSeq(plain, 10, 9 + n) = Field("payload", sent)
        BY <3>2, <3>4
      <4>2. ~(arrived \in 6 .. 21)
        <5> SUFFICES ASSUME arrived \in 6 .. 21 PROVE FALSE
          OBVIOUS
        <5> QED
          BY <1>1, <4>1, PartIsNoConfig DEF plain
      <4>3. ~(arrived \in 22 .. r + 5)
        <5> SUFFICES ASSUME arrived \in 22 .. r + 5 PROVE FALSE
          OBVIOUS
        <5>1. n = sent
          BY <1>3, <2>7
        <5>2. 9 + sent <= AUTH_BUFFER
          BY <1>1, <3>1, <5>1
        <5>3. sent > 0 /\ plain[9 + sent] # <<"payload", sent>>
          <6>1. arrived \in 22 .. Rounded(3 + sent) + 5
            BY DEF r
          <6> QED
            BY <1>1, <2>5, <5>2, <6>1, PartLosesPayload DEF plain
        <5>4. sent \in 1 .. sent
          BY <1>1, <5>3
        <5>5. plain[9 + sent] = <<"payload", sent>>
          <6>1. SubSeq(plain, 10, 9 + sent) = Field("payload", sent)
            BY <4>1, <5>1
          <6>2. \A i \in 1 .. sent : plain[9 + i] = <<"payload", i>>
            BY <1>1, <2>4, <5>2, <6>1, SamePayload
          <6> QED
            BY <5>4, <6>2
        <5> QED
          BY <5>3, <5>5
      <4> QED
        BY <1>1, <1>3, <2>2, <4>2, <4>3
    <3>5. arrived = 6 + r <=> result' = config
      BY <3>3, <3>4
    <3> HIDE DEF config
    <3>6. TelemetryRoundTrip'
      BY <1>1, <1>4, <2>9, <3>5 DEF TelemetryRoundTrip, config
    <3> QED
      BY <2>9, <3>6 DEF AnswerInv
  <2> QED
    BY <1>7, <2>8, <2>9
<1> QED
  BY <1>5, <1>6, <1>7

LEMMA NextAnswerInv ==
  ASSUME AnswerSizes, AnswerInv, [Next]_vars
  PROVE  AnswerInv'
<1> USE DEF AnswerInv, TelemetryRoundTrip
<1>1. ASSUME NEW n \in PayloadLengths8, Encode(n) PROVE AnswerInv'
  BY <1>1 DEF Encode
<1>2. ASSUME NEW n \in NoiseLengths, Noise(n) PROVE AnswerInv'
  BY <1>2 DEF Noise
<1>3. CASE recv_gcom_ch
  BY <1>3 DEF recv_gcom_ch
<1>4. CASE Decode
  BY <1>4 DEF Decode
<1>5. ASSUME NEW n \in AnswerLengths, Answer(n) PROVE AnswerInv'
  <2>1. n \in Nat
    BY ExchangeAssumption
  <2> DEFINE p    == gateway_telemetry_protocol_encode_packet("CONFIG", n)
             size == uint16(Rounded(3 + n) + 6)
  <2>2. HasCells(p, size) /\ AnswerCells(p, "CONFIG", n, size)
    BY <2>1, EncodedAnswer
  <2>3. stage' = "answered" /\ sent' = n /\ packet' = p /\ length' = Len(p)
    BY <1>5 DEF Answer
  <2> HIDE DEF p
  <2>4. Len(p) = size
    BY <2>2, CellsAreSeq
  <2>5. AnswerSent'
    BY <2>1, <2>2, <2>3, <2>4 DEF AnswerSent
  <2> QED
    BY <2>3, <2>5
<1>6. ASSUME NEW n \in ReadLengths \cup {length}, Read(n) PROVE AnswerInv'
  BY <1>6, ReadKeepsAnswer
<1>7. CASE DecodeAnswer
  BY <1>7, DecodeKeepsAnswer
<1>8. ASSUME NEW m \in Messages, StoreMessage(m) PROVE AnswerInv'
  BY <1>8 DEF StoreMessage
<1>9. CASE PrepareMessage
  <2>1. stage' \in {"prepared", "unterminated"}
    BY <1>9 DEF PrepareMessage
  <2> QED
    BY <2>1
<1>10. ASSUME NEW dev_digits \in 1 .. 3, RetireMessage(dev_digits) PROVE AnswerInv'
  <2>1. stage' \in {"retired", "update_cut"}
    BY <1>10 DEF RetireMessage
  <2> QED
    BY <2>1
<1>11. CASE UNCHANGED vars
  BY <1>11 DEF vars, AnswerSent, AnswerRead
<1> QED
  BY <1>1, <1>2, <1>3, <1>4, <1>5, <1>6, <1>7, <1>8, <1>9, <1>10, <1>11 DEF Next

(* What gateway_auth accepts is the configuration of the platform exactly  *)
(* when one read returned all of it, for configurations of any length and  *)
(* any buffer of 22 bytes or more.                                         *)
THEOREM AnswersComeBack ==
  ASSUME AnswerSizes
  PROVE  Spec => []TelemetryRoundTrip
<1>1. Init => AnswerInv
  BY DEF Init, AnswerInv, TelemetryRoundTrip
<1>2. AnswerInv /\ [Next]_vars => AnswerInv'
  BY NextAnswerInv
<1>3. AnswerInv => TelemetryRoundTrip
  BY DEF AnswerInv
<1> QED
  BY <1>1, <1>2, <1>3, PTL DEF Spec
=============================================================================
