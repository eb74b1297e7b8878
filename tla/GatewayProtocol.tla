--------------------------- MODULE GatewayProtocol ---------------------------
(***************************************************************************)
(* src/gateway_protocol.c: the packets between devices and gateway.        *)
(*                                                                         *)
(*     app_key (8) | dev_id (1) | type (1) | length (1) | payload          *)
(*                                                                         *)
(* where everything behind app_key is encrypted for a secure application.  *)
(* Encoding and decoding work in the buffer of a gcom_ch_request_t; an     *)
(* access of the cipher behind its end, or of the encoder, has no defined  *)
(* outcome and is reported as Overrun.  A payload that the decoder copies  *)
(* from behind packet[256] (line 78) is made of what follows the array in  *)
(* the request or on the heap and reads as Junk.                           *)
(*                                                                         *)
(* The security adapter writes its length through a uint16_t pointer to a  *)
(* uint8_t, the upper half into the byte behind it.  Encoding (line 36)    *)
(* has packet_length of the request, behind which the struct is padded.    *)
(* Decoding (line 65) has the parameter packet_length, one byte passed by  *)
(* value: the byte behind it is whatever the compiler put there on the     *)
(* stack.  It is taken for one that nobody reads.                          *)
(***************************************************************************)
EXTENDS SecurityAdapter

CONSTANTS
  GATEWAY_PROTOCOL_APP_KEY_SIZE,
  DEVICE_DATA_MAX_LENGTH   \* size of the buffer

ASSUME ProtocolAssumption ==
  /\ GATEWAY_PROTOCOL_APP_KEY_SIZE \in Nat
  /\ DEVICE_DATA_MAX_LENGTH \in 1 .. 256

Overrun == [length |-> -1, packet |-> <<>>]

HeaderSize == GATEWAY_PROTOCOL_APP_KEY_SIZE + 3

Header(payload_length) ==
  Field("app_key", GATEWAY_PROTOCOL_APP_KEY_SIZE)
    \o <<<<"dev_id", 1>>, <<"type", 1>>, <<"length", payload_length>>>>

Prefix(packet) == SubSeq(packet, 1, GATEWAY_PROTOCOL_APP_KEY_SIZE)

Body(packet) == SubSeq(packet, GATEWAY_PROTOCOL_APP_KEY_SIZE + 1, Len(packet))

BodyRoom == DEVICE_DATA_MAX_LENGTH - GATEWAY_PROTOCOL_APP_KEY_SIZE

(* What the buffer holds before it is written. *)
Leftovers(from) == [i \in 1 .. DEVICE_DATA_MAX_LENGTH - from |-> <<"left", i>>]

BodyLength_WholePacket(packet_length) == packet_length

(* The length given to the security adapter: an int, passed as a uint16_t. *)
BodyLength(packet_length) == uint16(packet_length - GATEWAY_PROTOCOL_APP_KEY_SIZE)

gateway_protocol_packet_encode(secure, payload_length) ==
  LET bytes  == Header(payload_length) \o Field("payload", payload_length)
      length == uint8(Len(bytes))
      packet == bytes \o Leftovers(Len(bytes))
      body   == BodyLength(length)
  IN  IF \/ Len(bytes) > DEVICE_DATA_MAX_LENGTH
         \/ secure /\ ~Within(BodyRoom, body)
      THEN Overrun
      ELSE IF secure
      THEN [length |-> uint8(Rounded(body) + GATEWAY_PROTOCOL_APP_KEY_SIZE),
            packet |-> Prefix(packet)
                         \o security_adapter_encrypt("packet", Body(packet), body)]
      ELSE [length |-> length, packet |-> packet]

(* Whether decrypting a packet of this length stays in the buffer. *)
DecryptsInPacket(secure, packet_length) ==
  secure => Within(BodyRoom, BodyLength(packet_length))

Plain(secure, packet, packet_length) ==
  IF secure
  THEN Prefix(packet) \o security_adapter_decrypt(Body(packet), BodyLength(packet_length))
  ELSE packet

(* What a byte may be when it is read as a number. *)
Numbers(byte) ==
  IF byte[1] = "length" THEN {byte[2]}
  ELSE IF byte[1] = "zero" THEN {0}
  ELSE 0 .. 255

PayloadLengths(secure, packet, packet_length) ==
  Numbers(Plain(secure, packet, packet_length)[HeaderSize])

Position_Wide(payload_length) == HeaderSize + payload_length

(* p_len, which is also the result: 0 means failure. *)
Position(payload_length) == uint8(HeaderSize + payload_length)

(* packet_length is not compared with what is read; a payload that would   *)
(* reach behind the buffer ends in bytes that are not of the packet.       *)
gateway_protocol_packet_decode(secure, packet, packet_length, payload_length) ==
  LET plain == Plain(secure, packet, packet_length)
  IN  [ret     |-> Position(payload_length),
       dev_id  |-> plain[GATEWAY_PROTOCOL_APP_KEY_SIZE + 1],
       type    |-> plain[GATEWAY_PROTOCOL_APP_KEY_SIZE + 2],
       payload |-> [i \in 1 .. payload_length |->
                      IF HeaderSize + i <= DEVICE_DATA_MAX_LENGTH
                      THEN plain[HeaderSize + i] ELSE Junk]]
=============================================================================
