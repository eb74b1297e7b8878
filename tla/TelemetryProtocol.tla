-------------------------- MODULE TelemetryProtocol --------------------------
(***************************************************************************)
(* src/gateway_telemetry_protocol.c, as gateway_auth uses it: the gateway  *)
(* sends AUTH without payload over TCP, and decodes what one read returns, *)
(* into the same buffer.                                                   *)
(*                                                                         *)
(*     gateway_id (6) | type (1) | length (2) | payload                    *)
(*                                                                         *)
(* where everything behind gateway_id is encrypted.                        *)
(***************************************************************************)
EXTENDS SecurityAdapter

CONSTANTS
  GATEWAY_ID_SIZE,   \* GATEWAY_TELEMETRY_PROTOCOL_GATEWAY_ID_SIZE
  AUTH_BUFFER        \* size of buffer and payload_buffer in gateway_auth

ASSUME TelemetryAssumption ==
  /\ GATEWAY_ID_SIZE \in Nat
  /\ AUTH_BUFFER \in Nat /\ AUTH_BUFFER < 65536

TelemetryHeader == GATEWAY_ID_SIZE + 3

AfterId(packet) == SubSeq(packet, GATEWAY_ID_SIZE + 1, Len(packet))

Id(packet) == SubSeq(packet, 1, GATEWAY_ID_SIZE)

EncodedLength(length) == uint16(Rounded(length) + GATEWAY_ID_SIZE)

(* The bytes behind the payload, up to the end of its last block, are      *)
(* whatever the buffer held.                                               *)
gateway_telemetry_protocol_encode_packet(type, payload_length) ==
  LET plain  == Field("gateway_id", GATEWAY_ID_SIZE)
                  \o <<<<type, 1>>, <<"length", payload_length>>, <<"length_high", payload_length>>>>
                  \o Field("payload", payload_length)
      body   == Len(plain) - GATEWAY_ID_SIZE
      packet == plain \o [i \in 1 .. Rounded(body) - body |-> <<"left", i>>]
      whole  == Id(packet) \o security_adapter_encrypt(type, AfterId(packet), body)
  IN  SubSeq(whole, 1, EncodedLength(body))

(* The buffer after a read of n bytes: what was read replaces the          *)
(* beginning of the gateway's own AUTH packet, which went before.          *)
BufferAfterRead(bytes) ==
  LET auth == gateway_telemetry_protocol_encode_packet("AUTH", 0)
  IN  [i \in 1 .. AUTH_BUFFER |->
         IF i <= Len(bytes) THEN bytes[i]
         ELSE IF i <= Len(auth) THEN auth[i]
         ELSE <<"left", i>>]

AnswerLength_WholePacket(packet_length) == packet_length

AnswerLength(packet_length) == uint16(packet_length - GATEWAY_ID_SIZE)

DecryptsInBuffer(packet_length) ==
  Within(AUTH_BUFFER - GATEWAY_ID_SIZE, AnswerLength(packet_length))

AnswerPlain(packet, packet_length) ==
  Id(packet) \o security_adapter_decrypt(AfterId(packet), AnswerLength(packet_length))

SameId(packet) == Id(packet) = Field("gateway_id", GATEWAY_ID_SIZE)

(* The length read from a decrypted answer.  That of a block that did not  *)
(* decrypt may be anything; 0 stands for the lengths that stay in the      *)
(* buffers, AUTH_BUFFER for those that do not.                             *)
AnswerPayloadLengths(plain) ==
  IF plain[GATEWAY_ID_SIZE + 2][1] = "length"
  THEN {plain[GATEWAY_ID_SIZE + 2][2]}
  ELSE {0, AUTH_BUFFER}

gateway_telemetry_protocol_decode_packet(plain, payload_length) ==
  [type    |-> plain[GATEWAY_ID_SIZE + 1],
   payload |-> SubSeq(plain, TelemetryHeader + 1, TelemetryHeader + payload_length)]
=============================================================================
