---------------------------- MODULE CodecExchange ----------------------------
(***************************************************************************)
(* The codecs at work: one packet between device and gateway (either way,  *)
(* both run the same code), one answer from the platform read by           *)
(* gateway_auth, or one pending message that process_packet prepares for   *)
(* sending.  Every length is tried, and for the gateway also datagrams     *)
(* that no encoder made.                                                   *)
(***************************************************************************)
EXTENDS GatewayProtocol, TelemetryProtocol, Base64

CONSTANTS
  PayloadLengths8,   \* payload lengths tried for packets
  NoiseLengths,      \* lengths of datagrams no encoder made
  AnswerLengths,     \* payload lengths tried for answers of the platform
  Messages,          \* contents of pending messages, as sequences of bytes
  ReadLengths        \* what read may return when it does not return the whole answer

ASSUME ExchangeAssumption ==
  /\ PayloadLengths8 \subseteq 0 .. 255
  /\ NoiseLengths \subseteq 0 .. DEVICE_DATA_MAX_LENGTH
  /\ AnswerLengths \subseteq Nat
  /\ ReadLengths \subseteq Nat \cup {-1}

VARIABLES
  stage,      \* how far the exchange has come
  secure,     \* the application's flag
  sent,       \* length of the payload encoded; None for noise
  arrived,    \* bytes received or read
  packet,     \* the packet, and then the receiver's buffer
  length,     \* its length
  result      \* what decoding returned

vars == <<stage, secure, sent, arrived, packet, length, result>>

None == -1

NoResult == [ret |-> 0]

Init ==
  /\ stage = "idle"
  /\ secure \in BOOLEAN
  /\ sent = None
  /\ arrived = None
  /\ packet = <<>>
  /\ length = 0
  /\ result = NoResult

-----------------------------------------------------------------------------
(* Packets. *)

Encode(payload_length) ==
  /\ stage = "idle"
  /\ sent' = payload_length
  /\ LET e == gateway_protocol_packet_encode(secure, payload_length)
     IN  IF e = Overrun
         THEN stage' = "encode_overrun" /\ UNCHANGED <<packet, length>>
         ELSE stage' = "sent" /\ packet' = e.packet /\ length' = e.length
  /\ UNCHANGED <<secure, arrived, result>>

Noise(size) ==
  /\ stage = "idle"
  /\ stage' = "sent"
  /\ packet' = [i \in 1 .. DEVICE_DATA_MAX_LENGTH |-> Junk]
  /\ length' = size
  /\ UNCHANGED <<secure, sent, arrived, result>>

(* The request is zeroed before recvfrom fills it; main drops what has no  *)
(* bytes; the length is kept in a uint8_t.                                 *)
recv_gcom_ch ==
  /\ stage = "sent"
  /\ stage' = IF length = 0 THEN "dropped" ELSE "received"
  /\ arrived' = length
  /\ packet' = [i \in 1 .. DEVICE_DATA_MAX_LENGTH |->
                  IF i <= length THEN packet[i] ELSE <<"zero", i>>]
  /\ length' = uint8(length)
  /\ UNCHANGED <<secure, sent, result>>

Decode ==
  /\ stage = "received"
  /\ IF DecryptsInPacket(secure, length)
     THEN /\ stage' = "decoded"
          /\ \E n \in PayloadLengths(secure, packet, length) :
               result' = gateway_protocol_packet_decode(secure, packet, length, n)
     ELSE stage' = "decrypt_overrun" /\ UNCHANGED result
  /\ packet' = <<>>
  /\ UNCHANGED <<secure, sent, arrived, length>>

-----------------------------------------------------------------------------
(* Answers of the platform. *)

Answer(payload_length) ==
  /\ stage = "idle" /\ secure
  /\ stage' = "answered"
  /\ sent' = payload_length
  /\ packet' = gateway_telemetry_protocol_encode_packet("CONFIG", payload_length)
  /\ length' = Len(packet')
  /\ UNCHANGED <<secure, arrived, result>>

(* read returns at most AUTH_BUFFER bytes, fewer than were sent when they  *)
(* come in pieces, 0 when the platform has closed the connection and -1 on *)
(* an error; its result is stored in a uint16_t.                           *)
Read(n) ==
  /\ stage = "answered"
  /\ n <= length /\ n <= AUTH_BUFFER
  /\ stage' = "read"
  /\ arrived' = n
  /\ packet' = BufferAfterRead(SubSeq(packet, 1, n))
  /\ length' = uint16(n)
  /\ UNCHANGED <<secure, sent, result>>

(* The answer is accepted whenever the buffer begins with the gateway's    *)
(* own id.                                                                 *)
DecodeAnswer ==
  /\ stage = "read"
  /\ IF ~SameId(packet)
     THEN stage' = "rejected" /\ UNCHANGED result
     ELSE IF ~DecryptsInBuffer(length)
     THEN stage' = "answer_overrun" /\ UNCHANGED result
     ELSE LET plain == AnswerPlain(packet, length)
          IN  \E n \in AnswerPayloadLengths(plain) :
                IF TelemetryHeader + n > AUTH_BUFFER
                THEN stage' = "copy_overrun" /\ UNCHANGED result
                ELSE /\ stage' = "accepted"
                     /\ result' = gateway_telemetry_protocol_decode_packet(plain, n)
  /\ packet' = <<>>
  /\ UNCHANGED <<secure, sent, arrived, length>>

-----------------------------------------------------------------------------
(* Pending messages. *)

(* The platform stores a message as a base64 text and the end of a line. *)
StoredText(m) == base64_encode(m) \o <<Other>>

StoreMessage(m) ==
  /\ stage = "idle" /\ secure
  /\ stage' = "stored"
  /\ packet' = StoredText(m)
  /\ result' = [ret |-> 0, message |-> m]
  /\ UNCHANGED <<secure, sent, arrived, length>>

TextLength_WithLineEnd(text) == Len(text)

(* strlen(msg_cont)-1 *)
TextLength(text) == Len(text) - 1

msg_cont_size == 150   \* sizeof(msg_cont)

(* The text is decoded into the buffer of the request's payload; its       *)
(* length is computed from the text with its padding, and the result of    *)
(* base64_decode is not looked at.  strncpy leaves a text that fills       *)
(* msg_cont without a terminator: what strlen then finds is undefined.     *)
PrepareMessage ==
  /\ stage = "stored"
  /\ IF Len(packet) < msg_cont_size
     THEN LET stale   == [i \in 1 .. DEVICE_DATA_MAX_LENGTH |-> None]
              decoded == base64_decode(packet, TextLength(packet), stale)
          IN  /\ stage' = "prepared"
              /\ length' = uint8(BASE64_DECODE_OUT_SIZE(Len(packet)))
              /\ packet' = SubSeq(decoded.out, 1, length')
              /\ result' = [result EXCEPT !.ret = decoded.ret]
     ELSE stage' = "unterminated" /\ UNCHANGED <<packet, length, result>>
  /\ UNCHANGED <<secure, sent, arrived>>

db_query_size == 200   \* sizeof(db_query) in the branch STAT

UpdateLength_AnyApp(text, dev_digits) == 60 + dev_digits + text

(* The UPDATE that retires a message has 77 characters besides app_key,    *)
(* dev_id and the text of the message.                                     *)
UpdateLength(text, dev_digits) == 77 + GATEWAY_PROTOCOL_APP_KEY_SIZE + dev_digits + text

(* The device has the message and acknowledges it.  snprintf cuts off a    *)
(* query that does not fit, and the database refuses what is left of it.   *)
RetireMessage(dev_digits) ==
  /\ stage = "prepared"
  /\ stage' = IF UpdateLength(Len(StoredText(result.message)), dev_digits) < db_query_size
              THEN "retired" ELSE "update_cut"
  /\ UNCHANGED <<secure, sent, arrived, packet, length, result>>

-----------------------------------------------------------------------------
Next ==
  \/ \E n \in PayloadLengths8 : Encode(n)
  \/ \E n \in NoiseLengths : Noise(n)
  \/ recv_gcom_ch
  \/ Decode
  \/ \E n \in AnswerLengths : Answer(n)
  \/ \E n \in ReadLengths \cup {length} : Read(n)
  \/ DecodeAnswer
  \/ \E m \in Messages : StoreMessage(m)
  \/ PrepareMessage
  \/ \E dev_digits \in 1 .. 3 : RetireMessage(dev_digits)

Spec == Init /\ [][Next]_vars

-----------------------------------------------------------------------------
(* The longest payloads whose packet a uint8_t length and the buffer hold. *)
LongestPayload ==
  IF secure
  THEN (BodyRoom \div SECURITY_KEY_SIZE) * SECURITY_KEY_SIZE - 3
  ELSE 255 - HeaderSize

(* What gateway_protocol_packet_encode makes of a payload comes out of     *)
(* gateway_protocol_packet_decode unchanged, for every length up to the    *)
(* longest; for no longer one.                                             *)
PacketRoundTrip ==
  sent # None =>
    /\ stage = "decoded" =>
         /\ result.ret # 0
         /\ result.dev_id = <<"dev_id", 1>> /\ result.type = <<"type", 1>>
         /\ result.payload = Field("payload", sent)
    /\ stage \in {"encode_overrun", "dropped", "decrypt_overrun"} => sent > LongestPayload

(* Decrypting a datagram in place leaves the buffer of the request, or     *)
(* never ends, exactly for those shorter than an app_key (or of 256 bytes, *)
(* whose length is 0) and those whose last block would end behind it.      *)
DecryptionStaysInPacket ==
  stage \in {"decoded", "decrypt_overrun"} =>
    (stage = "decrypt_overrun" <=>
       secure /\ arrived \notin GATEWAY_PROTOCOL_APP_KEY_SIZE
                   .. (DEVICE_DATA_MAX_LENGTH - (BodyRoom % SECURITY_KEY_SIZE)))

(* process_packet takes 0 for a decoding error ("payload decode error",    *)
(* gateway.c:432): whatever arrived, only a length field of 245 gives it.  *)
DecodeFailsOnlyOnWrap ==
  stage = "decoded" => (result.ret = 0 <=> Len(result.payload) = 256 - HeaderSize)

(* The configuration the platform sent is what gateway_auth stores, as     *)
(* long as one read returned all of it; a part of it is accepted too, and  *)
(* is never the configuration.                                             *)
TelemetryRoundTrip ==
  /\ stage = "accepted" =>
       (arrived = GATEWAY_ID_SIZE + Rounded(3 + sent)
          <=> result = [type |-> <<"CONFIG", 1>>, payload |-> Field("payload", sent)])
  /\ stage \in {"answer_overrun", "copy_overrun"} =>
       \/ arrived < GATEWAY_ID_SIZE + SECURITY_KEY_SIZE
       \/ GATEWAY_ID_SIZE + Rounded(3 + sent) > AUTH_BUFFER

(* The message the platform stored is what is sent to the device, followed *)
(* by as many bytes as its text had padding: base64_decode knows the       *)
(* length, the packet is given another one.  Messages of up to 111 bytes   *)
(* leave msg_cont its terminator.                                          *)
MessageIsSent ==
  /\ stage = "prepared" =>
       /\ result.ret = Len(result.message)
       /\ SubSeq(packet, 1, result.ret) = result.message
       /\ length - result.ret = (3 - (result.ret % 3)) % 3
  /\ stage = "unterminated" => Len(result.message) > 111

(* A message a device has acknowledged is retired, if it has no more than  *)
(* 81 bytes.  One of more than 84 never is, although it is sent: it stays  *)
(* the first pending message of its device for ever.                       *)
AcknowledgedIsRetired ==
  /\ stage = "update_cut" => Len(result.message) > 81
  /\ stage = "retired" => Len(result.message) <= 84
=============================================================================
