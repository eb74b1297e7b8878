SPECIFICATION CodecsSpec
CONSTANTS
  SECURITY_KEY_SIZE = 16
  GATEWAY_PROTOCOL_APP_KEY_SIZE = 8
  DEVICE_DATA_MAX_LENGTH = 256
  GATEWAY_ID_SIZE = 6
  AUTH_BUFFER = 128
  PayloadLengths8 <- AllPayloads
  NoiseLengths <- OddDatagrams
  AnswerLengths <- Answers
  Messages <- MCMessages
  ReadLengths <- PartialReads
  Keys <- MCKeys
  Blocks <- MCBlocks
  GW_MNGR_BUF_LEN = 1024
  GW_MNGR_QBUF_LEN = 1136
  KeyLengths <- MCKeyLengths
  CountDigits <- MCCountDigits
  ErrorsDigits <- MCErrorsDigits
  TimeLengths <- MCTimeLengths
  MaxDevices = 32
  Files <- MCFiles
INVARIANTS
  PacketRoundTrip
  DecryptionStaysInPacket
  DecodeFailsOnlyOnWrap
  TelemetryRoundTrip
  MessageIsSent
  AcknowledgedIsRetired
  BlockRoundTrip
  MatchesVectors
  ReportFits
  ConnectsAsConfigured
CHECK_DEADLOCK FALSE
