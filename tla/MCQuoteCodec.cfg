SPECIFICATION CodecSpec
CONSTANTS
  BYTE = 2
  KEY_LEN = 2
  INT_LEN = 2
  MESSAGE_DOMAIN_TAG <- Tag
  Programs <- SomePrograms
  GivenQuotes <- SomeQuotes
  RecoveryBytes <- SomeRecoveryBytes
  N = 11
  BASE = 4
  S_LEN = 2
INVARIANTS
  EncodersAgree
  MessageDeterminesQuote
  VerifiersAgree
  SignedQuotesVerify
  OneOfTwinsIsAccepted
CHECK_DEADLOCK FALSE
