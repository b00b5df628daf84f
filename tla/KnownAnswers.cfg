CONSTANTS
  Messages <- MCMessages
  CipherKeys <- MCCipherKeys
  Keys <- MCKeys
  Repetitions = 3
SPECIFICATION MCSpec
INVARIANTS
  KnownAnswers
