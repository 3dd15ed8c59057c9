\* A sequence field of two bits, two directed link keys.
CONSTANTS
  SeqMod = 4
  Inputs <- MCInputs
  Keys <- MCKeys
  Garbled = Garbled
  Error = Error
SPECIFICATION Spec
INVARIANTS
  TypeOK
  AcceptedIsSent
  LimitIsExact
  ContentSurvives
CHECK_DEADLOCK FALSE
