SPECIFICATION Spec
CONSTANTS
  Conns = {c1}
  k1 = k1
  k2 = k2
  Keys = {k1, k2}
  NoKey = NoKey
  NoReq = NoReq
  Refs = {"A", "B", "X"}
  Mapped = {"A", "B"}
  Aliases = {"A"}
  MaxHeld = 1
  Accounts = {"acct", "other"}
  Uns = {"un1", "un2"}
  Txns <- MCTxns
  PinDigits <- MCPinDigits
  Outside <- MCOutside
  Program <- CardholderProgram
  Requests <- CardholderRequests
INVARIANTS
  TypeOK
  PinAcceptedIfRight
  PinChangeIsRight
  TranslationKeepsPin
  ArqcAcceptedIfGenuine
  ArpcAnswersTheCard
  CvvAcceptedIfIssued
