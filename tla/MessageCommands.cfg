SPECIFICATION Spec
CONSTANTS
  Conns = {c1}
  k1 = k1
  k2 = k2
  Keys = {k1, k2}
  NoKey = NoKey
  NoReq = NoReq
  Refs = {"A", "B", "X"}
  Mapped = {"A", "B"}
  Aliases = {"A"}
  MaxHeld = 1
  Counters = {"atc", "next"}
  PinDigits <- MCPinDigits
  Messages <- MCMessages
  Scripts <- MCScripts
  Outside <- MCOutside
  Program <- MessageProgram
  Requests <- MessageRequests
INVARIANTS
  VerifiesItsTwin
  TranslationReMacs
  ScriptMacIsCards
  DecryptsWhatWasEncrypted
  TranslationKeepsData
