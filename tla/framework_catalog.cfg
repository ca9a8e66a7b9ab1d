\* Two uploads and one single write.
SPECIFICATION Spec
CONSTANTS
  Framework = Framework
  C1 = C1
  C2 = C2
  Codes = {C1, C2}
  Levels = {1}
  NoLevel = NoLevel
  A1 = A1
  Attributes = {A1}
  T1 = T1
  T2 = T2
  Texts = {T1, T2}
  NoText = NoText
  Root = Root
  Imports = {i1, i2}
  Payloads <- MCPayloads
  MaxWrites = 1
SYMMETRY Symmetry
INVARIANTS
  EmbeddingIsCurrent
  ImportLandsPayload
PROPERTY EmbeddingKept
CHECK_DEADLOCK FALSE
