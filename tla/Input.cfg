CONSTANTS
  CapKeys <- MCCapKeys
  Cap <- MCCap
  Strokes <- MCStrokes
  MaxStrokes = 3
  MaxReads = 2
  BufSize = 8
SPECIFICATION Spec
INVARIANTS TypeOK SourcesKept KeysWhole ForwardFaithful
CHECK_DEADLOCK FALSE
