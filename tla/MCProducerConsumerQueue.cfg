SPECIFICATION Spec
CONSTANTS
  v1 = v1
  v2 = v2
  Size <- MCSize
  Value <- MCValue
  NoValue = NoValue
  Raw = Raw
  NullPtr = NullPtr
INVARIANTS
  TypeOK
  SlotOwnership
  ConsumerKnowledge
  GuessBounds
PROPERTY
  ImplementsFifo
