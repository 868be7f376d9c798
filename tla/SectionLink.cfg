SPECIFICATION Spec
CONSTANTS
  Payload = 5
  MaxSize = 12
  GarbageSize = 4
  SizeChoices = {4, 5, 6, 7, 8, 9, 13}
  MaxSections = 3
  MaxLost = 1
INVARIANTS
  PointerFieldIsRight
  SectionsStartOnBoundaries
PROPERTIES
  ImplementsPipe
  AllDelivered
CHECK_DEADLOCK FALSE
