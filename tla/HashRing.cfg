CONSTANTS
  n1 = n1
  n2 = n2
  n3 = n3
  RingSize = 5
  Nodes <- ThreeNodes
  Placements <- UpToTwo
  MaxNodes = 3
  MaxCount = 3
SPECIFICATION FairSpec
INVARIANTS
  TypeOK
  RingIsNodes
  LookupInOrder
  LookupComplete
PROPERTIES
  OnlyItsKeysMove
  OnlyItselfJoins
  RemapIsNewShare
  LookupReturns
