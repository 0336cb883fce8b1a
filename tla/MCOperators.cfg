SPECIFICATION Spec
CONSTANTS
  Null = Null
  NullRef = NullRef
  Lanes = 2
  WordBits = 3
  BlocksInMetaBlock = 2
  ByteBits = 1
  ForBlockSize = 2
  ArtPartBits = 2
  ArtParts = 2
  ArtCapacities <- ArtNodeSizes
  murmur2 <- Hash
\* The inputs are bounded and the jobs end.
CHECK_DEADLOCK FALSE
PROPERTIES
  
  OperatorsMatchDefinitions
