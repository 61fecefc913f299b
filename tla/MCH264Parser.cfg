CONSTANTS
  MaxNal = 2
  Pictures <- MCPictures
  ParameterSets <- MCParameterSets
SPECIFICATION ParserSpec
CHECK_DEADLOCK FALSE
INVARIANTS
  UnitsInOrder
  AllUnits
  SizeRead
  SizeNotInvented
