CONSTANTS
  WordMax = 255
  HalfMax = 127
  FileSize = {60, 200}
  Count = {0, 1, 2, 3, 4}
  Dimension = {0, 4, 16}
  Offset = {0, 8, 16, 248}
  Alignment = {0, 8, 12, 136}
  ValidKey = {"general.alignment"}
  Name = {"a", "b", "c"}
  TextBytes <- MCTextBytes
  ElementStorage = 20
  MaxMetadata = 1
  MaxTensors = 3
  MaxString = 3
  MaxArray = 2
  MaxCatalog = 45
  MaxRank = 2
SPECIFICATION Spec
CHECK_DEADLOCK FALSE
INVARIANTS
  PayloadsAreThere
  TensorsDisjoint
