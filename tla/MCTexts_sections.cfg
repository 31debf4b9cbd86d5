SPECIFICATION Spec
CONSTANTS
  Lines <- sectionLine
  MaxLines = 8
  MaxNodes = 0
  MaxRows = 0
  Media = {}
  Permitted = {}
  SniffBytes = 2
  MaxDecodedBytes = 3
  MaxTableColumns = 2
  MaxTableRows = 2
  MaxDepth = 2
  XmlNodes = 3
  MaxParts = 0
INVARIANT SectionsKept
CHECK_DEADLOCK FALSE
