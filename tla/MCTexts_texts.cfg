SPECIFICATION Spec
CONSTANTS
  Lines <- everyLine
  MaxLines = 5
  MaxNodes = 4
  MaxRows = 4
  Media = {"unknown", "pdf", "docx", "csv", "html", "text"}
  Permitted = {"pdf", "docx", "xlsx", "pptx", "csv", "xml", "html", "markdown", "text"}
  SniffBytes = 2
  MaxDecodedBytes = 3
  MaxTableColumns = 2
  MaxTableRows = 2
  MaxDepth = 2
  XmlNodes = 3
  MaxParts = 4
INVARIANTS
  PromptSettles
  PromptKeepsFirst
  EveryWordOnce
  BytesDecide
  EveryValueOnce
  OnlyItsOwnPlace
CHECK_DEADLOCK FALSE
