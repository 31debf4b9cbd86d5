SPECIFICATION mcSpec
CONSTANTS
  Requests = {r1, r2}
  Shapes <- allShapes
  Threads = 2
  CacheEnabled = TRUE
  DocumentsEnabled = TRUE
  MaxToggles = 2
  OffloadThreshold = 2
  MaxBodyBytes = 3
  AllowedPaths = {"messages", "embeddings"}
  DeniedPaths = {"files"}
  AdaptedPaths = {"messages"}
  Text <- mcText
  Documents <- mcDocuments
  Short <- mcShort
  Unencodable <- mcUnencodable
  Data <- mcData
  Extractable <- mcExtractable
  Types <- mcTypes
  Unknown = "unknown"
  BaseTransformers <- mcBaseTransformers
  Prompt = "prompt"
  Handles <- mcHandles
  Rank <- mcRank
  BaseSniffers <- mcBaseSniffers
  PromptSniffer = "prompt-structure"
  Position <- mcPosition
  Claim <- mcClaim
  Confidence <- mcConfidence
  Effect <- mcEffect
  Encodings <- mcEncodings
  Tokens <- mcTokens
  TokensAfter <- mcTokensAfter
  Extractor = "document"
  NoTransformer = "none"
SYMMETRY symmetry
INVARIANTS
  NeverGrows
  OwnContent
  ReportMatchesBody
  OnlyCompletedCached
  NamespacesHold
PROPERTY AnswersAsCacheless
CHECK_DEADLOCK FALSE
