SPECIFICATION Spec
CONSTANTS
  Candidates = {1, 2}
  Provisional <- mcProvisional
  Names = {"csv", "html", "prompt", "toml"}
  SnifferNames = {"csv-sniffer", "xml", "prompt-structure"}
  DisabledNames = {"toml"}
  BuiltIns = {"html", "text"}
  BuiltInSniffers = {"xml", "json"}
  PromptEnabled = FALSE
INVARIANTS
  RegistryIsTheReport
