SPECIFICATION Spec
CONSTANTS
  Objects = {"outer", "inner"}
  Keys = {"", "k", "l"}
  Types = {"Null"}
  MaxCalls = 3
  MaxRegistered = 2
INVARIANTS
  SentAsRegistered
  ConvertedAsBuilt
