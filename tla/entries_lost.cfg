SPECIFICATION Spec
CONSTANTS
  Clients = {c1}
  Kinds = {"child", "sibling"}
  Names = {name1, name2}
  NoName = NoName
  BufEntries = 2
  PageEntries = 2
  MaxCalls = 2
  MaxCrashes = 0
CHECK_DEADLOCK FALSE
PROPERTY EntriesStay
