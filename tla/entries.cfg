SPECIFICATION FairSpec
CONSTANTS
  Clients = {c1, c2}
  Kinds = {"child", "sibling", "edit", "read"}
  Names = {name}
  NoName = NoName
  BufEntries = 2
  PageEntries = 2
  MaxCalls = 4
  MaxCrashes = 1
CHECK_DEADLOCK FALSE
INVARIANTS EntriesTypeOK LinksLeadToEntries NewEntryIsNew ReadFollowsLinks
PROPERTY CallsReturn
