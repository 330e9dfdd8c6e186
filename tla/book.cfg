SPECIFICATION FairBookSpec
CONSTANTS
  Zero = Zero
  NoPage = NoPage
  d1 = d1
  d2 = d2
  Bytes <- MCBytes
  Headers = {}
  Beyond = {}
  PageSizes = {1, 2}
  Clients = {c1, c2}
  Reach = 3
  Counts = {0, 2, 3}
  MaxOps = 3
CHECK_DEADLOCK FALSE
INVARIANTS BookTypeOK LinksAgree ChainHasNoLoop ReadIsComplete ReadsWhatWasWritten
PROPERTY EveryCallReturns
