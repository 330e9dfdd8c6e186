SPECIFICATION FairTreeSpec
CONSTANTS
  Zero = Zero
  NoPage = NoPage
  Bytes = {}
  Headers = {}
  Beyond = {}
  PageSizes = {4}
  Trees <- OverhangTrees
  Values = {v1}
  MaxPages = 4
CHECK_DEADLOCK FALSE
PROPERTY EveryInsertReturns
