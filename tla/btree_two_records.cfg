SPECIFICATION TreeSpec
CONSTANTS
  Zero = Zero
  NoPage = NoPage
  Bytes = {}
  Headers = {}
  Beyond = {}
  PageSizes = {5}
  Trees <- TwoRecordTrees
  Values = {v1}
  MaxPages = 4
CHECK_DEADLOCK FALSE
INVARIANT EveryKeyIsFound
