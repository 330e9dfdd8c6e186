SPECIFICATION FairTreeSpec
CONSTANTS
  Zero = Zero
  NoPage = NoPage
  Bytes = {}
  Headers = {}
  Beyond = {}
  PageSizes = {3, 4, 5, 6, 7}
  Trees <- SoundTrees
  Values = {v1, v2}
  MaxPages = 5
CHECK_DEADLOCK FALSE
INVARIANTS TreeTypeOK FoundUnlessSpoilt OnceUnlessSpoilt MaxRecordsFit PagesUsed
PROPERTY InsertReturns
