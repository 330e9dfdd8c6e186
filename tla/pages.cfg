SPECIFICATION Spec
CONSTANTS
  Zero = Zero
  NoPage = NoPage
  d1 = d1
  Bytes <- MCBytes
  Headers <- MCHeaders
  PageNo <- MCPageNo
  Misread <- MCMisread
  FsHeaders <- MCFsHeaders
  BufSize = 3
  Wild = {}
  LateResize = FALSE
  MaxPages = 2
  MaxCrashes = 1
CHECK_DEADLOCK FALSE
INVARIANTS TypeOK HeaderSurvives BufferHoldsPrefix
PROPERTIES ImplementsPageTable ChangesOnePartOfOnePage
