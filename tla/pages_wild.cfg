SPECIFICATION Spec
CONSTANTS
  Zero = Zero
  NoPage = NoPage
  d1 = d1
  Bytes <- MCBytes
  Headers <- MCHeaders
  PageNo <- MCPageNo
  Misread <- MCMisread
  FsHeaders <- MCFsHeaders
  BufSize = 0
  Wild = {0}
  LateResize = FALSE
  MaxPages = 2
  MaxCrashes = 0
PROPERTIES CreatedPageIsFresh
