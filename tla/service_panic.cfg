SPECIFICATION ServiceSpec
CONSTANTS
  Zero = Zero
  NoPage = NoPage
  None = None
  d1 = d1
  PageNo <- MCPageNo
  Misread <- MCMisread
  Requests <- MCRequests
  Header <- MCHeader
  BufSize = 0
  Handlers = {h1}
  Pollers = {w1}
  Fallible = {w1}
  Impatient = {}
  MaxTasks = 2
CHECK_DEADLOCK FALSE
INVARIANT WriteIsDone
