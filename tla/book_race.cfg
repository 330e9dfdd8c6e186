SPECIFICATION BookSpec
CONSTANTS
  Zero = Zero
  NoPage = NoPage
  d1 = d1
  d2 = d2
  Bytes <- MCBytes
  Headers = {}
  Beyond = {}
  PageSizes = {2}
  Clients = {c1, c2}
  Reach = 4
  Counts = {0, 2, 3}
  MaxOps = 2
CHECK_DEADLOCK FALSE
INVARIANT ReturnedIsLinked
