SPECIFICATION FairSpec
CONSTANTS
  Jobs = {j1, j2}
  Clients = {c1}
  Streams = {c1}
  Lows = {}
  Runs = {r1}
  Backs = {b1}
  MaxQueue = 2
  NChoices = 1
  MaxTokens = 1
  MaxRounds = 0
  None = None
PROPERTIES RequestsEnd ServerStops
CHECK_DEADLOCK FALSE
