SPECIFICATION FairSpec
CONSTANTS
  Clients = {c1, c2}
  Lengths = {3}
  NumDownloadParts = 2
  MinPartSize = 2
  MaxPartSize = 2
  MaxParts = 2
  MaxRetries = 1
  MaxFaults = 1
  Torn = Torn
  None = None
PROPERTIES EveryCallAnswered
