SPECIFICATION Spec
CONSTANTS
  Clients = {c1, c2}
  Lengths = {3}
  NumDownloadParts = 2
  MinPartSize = 2
  MaxPartSize = 2
  MaxParts = 2
  MaxRetries = 2
  MaxFaults = 1
  Torn = Torn
  None = None
INVARIANTS TypeOK OneDownload CanceledOnlyIfAbandoned PartFilesTruthful BlobWhole ProgressExact
PROPERTIES ProgressKept ImplementsFetch
SYMMETRY ClientSymmetry
