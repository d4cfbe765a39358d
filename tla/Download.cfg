SPECIFICATION DownloadSpec
CONSTANTS
  Calls = {dl, live}
  Dl = dl
  MaxRetries = 2
  MaxElapsed = 1
  MaxId = 4
  PageSize = 2
  NoPage = NoPage
CHECK_DEADLOCK FALSE
INVARIANTS
  DownloadOK
  RangeDownloaded
PROPERTIES
  CallsEnd
