CONSTANTS
  Sanitize <- MCSanitize
  Offers <- MCOffers
  MaxFiles = 2
  MaxFileSize = 2
  MaxTotalSize = 3
  Deleter = {d1, d2}
  Reader = {r1}
  MaxFaults = 1
  MaxCrashes = 1
  Limit = 1
  MaxEntries = 2
SPECIFICATION KnowledgeSpec
INVARIANTS
  ReadyDatasetIsReadable
  ProfileFitsDatabase
  FilesHaveOwner
PROPERTIES
  DeletedDatasetIsForgotten
  RunsAreToldTheirCorrections
\* everything may be done
CHECK_DEADLOCK FALSE
