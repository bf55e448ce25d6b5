SPECIFICATION Spec
CONSTANTS
  Names <- MCNames
  Unclean = {".."}
  Drives = {"c:"}
  Sizes = {0, 2, 5}
  Root = "conf"
  ZipFile <- MCZipFile
  SolrConfig <- MCSolrConfig
  Schemas <- MCSchemas
  MaxEntries = 4
  MaxFiles = 3
  MaxFile = 2
  MaxTotal = 4
  MaxZip = 2
  Word = 8
  None = None
INVARIANTS TypeOK ReadersAreExact WrittenTreeIsReadBack
CHECK_DEADLOCK FALSE
