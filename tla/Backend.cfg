SPECIFICATION Spec
CONSTANTS
    LogMaxEntries = 2  LogMaxBytes = 3  LogSizes = {1, 4}  LogMaxSequence = 3  LogMaxGeneration = 4
    RsReaders = {"r1", "r2"}  RsAnswers <- MCAnswers  RsPageSizes = {1, 2}  RsMaxResponse = 2
    RsMaxItem = 3  RsMaxBytes = 6  RsMaxGeneration = 2  RsMaxCursors = 4
    OpRequests = {"r1", "r2"}  OpMaxRecords = 1  OpMaxLines = 2
    SwScripts <- MCScripts  SwMaxHeader = 20  SwIdle = 2  SwMaximum = 3  SwDeadline = 2  SwMaxTime = 4
    BoWord = 3  BoConfigs <- MCConfigs  BoDialTimes = {1, 3}  BoLate = {0, 1}  BoMaxDials = 2
    ScrValues = {"int", "null"}  ScrMaxCommands = 3
    TcOffers <- MCOffers  TcTools <- MCTools  TcMaxChanges = 5
    ScScene = {0, 1, 2}  ScFresh = {3, 4}  ScComponent = 9  ScMaxRecords = 2  ScMaxMoves = 1
    ScMaxNodes = 5  ScMaxSnapshots = 4  ScOwners <- MCOwners  ScScopes <- MCScopes
INVARIANTS
    OperationsAgree
    TrackerReadsTheWire
    RetryKeepsItsPace
    CommandsKeepTheSchema
    CatalogIsCurrent
    WriteStaysInScope
PROPERTIES
    LogIsHonest
    ReadsAreWhole
CHECK_DEADLOCK FALSE
