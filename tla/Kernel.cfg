SPECIFICATION Spec
CONSTANTS
  SDBlocks = {0, 1, 2}
  SDData = {x, y}
  SDBlockSize = 4
  SDCounts = {1, 2, 3}
  TransferLimit = 2
  ResetTries = 2
  OcrRetries = 2
  MaxSDFaults = 3
  MailboxTags = {1, 2, 3}
  TagWords <- MCTagWords
  MaxTags = 2
  MaxWords = 8
  MaxPolls = 3
  MailboxAddresses = {m1, m2}
  MayBeLate = FALSE
  MaxMessages = 2
  MaxForeign = 1
  WordLimit = 8
  HighLimit = 2
  Period = 3
  MaxLatency = 1
  Entities = {1, 2, 3, 4, 5, 6, 7, 8, 9}
  NameHash <- MCNameHash
  AliasHash <- MCAliasHash
  EntityType <- MCEntityType
  MaxSize = 34
  BlockAlignment = 2
  HeaderBytes = 4
  CounterBytes = 1
  RequestSizes = {1, 4, 9}
  MaxSurplus = 4
  Elements = {1, 2, 3, 4, 5}
  EntryKeys = {1, 2, 3, 4}
  EntryValues = {a, b}
  MaxEntries = 3
  Alphabet = {"A", "a", "1", "~", ".", " ", "+"}
  NameLength = 4
  ExtLength = 1
  NumericTails = {1, 9, 10}
  MaxLongName = 5
  PathLetters = {p}
  Delimiter = slash
  NullCharacter = null
  MaxPath = 9
  PartitionEntries = 3
  VolumeLabels = {boot, console, cli}
  NoVolumeLabel = none
  NoFilesystem = nil
  ConsoleName = uart
  ConsoleAlias = console
  CLIName = cli
  CLIAlias = interface
  Letters = {"a"}
  Delimiters = {" "}
  Quotes = {"single", "double"}
  EndOfString = "null"
  DeleteKey = "delete"
  Commands <- MCCommands
  MaxLine = 6
  MaxKeys = 7
  VectorCapacity = 4
  VectorElements = {x, y, z}
  Dead = dead
  ForwardElements = {1, 2, 3, 4, 5}
  NoForwardNode = 0
INVARIANTS
  SuccessMeansTransferred
  ReadyMeansReady
  RetriesMaskFaults
  SuccessMeansAnswered
  TimerStaysArmed
  TimeIsRead
  MapIsAVLTree
  IterationVisitsAll
  IndexesAgree
  HeapIsSound
  ListIsSequence
  GeneratedIsSeen
  IteratorsAgree
  StartIsSound
  EveryVolumeIsMounted
  TheLineIsExecuted
  VectorIsSequence
PROPERTIES
  
  ImplementsRecentlyUsed
CHECK_DEADLOCK FALSE
