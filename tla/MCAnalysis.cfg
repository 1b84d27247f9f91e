CONSTANTS
  MaxBuffered = 10000
  MaxTracks = 4
  MaxGaps = 4
  MaxCues = 3
  MaxTopLevelBoxes = 3
  MaxSubtitleSample = 100
  MaxSubtitleBytes = 1000
  MaxBlocks = 20
  MaxTracksBytes = 1000
  Wrap = 65536
  MaxTsPackets = 30
  MaxSequenceUnits = 2
  Rate = 10
  Quiet = 1
  MinSilence = 100
  MaxRanges = 1
  Block = 2
  Step = 1
  Window = 2
  Taps = 2
  Gate = 1
  MaxWords = 4
  MaxPackets = 3
  MaxSounds = 3
  Wide = 2
  U32 = 16
  FailOn = "error"
  MetadataKeys = {"stream_type"}
  Luminance <- MCLuminance
  Files <- MCFiles
  Pictures <- MCPictures
  Sounds <- MCSounds
  Gaps <- MCGaps
  Voice <- MCVoice
  Profiles <- MCProfiles
  Custom <- MCCustom
  Documents <- MCDocuments
  CustomLists <- MCCustomLists
  PluginLists <- MCPluginLists
  CustomRulesAsked <- MCCustomRulesAsked
  Readings <- MCReadings
  FlashTimes <- MCFlashTimes
  FlashLimits <- MCFlashLimits
SPECIFICATION AnalysisSpec
INVARIANTS
  NoPassWithoutDecode
  SegmentsExact
  PartialDecodeNeverCounts
  LostDataShows
  JumpsAreReported
  EveryRuleHasItsKey
  OperandsDecide
  FlashWindowsExact
