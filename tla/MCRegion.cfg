SPECIFICATION ReaderSpec
CONSTANTS
  Size = 4
  Formats = {"api", "elf", "mach", "pe"}
  Segments <- MCSegments
  Slack <- MCSlack
  Maps <- MCMaps
  MaxLayers = 2
  MaxReads = 2
CHECK_DEADLOCK FALSE
INVARIANTS ReaderExact FlattenExact PanicsIfTooLong 
