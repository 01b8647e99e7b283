SPECIFICATION MCSpec
CONSTANTS
  Standard <- MCStandard
  Frequency <- MCFrequency
  Number <- MCNumber
  Width <- MCWidth
  Streams <- MCStreams
  Extra <- MCExtra
  MaxCalls = 5
  Vector <- MCVector
  Size <- MCSize
  MaxFrames = 3
  MaxCuts = 1
  Grain = 5000
  Resolution = 3
INVARIANTS Aligned HtModes AmpduIsWhole
PROPERTIES StandardSettles
CHECK_DEADLOCK FALSE
