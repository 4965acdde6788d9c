SPECIFICATION FairSpec
CONSTANTS
  Keys = {"one", "two", "other"}
  NoKey = "none"
  NoDecoder = "none"
  Decoders = {"rc5", "universal"}
  Universal = "universal"
  DecoderOf <- ThreeKeys
  Toggling = {"rc5"}
  MaxFrames = 4
INVARIANTS OneHeldEvent QuietForgets
PROPERTIES HeldEventEnds
CHECK_DEADLOCK FALSE
