SPECIFICATION Spec
CONSTANTS
  Keys <- MCKeys
  Nfc <- MCNfc
  Value <- MCValue
  NoKey = "none"
  NoTitle = "none"
  NoMaxKey = "none"
  NoBody = 0
  NoLimit = 9
  BundleCap = 2
  Buckets = 4
  Threshold = 0
CHECK_DEADLOCK FALSE
INVARIANTS DeliversSelection EachAccounted HistogramTells
