CONSTANTS
  Lookups = {l1, l2}
  URLs = {"https", "http3", "broken", "system", "removed"}
  AllMakers <- MCAllMakers
  Files <- MCFiles
  Proxiable = {"https", "broken"}
  Broken = {"broken"}
  Scale = 1000
  MaxCloses = 2
SPECIFICATION FairSpec
CHECK_DEADLOCK FALSE
INVARIANTS
  EachResolverOnce
  ErrorMeansAllFailed
  CancelBlamesAtMostOne
  WinnerOutranksLosers
PROPERTIES
  LookupReturns
