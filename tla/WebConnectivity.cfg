SPECIFICATION FairSpec
CONSTANTS
  a1 = a1
  a2 = a2
  a3 = a3
  d1 = d1
  Addr = {a1, a2}
  Domain = {d1}
  InputURLs <- HTTPURL
  RedirectURLs <- HTTPSURL
  MaxRedirects = 1
  ExtraTime = 1
  RecvTimeout = 2
  Answers <- TwoAddrs
  THAnswers <- TwoTHAddrs
INVARIANTS
  WaitGroupBalance
  JoinedBeforeFinalize
  AtMostOneFetch
  SomeoneFetches
PROPERTY
  EventuallyJoins
