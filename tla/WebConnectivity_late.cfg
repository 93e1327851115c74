SPECIFICATION Spec
CONSTANTS
  a1 = a1
  a2 = a2
  a3 = a3
  d1 = d1
  Addr = {a1, a2, a3}
  Domain = {d1}
  InputURLs <- HTTPSURL
  RedirectURLs <- HTTPSURL
  MaxRedirects = 0
  ExtraTime = 1
  RecvTimeout = 2
  Answers <- ThreeAddrs
  THAnswers <- NoTHAddrs
INVARIANT LateRepliesJoined
