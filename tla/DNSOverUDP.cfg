CONSTANTS
  MaxReplies <- MCMaxReplies
  DNSLookupBufferSize = 2
  DelayedDNSResponseBufferSize = 1
SPECIFICATION FairSpec
INVARIANTS
  OneOwner
  LateRepliesFollowAnswer
  QueriesExplainResult
PROPERTIES
  EverythingEnds
