CONSTANTS
  Addrs <- MCAddrs
  SNIs <- MCSNIs
  Inputs <- MCInputs
  None = None
SPECIFICATION Spec
INVARIANTS
  StreamIsReference
  UserPolicyExcludes
PROPERTIES
  PipelineEnds
