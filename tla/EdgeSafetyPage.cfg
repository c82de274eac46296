\* One page that may lose its connection; the edge may restart once.
SPECIFICATION Spec
CONSTANTS
  one = one
  Never = Never
  Pages <- OnePage
  Epoch <- OneEpoch
  Flaky <- OnePage
  HeartbeatTimeout = 2
  CheckInterval = 1
  ResumeWindow = 1
  MaxSeq <- Four
  MaxBoots = 2
INVARIANT TypeOK
PROPERTIES StopHolds ImplementsSwitch
