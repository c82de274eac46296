\* Time passes and events arrive.
SPECIFICATION FairSpec
CONSTANTS
  one = one
  Never = Never
  Pages <- OnePage
  Epoch <- OneEpoch
  Flaky <- NoPages
  HeartbeatTimeout = 6
  CheckInterval = 1
  ResumeWindow = 2
  MaxSeq <- Four
  MaxBoots = 2
INVARIANT ViewsAgree
PROPERTIES SilenceStops RecoveryOffered
