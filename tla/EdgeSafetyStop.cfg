\* VIOLATED: a heartbeat overtakes an emergency stop, which is dropped.
SPECIFICATION Spec
CONSTANTS
  one = one
  Never = Never
  Pages <- OnePage
  Epoch <- OneEpoch
  Flaky <- NoPages
  HeartbeatTimeout = 2
  CheckInterval = 1
  ResumeWindow = 1
  MaxSeq <- Four
  MaxBoots = 1
PROPERTY EveryStopObeyed
