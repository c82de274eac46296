\* One tab, two calls at a time, three jobs; for liveness.
CONSTANTS
    Calls = {c1, c2}
    Tabs = {t1}
    NoTab = NoTab
    MaxFailed = 2
    LockTime = 2
    AccessTTL = 2
    RefreshTTL = 3
    Margin = 1
    MaxClock = 3
    MaxVersion = 9
    MaxJobs = 3
SPECIFICATION ClientSpec
PROPERTIES EveryRequestReturns
