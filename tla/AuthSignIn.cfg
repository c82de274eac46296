\* Two tabs, two calls at a time, three jobs.
CONSTANTS
    Calls = {c1, c2}
    Tabs = {t1, t2}
    NoTab = NoTab
    MaxFailed = 2
    LockTime = 2
    AccessTTL = 2
    RefreshTTL = 3
    Margin = 1
    MaxClock = 4
    MaxVersion = 9
    MaxJobs = 3
SPECIFICATION ClientSpec
INVARIANTS ClientTypeOK OneLiveToken LockInv JarIsCurrent ReuseNeedsOverlap RefreshPlanned
PROPERTIES LockStands TokensRotate
SYMMETRY Symmetry
