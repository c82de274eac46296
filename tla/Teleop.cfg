\* A timeout of one period; two commands and two events may wait.
CONSTANTS
    Timeout = 1
    MaxQueue = 2
SPECIFICATION TeleopSpec
INVARIANTS TeleopTypeOK MovingMeansHeard ViewHonest HandsOffStill
