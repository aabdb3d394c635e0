SPECIFICATION BoSpec
CONSTANTS
    BoWord = 24
    BoConfigs <- MCDefault
    BoDialTimes = {1}
    BoLate = {0}
    BoMaxDials = 1
INVARIANT JitterSpreads
CHECK_DEADLOCK FALSE
