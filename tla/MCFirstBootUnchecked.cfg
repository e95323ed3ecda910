CONSTANTS
    plain = plain
    demanding = demanding
    broken = broken
    Configs = {demanding}
    Broken = {}
    Required = {demanding}
    Reapply = FALSE
    MaxJobs = 2
    MaxFaults = 0
SPECIFICATION Spec
INVARIANT SentinelAfterChecks
CHECK_DEADLOCK FALSE
