SPECIFICATION Spec
CONSTANTS
    p1 = p1
    p2 = p2
    blocked = blocked
    Processes <- MCProcesses
    Pid <- MCPid
    Props <- MCProps
    Blocklist = {blocked}
    PolicySets <- UserPolicySets
    Passive = FALSE
    Invocations = {i1, i2}
    None = None
    Lower <- MCLower
    Fold <- MCLower
    Compiles <- MCCompiles
    Regex <- MCRegex
    RegexFold <- MCRegexFold
    EarlyKeys = {"name"}
    Zero <- MCZero
PROPERTIES ScanMissesNothing
CHECK_DEADLOCK FALSE
