SPECIFICATION Spec
CONSTANTS
    Instances = {launchd, manual}
    Managed = launchd
    Configs <- MCAddresses
    Default <- MCDefault
    Absent = absent
    Empty = empty
    Malformed = malformed
    Content = {c1, c2}
    Null = null
    Untracked = untracked
    MaxFaults = 0
INVARIANT CacheAgrees
