CONSTANTS
    r1 = r1
    r2 = r2
    d1 = d1
    d2 = d2
    g1 = g1
    g2 = g2
    g3 = g3
    Repos = {r1, r2}
    Commits = {c1, c2, bad}
    Dirs = {d1, d2}
    Paths <- MCPaths
    Configs = {g1, g2, g3}
    RepoOf <- MCRepoOf
    DirOf <- MCDirOf
    PathOf <- MCPathOf
    Broken = {bad}
    None = None
    Cut = Cut
    MaxPushes = 2
    MaxFaults = 1
    MaxReconfigures = 2
    MaxRestarts = 1
SPECIFICATION Spec
INVARIANT ActiveIsLastHash
PROPERTY FollowsRemote
CHECK_DEADLOCK FALSE
