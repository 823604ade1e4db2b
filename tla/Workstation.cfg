SPECIFICATION Spec
CONSTANTS
    u1 = u1
    u2 = u2
    b1 = b1
    r1 = r1
    r2 = r2
    c1 = c1
    c2 = c2
    Updaters = {u1, u2}
    Newest = 3
    MaxChecks = 2
    MaxReleases = 2
    Builders = {b1}
    Resolvers = {r1, r2}
    MaxGenerations = 3
    MaxTries = 3
    MaxAsks = 2
    MaxProcesses = 3
    Rounds = 4
    MaxStops = 2
    Callers = {c1, c2}
    MaxCalls = 3
    MaxActs = 1
    MaxFaults = 1
    MaxStoreFaults = 1
SYMMETRY Symmetry
CHECK_DEADLOCK FALSE
INVARIANT ResolvedKept
PROPERTIES NewerRelease JobControl ClonedWhole
