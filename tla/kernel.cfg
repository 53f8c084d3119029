SPECIFICATION KernelSpec
CONSTANTS
    c1 = c1
    c2 = c2
    c3 = c3
    g1 = g1
    g2 = g2
    s1 = s1
    s2 = s2
    CPUs = {c1, c2}
    Cgroups = {g1, g2}
    Slots = {s1, s2}
    MaxEvents = 4
    NoSlot = NoSlot
    NoCg = NoCg
    Sectors = {s1, s2}
    InFlightMax = 1
    MaxRequests = 3
    MaxWindows = 2
    Cores = {c1, c2, c3}
    TrackedMax = 2
    Wrap = 16
    Sizes <- MCSizes
    MaxHits = 1
    MaxRuns = 3
    MaxTime = 2
    MaxEmits = 1
SYMMETRY Symmetry
CHECK_DEADLOCK FALSE
INVARIANTS NoDoubleCount LostOnlyInRace ExactAttribution LatencyNotLate CountsAddUp OnCpuAccounted
PROPERTY CountsIntoWindows
