SPECIFICATION Spec
CONSTANTS
    c1 = c1
    c2 = c2
    g1 = g1
    g2 = g2
    s1 = s1
    s2 = s2
    CPUs = {c1}
    Cgroups = {g1, g2}
    Slots = {s1, s2}
    MaxEvents = 4
    NoSlot = NoSlot
    NoCg = NoCg
SYMMETRY Symmetry
INVARIANT NothingLost
