CONSTANTS
    Threads = {p1, p2, c1, c2, c3, a1}
    Producers = {p1, p2}
    Consumers = {c1, c2, c3}
    Appliers = {a1}
    Items = {x, y, z}
    MaxLen = 3
    NoThread = noThread
    Deleted = deleted
SPECIFICATION ListFairSpec
INVARIANTS ItemsNotStranded
PROPERTIES RemoveProgress
