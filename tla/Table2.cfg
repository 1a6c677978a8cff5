CONSTANTS
    SlotCount = 4
    p1 = p1  p2 = p2  p3 = p3  b1 = b1  b2 = b2  b3 = b3  t1 = t1  t2 = t2  t3 = t3
    Pids = {p1, p2, p3}
    Bids = {b1, b2}
    NoPid = NoPid  NoBid = NoBid  Deleted = Deleted
    Hash <- Colliding
    Threads = {t1, t2}
    Inserters = {t1, t2}
    Erasers = {t1, t2}
    Overlap = FALSE
SPECIFICATION Spec
INVARIANTS EntriesAreReachable
PROPERTY BehavesLikeAMap InsertEnds
