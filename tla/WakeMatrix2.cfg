SPECIFICATION Spec
CONSTANTS
    NumWorkers = 2
    f1 = f1
    f2 = f2
    f3 = f3
    Fibers = {f1, f2, f3}
    NoFiber = NoFiber
    Owner <- MCOwner
    SpawnOrder <- MCSpawnOrder
    NumWords = 2
    WordOf <- MCWordOf
    Capacity = 2
INVARIANTS
    RingAnnounced
    WakeFindsParked
    PushNeverSpins
PROPERTY
    WakeupsAreDelivered
