CONSTANTS
    f1 = f1  f2 = f2  f3 = f3  l1 = l1  l2 = l2  p1 = p1
    Waiters = {f1, f2, f3}
    Loaders = {l1, l2}
    Pages = {p1}
    NoPage = NoPage  Null = Null  Closed = Closed
SPECIFICATION Spec
INVARIANTS NodesAreAlive NobodyForgotten
PROPERTY WaitEnds
