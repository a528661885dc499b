SPECIFICATION FairSpec
CONSTANTS
    v1 = v1
    v2 = v2
    n1 = n1
    n2 = n2
    t1 = t1
    t2 = t2
    Value = {v1, v2}
    Name = {n1}
    NameOf <- MCNameOf
    Target = {t1, t2}
    Options <- MCOptions
    Pusher = {a}
    Timer = {x, y}
    NoTimer = NoTimer
    MaxReloads = 1
INVARIANTS NeverTwice NothingLost
PROPERTIES Delivered PackerEmptied
CHECK_DEADLOCK FALSE
