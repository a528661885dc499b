SPECIFICATION Spec
CONSTANTS
    Thread = {main, a, b}
    Main = main
    Pool = {p}
    NoPool = NoPool
    Online = {0, 1, 2}
    CpuOptions <- MCCpuOptions
    Shot = {x, y}
    NoShot = NoShot
    MaxDrops = 1
    MaxReloads = 1
INVARIANTS TypeOK MasksSettled DropsCounted
PROPERTIES Settles
