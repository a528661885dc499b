SPECIFICATION MCSpec
CONSTANTS
    MaxTicks = 3
    Sampler = {s, t}
    NoSampler = NoSampler
    Collectors = 2
    Record <- MCRecord
    Target = {"statlog", "other"}
    Pusher <- MCPusher
    Name = {"utime", "value"}
    StatOptions <- MCStatOptions
    Handler = {x, y}
    NoTarget = "none"
    Column <- MCColumn
    Garbage = {"behind"}
    LogOptions <- MCLogOptions
    Formats <- MCFormats
    Client = {c}
    MaxReloads = 1
    MaxCalls = 1
INVARIANTS TypeOK NoTickTwice NoTickLost LegendOnce
PROPERTIES TicksArrive LegendAsListed
