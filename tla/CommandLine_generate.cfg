SPECIFICATION CommandSpec
CONSTANTS
    Component <- MCComponent
    Bad = "bad"
    Variable = "${INI}"
    Default = "default"
    HasDirectory = {"d/a.conf", "d/i3"}
    Package = {"wfc", "core"}
    None = "none"
    program_name = "demo"
    Conf <- MCConf
    InstanceOf <- MCInstanceOf
    Cases <- MCCases
INVARIANTS GeneratesWhereTold
CHECK_DEADLOCK FALSE
