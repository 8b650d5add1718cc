SPECIFICATION Spec
CONSTANTS
    Addresses <- MCTables
    Values = {1, 2}
    Increments = {1, 32}
    OamSize = 4
    Pages <- MCPages
    Buttons = 3
    Held = {0, 3, 5}
    CpuAddresses <- MCCpuAddresses
    Switches <- Wirings
PROPERTIES
    SwitchKeepsTables
