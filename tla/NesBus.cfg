SPECIFICATION Spec
CONSTANTS
    Addresses <- MCAddresses
    Values = {1, 2}
    Increments = {1, 32}
    OamSize = 4
    Pages <- MCPages
    Buttons = 3
    Held = {0, 3, 5}
    CpuAddresses <- MCCpuAddresses
    Switches <- MCSwitches
INVARIANTS
    TypeOK
PROPERTIES
    BusIsDecoded
    VideoMemoryKept
    DmaIsRotation
    ButtonsOfOnePoll
