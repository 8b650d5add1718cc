SPECIFICATION Spec
CONSTANTS
    Flags6 = {0, 1, 16, 65}
    Flags7 = {0, 16, 68}
    PrgSizes = {1, 4}
    ChrSizes = {0, 1}
    Garbage = {0, 30, 255}
    Selects = {0, 2, 6, 7}
    BankBytes = {1, 6, 9}
INVARIANTS
    TypeOK
    BanksAreWhole
    Mmc3FixedBanks
    Mmc3ShowsBanks
PROPERTIES
    Mmc1Switches
