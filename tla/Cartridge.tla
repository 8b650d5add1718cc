----------------------------- MODULE Cartridge -----------------------------
(***************************************************************************)
(* The cartridge: nes_rom_loader, the three mappers and the part of        *)
(* nes_memory that reaches them.                                           *)
(*                                                                         *)
(* A mapper of the real machine decodes addresses.  These mappers copy: a  *)
(* register write copies a bank of the ROM over a window of CPU memory     *)
(* (four of 8 KB from $8000) or of PPU memory (eight of 1 KB from $0000),  *)
(* so a window shows what was last copied there, not what the registers    *)
(* say now.  A window's content is reduced to the number of the bank in    *)
(* it, counted in windows.                                                 *)
(*                                                                         *)
(* A definition whose name begins with Bug is a mistake some property      *)
(* notices when it replaces the definition after it.                       *)
(***************************************************************************)
EXTENDS Integers, Sequences

CONSTANTS
    Flags6, Flags7, \* bytes 6 and 7 of the headers of ROM files
    PrgSizes,       \* their sizes of PRG ROM in 16 KB: header.prg_size
    ChrSizes,       \* their sizes of CHR ROM in 8 KB: header.chr_size
    Garbage,        \* bytes an uninitialised member may hold
    Selects,        \* MMC3 bank registers the guest uses
    BankBytes       \* bytes the guest writes to them

ASSUME CartridgeAssumption ==
    /\ Flags6 \subseteq 0 .. 255 /\ Flags7 \subseteq 0 .. 255
    /\ PrgSizes \subseteq 1 .. 255 /\ ChrSizes \subseteq 0 .. 255
    /\ Selects \subseteq 0 .. 7
    /\ Garbage \subseteq 0 .. 255 /\ BankBytes \subseteq 0 .. 255

Empty    == -1      \* memory as it was at power on
Outside  == -2      \* bytes from outside the ROM: an unchecked copy
Modified == -3      \* the program has written here
Unset    == -4      \* history: the register says nothing of any window

Mirrorings == 0 .. 3
OneScreenLower == 0
Vertical == 2
Horizontal == 3

PrgWindows == 0 .. 3
ChrWindows == 0 .. 7

VARIABLES
    mapper,         \* the mapper the loader made
    prgRom, chrRom, \* its ROMs, counted in windows
    prg,            \* _ram[$8000 ..]: the bank in each window
    chr,            \* _vram[$0000 .. $1fff]
    mirroring,      \* nes_ppu::_mirroring_flags
    bitLatch,       \* nes_mapper_mmc1::_bit_latch
    reg,            \* nes_mapper_mmc1::_reg
    control,        \* nes_mapper_mmc1::_control
    bankSelect,     \* nes_mapper_mmc3::_bank_select: inversion, mode, select
    prevPrgMode,    \* nes_mapper_mmc3::_prev_prg_mode
    bits,           \* history: bits of the MMC1 sequence under way
    synced,         \* history: the MMC1 shift register holds only such bits
    banks           \* history: MMC3 banks written since their mode was set

rom    == <<mapper, prgRom, chrRom>>
mmc1   == <<bitLatch, reg, control, bits, synced>>
mmc3   == <<bankSelect, prevPrgMode, banks>>
vars   == <<rom, prg, chr, mirroring, mmc1, mmc3>>

-----------------------------------------------------------------------------
(* nes_memory::set_bytes and nes_ppu::write_bytes from the ROM: n windows  *)
(* from dst take the banks from src.                                       *)

CopyPrg(p, dst, src, n) ==
    [w \in PrgWindows |->
        IF w \notin dst .. dst + n - 1 THEN p[w]
        ELSE IF src + w - dst \in 0 .. prgRom - 1 THEN src + w - dst ELSE Outside]

CopyChr(c, dst, src, n) ==
    [w \in ChrWindows |-> IF w \in dst .. dst + n - 1 THEN src + w - dst ELSE c[w]]

NoPrg == [w \in PrgWindows |-> Empty]
NoChr == [w \in ChrWindows |-> Empty]

Mmc3OnLoadRam == CopyPrg(NoPrg, 3, prgRom - 1, 1)

(* A 16 KB NROM is copied twice; a 16 KB MMC1 is copied from before its    *)
(* beginning.                                                              *)
OnLoadRam ==
    CASE mapper = "nrom" -> CopyPrg(CopyPrg(NoPrg, 0, 0, prgRom), IF prgRom = 2 THEN 2 ELSE 0, 0, prgRom)
      [] mapper = "mmc1" -> CopyPrg(NoPrg, 0, prgRom - 4, 4)
      [] mapper = "mmc3" -> Mmc3OnLoadRam

OnLoadPpu == IF mapper = "nrom" THEN CopyChr(NoChr, 0, 0, chrRom) ELSE NoChr

(* get_info: only NROM has a flag for a header that says horizontal.       *)
LoadedMirroring(vertical) ==
    IF vertical THEN Vertical
    ELSE IF mapper = "nrom" THEN Horizontal
    ELSE OneScreenLower

(* nes_rom_loader::load_from.  0x44 is the D of a dumper's name.  A file   *)
(* with another mapper number is not loaded.  BOUND: a file that says NROM *)
(* is no larger than an NROM.                                              *)
MapperId(flag6, flag7) ==
    (flag6 \div 16) + (IF flag7 = 68 THEN 0 ELSE 16 * (flag7 \div 16))

LoadFrom(flag6, flag7, prgSize, chrSize) ==
    /\ \/ MapperId(flag6, flag7) = 0 /\ mapper = "nrom" /\ prgSize <= 2 /\ chrSize <= 1
       \/ MapperId(flag6, flag7) = 1 /\ mapper = "mmc1"
       \/ MapperId(flag6, flag7) = 4 /\ mapper = "mmc3"
    /\ prgRom = 2 * prgSize /\ chrRom = 8 * chrSize
    /\ prg = OnLoadRam /\ chr = OnLoadPpu
    /\ mirroring = LoadedMirroring(flag6 % 2 = 1)

Init ==
    /\ \E flag6 \in Flags6, flag7 \in Flags7, prgSize \in PrgSizes, chrSize \in ChrSizes :
          LoadFrom(flag6, flag7, prgSize, chrSize)
    /\ bitLatch = 0
    /\ IF mapper = "mmc1" THEN reg \in Garbage /\ control \in Garbage
                          ELSE reg = 0 /\ control = 0
    /\ bankSelect = [inversion |-> FALSE, mode |-> 0, select |-> 0]
    /\ prevPrgMode = Unset          \* 1 in the code: neither 0 nor $40
    /\ bits = <<>> /\ synced = FALSE
    /\ banks = [r \in 0 .. 7 |-> Unset]

(* Without mapper registers a write to $8000 and above lands in memory.    *)
SetByte(w) ==
    /\ mapper = "nrom"
    /\ prg' = [prg EXCEPT ![w] = Modified]
    /\ UNCHANGED <<rom, chr, mirroring, mmc1, mmc3>>

-----------------------------------------------------------------------------
(* nes_mapper_mmc1 *)

Bit(n, i) == (n \div 2 ^ i) % 2

BugMmc1Chr(dst, bank, n) ==
    IF chrRom >= 4 * (bank + n) THEN CopyChr(chr, 4 * dst, 4 * bank, n) ELSE chr

(* n 4 KB banks of the CHR ROM. *)
Mmc1Chr(dst, bank, n) ==
    IF chrRom >= 4 * (bank + n) THEN CopyChr(chr, 4 * dst, 4 * bank, 4 * n) ELSE chr

WriteChrBank0(val) ==
    chr' = IF Bit(control, 4) = 1 THEN Mmc1Chr(0, val % 32, 1)
                                  ELSE Mmc1Chr(0, 2 * ((val % 32) \div 2), 2)

WriteChrBank1(val) ==
    chr' = IF Bit(control, 4) = 1 THEN Mmc1Chr(1, val % 32, 1) ELSE chr

WritePrgBank(val) ==
    LET b == val % 16
    IN  prg' =
          IF Bit(control, 3) = 0
            THEN CopyPrg(prg, 0, 4 * (b \div 2), 4)
          ELSE IF Bit(control, 2) = 1
            THEN CopyPrg(CopyPrg(prg, 0, 2 * b, 2), 2, prgRom - 2, 2)
          ELSE CopyPrg(CopyPrg(prg, 0, 0, 2), 2, 2 * b, 2)

(* A write with bit 7 set: the control register is not part of it.         *)
Mmc1Clear ==
    /\ mapper = "mmc1"
    /\ bitLatch' = 0 /\ reg' = 16
    /\ bits' = <<>> /\ synced' = TRUE
    /\ UNCHANGED <<rom, prg, chr, mirroring, control, mmc3>>

BugShifted(bit) == ((reg * 2) % 32) + bit

Shifted(bit) ==
    LET r == reg \div 2 IN IF bit = 1 /\ Bit(r, 4) = 0 THEN r + 16 ELSE r

Mmc1Shift(bit) ==
    /\ mapper = "mmc1" /\ bitLatch + 1 < 5
    /\ bitLatch' = bitLatch + 1
    /\ reg' = Shifted(bit)
    /\ bits' = Append(bits, bit)
    /\ UNCHANGED <<rom, prg, chr, mirroring, control, synced, mmc3>>

BugLatchAfterFifth == 5

LatchAfterFifth == 0

(* The fifth write goes to the register its address (area, in 8 KB)        *)
(* selects.                                                                *)
Mmc1Fifth(area, bit) ==
    LET val == Shifted(bit)
    IN  /\ mapper = "mmc1" /\ bitLatch + 1 = 5
        /\ bitLatch' = LatchAfterFifth /\ reg' = val
        /\ bits' = <<>> /\ synced' = TRUE
        /\ \/ /\ area = 0
              /\ control' = val /\ mirroring' = val % 4
              /\ UNCHANGED <<prg, chr>>
           \/ area = 1 /\ WriteChrBank0(val) /\ UNCHANGED <<control, mirroring, prg>>
           \/ area = 2 /\ WriteChrBank1(val) /\ UNCHANGED <<control, mirroring, prg>>
           \/ area = 3 /\ WritePrgBank(val) /\ UNCHANGED <<control, mirroring, chr>>
        /\ UNCHANGED <<rom, mmc3>>

-----------------------------------------------------------------------------
(* nes_mapper_mmc3.  Its other registers do nothing (or stop a debug       *)
(* build): the scanline counter is not there.                              *)

WriteBankSelect(inversion, mode, select) ==
    /\ mapper = "mmc3"
    /\ bankSelect' = [inversion |-> inversion, mode |-> mode, select |-> select]
    /\ banks' = [r \in 0 .. 7 |->
                    IF r < 6 /\ inversion # bankSelect.inversion THEN Unset ELSE banks[r]]
    /\ UNCHANGED <<rom, prg, chr, mirroring, mmc1, prevPrgMode>>

WriteMirroring(val) ==
    /\ mapper = "mmc3"
    /\ mirroring' = IF val % 2 = 0 THEN Vertical ELSE Horizontal
    /\ UNCHANGED <<rom, prg, chr, mmc1, mmc3>>

(* val &= ~0xb0 *)
PrgBits(val) == (val % 16) + 64 * Bit(val, 6)

BugSwapWindow(select, mode) == IF mode = 1 THEN 2 ELSE 0

SwapWindow(select, mode) ==
    IF select = 7 THEN 1 ELSE IF mode = 1 THEN 2 ELSE 0

BugSecondLast(mode) ==
    IF prevPrgMode # mode THEN CopyPrg(prg, IF mode = 1 THEN 2 ELSE 0, prgRom - 2, 1)
                          ELSE prg

(* A change of PRG mode shows at the next bank data write, and moves the   *)
(* second last bank only.                                                  *)
SecondLast(mode) ==
    IF prevPrgMode # mode THEN CopyPrg(prg, IF mode = 1 THEN 0 ELSE 2, prgRom - 2, 1)
                          ELSE prg

(* First window, size in windows and bank of a CHR register.               *)
ChrBank(r, val) == IF r < 2 THEN val - (val % 2) ELSE val
ChrSize(r) == IF r < 2 THEN 2 ELSE 1
ChrWindow(r) ==
    LET w == IF r < 2 THEN 2 * r ELSE r + 2
    IN  IF bankSelect.inversion THEN (w + 4) % 8 ELSE w

FitsPrg(val) == prgRom >= PrgBits(val) + 1
FitsChr(r, val) == chrRom >= ChrBank(r, val) + ChrSize(r)

WriteBankData(val) ==
    LET r == bankSelect.select
        mode == bankSelect.mode
        p == SecondLast(mode)
        fits == IF r >= 6 THEN FitsPrg(val) ELSE FitsChr(r, val)
    IN  /\ mapper = "mmc3"
        /\ prevPrgMode' = mode
        /\ prg' = IF r >= 6 /\ fits THEN CopyPrg(p, SwapWindow(r, mode), PrgBits(val), 1) ELSE p
        /\ chr' = IF r < 6 /\ fits THEN CopyChr(chr, ChrWindow(r), ChrBank(r, val), ChrSize(r))
                                   ELSE chr
        /\ banks' = [b \in 0 .. 7 |->
                        IF b = r THEN IF fits THEN val ELSE Unset
                        ELSE IF b = 6 /\ prevPrgMode # mode THEN Unset
                        ELSE banks[b]]
        /\ UNCHANGED <<rom, mirroring, mmc1, bankSelect>>

-----------------------------------------------------------------------------
Next ==
    \/ \E w \in PrgWindows : SetByte(w)
    \/ Mmc1Clear
    \/ \E bit \in 0 .. 1 : Mmc1Shift(bit)
    \/ \E area \in 0 .. 3, bit \in 0 .. 1 : Mmc1Fifth(area, bit)
    \/ \E inversion \in BOOLEAN, mode \in 0 .. 1, select \in Selects :
          WriteBankSelect(inversion, mode, select)
    \/ \E val \in 0 .. 1 : WriteMirroring(val)
    \/ \E val \in BankBytes : WriteBankData(val)

Spec == Init /\ [][Next]_vars

-----------------------------------------------------------------------------
TypeOK ==
    /\ mapper \in {"nrom", "mmc1", "mmc3"}
    /\ prgRom \in {2 * n : n \in PrgSizes} /\ chrRom \in {8 * n : n \in ChrSizes}
    /\ prg \in [PrgWindows -> {Empty, Outside, Modified} \cup 0 .. prgRom - 1]
    /\ chr \in [ChrWindows -> {Empty} \cup 0 .. chrRom - 1]
    /\ mirroring \in Mirrorings
    /\ bitLatch \in 0 .. 4 /\ reg \in 0 .. 255 /\ control \in 0 .. 255
    /\ bankSelect \in [inversion : BOOLEAN, mode : 0 .. 1, select : 0 .. 7]
    /\ prevPrgMode \in {Unset, 0, 1}
    /\ bits \in Seq(0 .. 1) /\ Len(bits) = bitLatch /\ synced \in BOOLEAN
    /\ banks \in [0 .. 7 -> BankBytes \cup {Unset}]

(* The value the five bits of a sequence spell, lowest first.              *)
Spelled(bit) ==
    bits[1] + 2 * bits[2] + 4 * bits[3] + 8 * bits[4] + 16 * bit

(* What the comments on nes_mapper_mmc1's registers (lines 74-157) say the *)
(* windows show when bank b is selected.                                   *)
Mmc1PrgShows(b, p) ==
    CASE Bit(control, 3) = 0 -> \A w \in PrgWindows : p[w] = 4 * (b \div 2) + w
      [] Bit(control, 3) = 1 /\ Bit(control, 2) = 0 ->
            /\ p[0] = 0 /\ p[1] = 1 /\ p[2] = 2 * b /\ p[3] = 2 * b + 1
      [] OTHER ->
            /\ p[0] = 2 * b /\ p[1] = 2 * b + 1
            /\ p[2] = prgRom - 2 /\ p[3] = prgRom - 1

(* The five writes of a bank switch, from a clear shift register, select   *)
(* the bank they spell in the mode of the control register, if the ROM     *)
(* has such a bank; whatever was written in between to other areas.        *)
Mmc1Switches ==
    [][\A bit \in 0 .. 1 :
          synced /\ Len(bits) = 4 /\ Mmc1Fifth(3, bit)
            /\ 2 * (Spelled(bit) % 16) + 2 <= prgRom /\ prgRom % 4 = 0
          => Mmc1PrgShows(Spelled(bit) % 16, prg')]_vars

(* MMC1 never shows part of a bank: 16 KB of PRG, 4 KB of CHR stay         *)
(* together and in order, even if the bank lies outside the ROM.           *)
Whole(f, n, w) == f[w] >= 0 => /\ f[w] % n = w % n
                               /\ f[w - (w % n)] = f[w] - (f[w] % n)
BanksAreWhole ==
    mapper = "mmc1" => /\ \A w \in PrgWindows : Whole(prg, 2, w)
                       /\ \A w \in ChrWindows : Whole(chr, 4, w)

(* The window of the reset, NMI and IRQ vectors shows the last bank of an  *)
(* MMC3 cartridge for ever, and the window that the mode bit of the bank   *)
(* select register fixes (nes_mapper_mmc3.cpp:88-91) the second last,      *)
(* except while ModePending: the register table knows no such exception,   *)
(* the code moves the bank with the next bank data write only.             *)
FixedWindow(mode) == IF mode = 1 THEN 0 ELSE 2
ModePending == bankSelect.mode # prevPrgMode

Mmc3FixedBanks ==
    mapper = "mmc3" => /\ prg[3] = prgRom - 1
                       /\ ModePending \/ prg[FixedWindow(bankSelect.mode)] = prgRom - 2

ChrTable(r) == IF bankSelect.inversion THEN <<4, 6, 0, 1, 2, 3>>[r + 1]
                                       ELSE <<0, 2, 4, 5, 6, 7>>[r + 1]
ChrIsWhereSelected ==
        \A r \in 0 .. 5 : banks[r] # Unset =>
            /\ r \in 2 .. 5 => chr[ChrTable(r)] = banks[r]
            /\ r \in 0 .. 1 => /\ chr[ChrTable(r)] = banks[r] - (banks[r] % 2)
                               /\ chr[ChrTable(r) + 1] = chr[ChrTable(r)] + 1
PrgIsWhereSelected ==
        /\ banks[6] # Unset => prg[IF prevPrgMode = 1 THEN 2 ELSE 0] = banks[6]
        /\ banks[7] # Unset => prg[1] = banks[7]

(* Every bank written since its mode was last set is in the windows the    *)
(* register table (nes_mapper_mmc3.cpp:78-95) gives it, register 6 under   *)
(* the PRG mode of the last bank data write: later writes to other         *)
(* registers do not disturb it.                                            *)
Mmc3ShowsBanks == mapper = "mmc3" => ChrIsWhereSelected /\ PrgIsWhereSelected

=============================================================================
