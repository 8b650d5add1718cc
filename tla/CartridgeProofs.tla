-------------------------- MODULE CartridgeProofs --------------------------
(***************************************************************************)
(* What is proved of Cartridge for ROMs of every size and every series of  *)
(* register writes: its typing, and that the windows of MMC1 and MMC3 show *)
(* what their registers promise.                                           *)
(***************************************************************************)
EXTENDS Cartridge, SequenceTheorems, TLAPS

(* A ROM is a whole number of 16 KB and of 8 KB pieces.                    *)
LEMMA RomSizes ==
    TypeOK => /\ prgRom \in Nat /\ prgRom >= 2 /\ prgRom % 2 = 0
              /\ chrRom \in Nat /\ chrRom % 8 = 0
<1> SUFFICES ASSUME TypeOK
             PROVE  /\ prgRom \in Nat /\ prgRom >= 2 /\ prgRom % 2 = 0
                    /\ chrRom \in Nat /\ chrRom % 8 = 0
    OBVIOUS
<1>1. PICK n \in PrgSizes : prgRom = 2 * n
    BY DEF TypeOK
<1>2. PICK m \in ChrSizes : chrRom = 8 * m
    BY DEF TypeOK
<1>3. n \in 1 .. 255 /\ m \in 0 .. 255
    BY CartridgeAssumption DEF CartridgeAssumption
<1> QED
    BY <1>1, <1>2, <1>3

PrgBanks == {Empty, Outside, Modified} \cup 0 .. prgRom - 1
ChrBanks == {Empty} \cup 0 .. chrRom - 1

(* A copy from the PRG ROM leaves banks of the ROM, or marks that it left  *)
(* the ROM.                                                                *)
LEMMA CopyPrgType ==
    ASSUME NEW p \in [PrgWindows -> PrgBanks], prgRom \in Nat,
           NEW dst \in Int, NEW src \in Int, NEW n \in Int
    PROVE  CopyPrg(p, dst, src, n) \in [PrgWindows -> PrgBanks]
<1> SUFFICES ASSUME NEW w \in PrgWindows
             PROVE  (IF w \notin dst .. dst + n - 1 THEN p[w]
                     ELSE IF src + w - dst \in 0 .. prgRom - 1 THEN src + w - dst ELSE Outside)
                    \in PrgBanks
    BY DEF CopyPrg
<1> QED
    BY DEF PrgBanks, PrgWindows

(* A copy of CHR is checked by its caller: the ROM is long enough.         *)
LEMMA CopyChrType ==
    ASSUME NEW c \in [ChrWindows -> ChrBanks], chrRom \in Nat,
           NEW dst \in Int, NEW src \in Nat, NEW n \in Int, src + n <= chrRom
    PROVE  CopyChr(c, dst, src, n) \in [ChrWindows -> ChrBanks]
<1> SUFFICES ASSUME NEW w \in ChrWindows
             PROVE  (IF w \in dst .. dst + n - 1 THEN src + w - dst ELSE c[w]) \in ChrBanks
    BY DEF CopyChr
<1> QED
    BY DEF ChrBanks, ChrWindows

LEMMA PrgBitsType == ASSUME NEW val \in Nat PROVE PrgBits(val) \in Nat
<1>1. 2 ^ 6 = 64
    OBVIOUS
<1>2. (val \div 64) % 2 \in Nat
    OBVIOUS
<1> QED
    BY <1>1, <1>2 DEF PrgBits, Bit

-----------------------------------------------------------------------------
(* MMC1 and MMC3 copies keep the types of the windows.                     *)

LEMMA Mmc1ChrType ==
    ASSUME TypeOK, NEW dst \in Int, NEW bank \in Nat, NEW n \in Nat
    PROVE  Mmc1Chr(dst, bank, n) \in [ChrWindows -> ChrBanks]
<1>1. chrRom \in Nat
    BY RomSizes
<1>2. chr \in [ChrWindows -> ChrBanks]
    BY DEF TypeOK, ChrBanks
<1>3. CASE chrRom >= 4 * (bank + n)
    <2>1. (4 * bank) \in Nat /\ (4 * dst) \in Int /\ (4 * n) \in Int /\ (4 * bank) + (4 * n) <= chrRom
        BY <1>1, <1>3
    <2> QED
        BY <2>1, <1>1, <1>2, <1>3, CopyChrType DEF Mmc1Chr
<1> QED
    BY <1>2, <1>3 DEF Mmc1Chr

LEMMA WritePrgBankType ==
    ASSUME TypeOK, NEW val \in Nat, WritePrgBank(val)
    PROVE  prg' \in [PrgWindows -> PrgBanks]
<1> DEFINE b == val % 16
<1>1. b \in Nat /\ 4 * (b \div 2) \in Int /\ 2 * b \in Int
    OBVIOUS
<1>2. prgRom \in Nat /\ prgRom - 2 \in Int
    BY RomSizes
<1>3. prg \in [PrgWindows -> PrgBanks]
    BY DEF TypeOK, PrgBanks
<1> HIDE DEF b
<1>4. CopyPrg(prg, 0, 4 * (b \div 2), 4) \in [PrgWindows -> PrgBanks]
    BY <1>1, <1>2, <1>3, CopyPrgType
<1>5. CopyPrg(CopyPrg(prg, 0, 2 * b, 2), 2, prgRom - 2, 2) \in [PrgWindows -> PrgBanks]
    <2>1. CopyPrg(prg, 0, 2 * b, 2) \in [PrgWindows -> PrgBanks]
        BY <1>1, <1>2, <1>3, CopyPrgType
    <2> QED
        BY <2>1, <1>2, CopyPrgType
<1>6. CopyPrg(CopyPrg(prg, 0, 0, 2), 2, 2 * b, 2) \in [PrgWindows -> PrgBanks]
    <2>1. CopyPrg(prg, 0, 0, 2) \in [PrgWindows -> PrgBanks]
        BY <1>2, <1>3, CopyPrgType
    <2> QED
        BY <2>1, <1>1, <1>2, CopyPrgType
<1> QED
    BY <1>4, <1>5, <1>6 DEF WritePrgBank, b

LEMMA ShiftedType ==
    ASSUME reg \in 0 .. 255, NEW bit \in 0 .. 1
    PROVE  Shifted(bit) \in 0 .. 255
<1>1. reg \div 2 \in 0 .. 127
    OBVIOUS
<1> QED
    BY <1>1 DEF Shifted

LEMMA Mmc3Types ==
    ASSUME TypeOK, NEW val \in BankBytes, WriteBankData(val)
    PROVE  /\ prg' \in [PrgWindows -> PrgBanks]
           /\ chr' \in [ChrWindows -> ChrBanks]
<1> DEFINE r == bankSelect.select
           mode == bankSelect.mode
           p == SecondLast(mode)
<1>1. r \in 0 .. 7 /\ mode \in 0 .. 1 /\ val \in 0 .. 255
    BY CartridgeAssumption DEF TypeOK, CartridgeAssumption
<1>2. prgRom \in Nat /\ chrRom \in Nat
    BY RomSizes
<1>3. prg \in [PrgWindows -> PrgBanks] /\ chr \in [ChrWindows -> ChrBanks]
    BY DEF TypeOK, PrgBanks, ChrBanks
<1>4. p \in [PrgWindows -> PrgBanks]
    <2>1. CopyPrg(prg, IF mode = 1 THEN 0 ELSE 2, prgRom - 2, 1) \in [PrgWindows -> PrgBanks]
        BY <1>2, <1>3, CopyPrgType
    <2> QED
        BY <2>1, <1>3 DEF SecondLast
<1>5. prg' \in [PrgWindows -> PrgBanks]
    <2>1. SwapWindow(r, mode) \in Int /\ PrgBits(val) \in Int
        BY <1>1, PrgBitsType DEF SwapWindow
    <2>2. CopyPrg(p, SwapWindow(r, mode), PrgBits(val), 1) \in [PrgWindows -> PrgBanks]
        BY <2>1, <1>2, <1>4, CopyPrgType
    <2>3. prg' = CopyPrg(p, SwapWindow(r, mode), PrgBits(val), 1) \/ prg' = p
        BY DEF WriteBankData
    <2> QED
        BY <2>2, <2>3, <1>4
<1>6. chr' \in [ChrWindows -> ChrBanks]
    <2>1. CASE r < 6 /\ FitsChr(r, val)
        <3>1. ChrWindow(r) \in Int /\ ChrBank(r, val) \in Nat /\ ChrSize(r) \in Int
            BY <1>1 DEF ChrWindow, ChrBank, ChrSize
        <3>2. ChrBank(r, val) + ChrSize(r) <= chrRom
            BY <2>1, <3>1, <1>2 DEF FitsChr
        <3>3. chr' = CopyChr(chr, ChrWindow(r), ChrBank(r, val), ChrSize(r))
            BY <2>1, <1>1 DEF WriteBankData
        <3> QED
            BY <3>1, <3>2, <3>3, <1>2, <1>3, CopyChrType
    <2>2. CASE ~(r < 6 /\ FitsChr(r, val))
        <3>1. chr' = chr
            BY <2>2, <1>1 DEF WriteBankData
        <3> QED
            BY <3>1, <1>3
    <2> QED
        BY <2>1, <2>2
<1> QED
    BY <1>5, <1>6

-----------------------------------------------------------------------------
LEMMA InitTypes == Init => TypeOK
<1> SUFFICES ASSUME Init PROVE TypeOK
    OBVIOUS
<1>1. PICK flag6 \in Flags6, flag7 \in Flags7, prgSize \in PrgSizes, chrSize \in ChrSizes :
          LoadFrom(flag6, flag7, prgSize, chrSize)
    BY DEF Init
<1>2. prgSize \in 1 .. 255 /\ chrSize \in 0 .. 255 /\ prgRom = 2 * prgSize /\ chrRom = 8 * chrSize
    BY <1>1, CartridgeAssumption DEF CartridgeAssumption, LoadFrom
<1>3. mapper \in {"nrom", "mmc1", "mmc3"} /\ (mapper = "nrom" => chrSize <= 1)
    BY <1>1 DEF LoadFrom
<1>4. prg \in [PrgWindows -> PrgBanks]
    <2>1. NoPrg \in [PrgWindows -> PrgBanks]
        BY DEF NoPrg, PrgBanks
    <2>2. prgRom \in Nat /\ prgRom - 1 \in Int /\ prgRom - 4 \in Int
        BY <1>2
    <2>3. CASE mapper = "nrom"
        <3>1. CopyPrg(NoPrg, 0, 0, prgRom) \in [PrgWindows -> PrgBanks]
            BY <2>1, <2>2, CopyPrgType
        <3>2. CopyPrg(CopyPrg(NoPrg, 0, 0, prgRom), IF prgRom = 2 THEN 2 ELSE 0, 0, prgRom)
                 \in [PrgWindows -> PrgBanks]
            BY <3>1, <2>2, CopyPrgType
        <3> QED
            BY <3>2, <2>3, <1>1 DEF LoadFrom, OnLoadRam
    <2>4. CASE mapper = "mmc1"
        <3>1. prg = CopyPrg(NoPrg, 0, prgRom - 4, 4)
            BY <2>4, <1>1 DEF LoadFrom, OnLoadRam
        <3> QED
            BY <3>1, <2>1, <2>2, CopyPrgType
    <2>5. CASE mapper = "mmc3"
        <3>1. prg = CopyPrg(NoPrg, 3, prgRom - 1, 1)
            BY <2>5, <1>1 DEF LoadFrom, OnLoadRam, Mmc3OnLoadRam
        <3> QED
            BY <3>1, <2>1, <2>2, CopyPrgType
    <2> QED
        BY <2>3, <2>4, <2>5, <1>3
<1>5. chr \in [ChrWindows -> ChrBanks]
    <2>1. NoChr \in [ChrWindows -> ChrBanks]
        BY DEF NoChr, ChrBanks
    <2>2. chrRom \in Nat /\ CopyChr(NoChr, 0, 0, chrRom) \in [ChrWindows -> ChrBanks]
        BY <1>2, <2>1, CopyChrType
    <2> QED
        BY <1>1, <2>1, <2>2 DEF LoadFrom, OnLoadPpu
<1>6. mirroring \in Mirrorings
    BY <1>1 DEF LoadFrom, LoadedMirroring, Mirrorings, Vertical, Horizontal, OneScreenLower
<1>7. bitLatch \in 0 .. 4 /\ reg \in 0 .. 255 /\ control \in 0 .. 255
    <2>1. bitLatch = 0 /\ (IF mapper = "mmc1" THEN reg \in Garbage /\ control \in Garbage
                                             ELSE reg = 0 /\ control = 0)
        BY DEF Init
    <2>2. Garbage \subseteq 0 .. 255
        BY CartridgeAssumption DEF CartridgeAssumption
    <2>3. CASE mapper = "mmc1"
        <3>1. reg \in Garbage /\ control \in Garbage /\ bitLatch = 0
            BY <2>1, <2>3
        <3>2. reg \in 0 .. 255
            BY <3>1, <2>2
        <3>3. control \in 0 .. 255
            BY <3>1, <2>2
        <3> QED
            BY <3>1, <3>2, <3>3
    <2>4. CASE mapper # "mmc1"
        BY <2>1, <2>4
    <2> QED
        BY <2>3, <2>4
<1>8. bits \in Seq(0 .. 1) /\ Len(bits) = bitLatch /\ synced \in BOOLEAN
    BY EmptySeq DEF Init
<1>9. bankSelect \in [inversion : BOOLEAN, mode : 0 .. 1, select : 0 .. 7] /\ prevPrgMode \in {Unset, 0, 1}
    BY DEF Init
<1>10. banks \in [0 .. 7 -> BankBytes \cup {Unset}]
    BY DEF Init
<1>11. prgRom \in {2 * n : n \in PrgSizes} /\ chrRom \in {8 * n : n \in ChrSizes}
    BY <1>2
<1> QED
    BY <1>3, <1>4, <1>5, <1>6, <1>7, <1>8, <1>9, <1>10, <1>11 DEF TypeOK, PrgBanks, ChrBanks

LEMMA StepTypes == TypeOK /\ [Next]_vars => TypeOK'
<1> SUFFICES ASSUME TypeOK, [Next]_vars PROVE TypeOK'
    OBVIOUS
<1> USE DEF PrgBanks, ChrBanks
<1>1. ASSUME NEW w \in PrgWindows, SetByte(w) PROVE TypeOK'
    BY <1>1 DEF SetByte, TypeOK, rom, mmc1, mmc3
<1>2. CASE Mmc1Clear
    BY <1>2, EmptySeq DEF Mmc1Clear, TypeOK, rom, mmc3
<1>3. ASSUME NEW bit \in 0 .. 1, Mmc1Shift(bit) PROVE TypeOK'
    <2>1. bits' \in Seq(0 .. 1) /\ Len(bits') = Len(bits) + 1
        BY <1>3, AppendProperties DEF Mmc1Shift, TypeOK
    <2>2. reg' \in 0 .. 255
        BY <1>3, ShiftedType DEF Mmc1Shift, TypeOK
    <2>3. bitLatch' \in 0 .. 4
        BY <1>3 DEF Mmc1Shift, TypeOK
    <2> QED
        BY <2>1, <2>2, <2>3, <1>3 DEF Mmc1Shift, TypeOK, rom, mmc3
<1>4. ASSUME NEW area \in 0 .. 3, NEW bit \in 0 .. 1, Mmc1Fifth(area, bit) PROVE TypeOK'
    <2>1. Shifted(bit) \in 0 .. 255
        BY ShiftedType DEF TypeOK
    <2>2. reg' \in 0 .. 255 /\ control' \in 0 .. 255 /\ mirroring' \in Mirrorings
        <3>1. reg' = Shifted(bit) /\ control' \in {control, Shifted(bit)}
              /\ mirroring' \in {mirroring, Shifted(bit) % 4}
            BY <1>4 DEF Mmc1Fifth
        <3>2. Shifted(bit) % 4 \in 0 .. 3
            BY <2>1
        <3>3. reg' \in 0 .. 255 /\ control' \in 0 .. 255
            <4>1. control \in 0 .. 255
                BY DEF TypeOK
            <4>2. control' \in 0 .. 255
                BY <4>1, <3>1, <2>1
            <4> QED
                BY <4>2, <3>1, <2>1
        <3>4. mirroring' \in Mirrorings
            BY <3>1, <3>2 DEF TypeOK, Mirrorings
        <3> QED
            BY <3>3, <3>4
    <2>3. prg' \in [PrgWindows -> PrgBanks]
        <3>1. prg' = prg \/ WritePrgBank(Shifted(bit))
            BY <1>4 DEF Mmc1Fifth
        <3>2. Shifted(bit) \in Nat
            BY <2>1
        <3>3. ASSUME WritePrgBank(Shifted(bit)) PROVE prg' \in [PrgWindows -> PrgBanks]
            BY <3>2, <3>3, WritePrgBankType
        <3> QED
            BY <3>1, <3>3 DEF TypeOK
    <2>4. chr' \in [ChrWindows -> ChrBanks]
        <3>1. \A dst \in 0 .. 1, bank \in Nat, n \in 1 .. 2 : Mmc1Chr(dst, bank, n) \in [ChrWindows -> ChrBanks]
            BY Mmc1ChrType
        <3>2. Shifted(bit) % 32 \in Nat /\ 2 * ((Shifted(bit) % 32) \div 2) \in Nat
            BY <2>1
        <3>3. ASSUME WriteChrBank0(Shifted(bit)) PROVE chr' \in [ChrWindows -> ChrBanks]
            BY <3>1, <3>2, <3>3 DEF WriteChrBank0
        <3>4. ASSUME WriteChrBank1(Shifted(bit)) PROVE chr' \in [ChrWindows -> ChrBanks]
            BY <3>1, <3>2, <3>4 DEF WriteChrBank1, TypeOK
        <3> QED
            BY <3>3, <3>4, <1>4 DEF Mmc1Fifth, TypeOK
    <2>5. bits' \in Seq(0 .. 1) /\ Len(bits') = bitLatch' /\ bitLatch' \in 0 .. 4 /\ synced' \in BOOLEAN
        BY <1>4, EmptySeq DEF Mmc1Fifth, LatchAfterFifth
    <2>6. UNCHANGED <<mapper, prgRom, chrRom, bankSelect, prevPrgMode, banks>>
        BY <1>4 DEF Mmc1Fifth, rom, mmc3
    <2> QED
        BY <2>2, <2>3, <2>4, <2>5, <2>6 DEF TypeOK
<1>5. ASSUME NEW inversion \in BOOLEAN, NEW mode \in 0 .. 1, NEW select \in Selects,
             WriteBankSelect(inversion, mode, select)
      PROVE  TypeOK'
    <2>1. select \in 0 .. 7
        BY CartridgeAssumption DEF CartridgeAssumption
    <2>2. banks' \in [0 .. 7 -> BankBytes \cup {Unset}]
        BY <1>5 DEF WriteBankSelect, TypeOK
    <2>3. bankSelect' \in [inversion : BOOLEAN, mode : 0 .. 1, select : 0 .. 7]
        BY <1>5, <2>1 DEF WriteBankSelect
    <2> QED
        BY <2>2, <2>3, <1>5 DEF WriteBankSelect, TypeOK, rom, mmc1
<1>6. ASSUME NEW val \in 0 .. 1, WriteMirroring(val) PROVE TypeOK'
    <2>1. mirroring' \in Mirrorings
        BY <1>6 DEF WriteMirroring, Mirrorings, Vertical, Horizontal
    <2> QED
        BY <2>1, <1>6 DEF WriteMirroring, TypeOK, rom, mmc1, mmc3
<1>7. ASSUME NEW val \in BankBytes, WriteBankData(val) PROVE TypeOK'
    <2>1. prg' \in [PrgWindows -> PrgBanks] /\ chr' \in [ChrWindows -> ChrBanks]
        BY <1>7, Mmc3Types
    <2>2. prevPrgMode' \in {Unset, 0, 1}
        BY <1>7 DEF WriteBankData, TypeOK
    <2>3. banks' \in [0 .. 7 -> BankBytes \cup {Unset}]
        BY <1>7 DEF WriteBankData, TypeOK
    <2> QED
        BY <2>1, <2>2, <2>3, <1>7 DEF WriteBankData, TypeOK, rom, mmc1
<1>8. CASE UNCHANGED vars
    BY <1>8 DEF vars, rom, mmc1, mmc3, TypeOK
<1> QED
    BY <1>1, <1>2, <1>3, <1>4, <1>5, <1>6, <1>7, <1>8 DEF Next

(* Every register and every window keeps its range: a copy that is not     *)
(* checked is marked and never taken for a bank.                           *)
THEOREM TypeCorrect == Spec => []TypeOK
<1> QED
    BY InitTypes, StepTypes, PTL DEF Spec

-----------------------------------------------------------------------------
(* What a bank data write of MMC3 leaves in each window.                   *)

LEMMA Mmc3Prg ==
    ASSUME TypeOK, NEW val \in BankBytes, WriteBankData(val), NEW w \in PrgWindows
    PROVE  LET r == bankSelect.select
               mode == bankSelect.mode
           IN  prg'[w] = IF r >= 6 /\ FitsPrg(val) /\ w = SwapWindow(r, mode) THEN PrgBits(val)
                         ELSE IF prevPrgMode # mode /\ w = FixedWindow(mode) THEN prgRom - 2
                         ELSE prg[w]
<1> DEFINE r == bankSelect.select
           mode == bankSelect.mode
           p == SecondLast(mode)
<1>1. r \in 0 .. 7 /\ mode \in 0 .. 1 /\ val \in Nat
    BY CartridgeAssumption DEF TypeOK, CartridgeAssumption
<1>2. prgRom \in Nat /\ prgRom >= 2
    BY RomSizes
<1>3. PrgBits(val) \in Nat
    BY <1>1, PrgBitsType
<1>4. ASSUME NEW q, NEW dst \in PrgWindows, NEW src \in 0 .. prgRom - 1
      PROVE  CopyPrg(q, dst, src, 1)[w] = IF w = dst THEN src ELSE q[w]
    BY <1>2 DEF CopyPrg, PrgWindows
<1>5. p[w] = IF prevPrgMode # mode /\ w = FixedWindow(mode) THEN prgRom - 2 ELSE prg[w]
    <2>1. FixedWindow(mode) \in PrgWindows /\ prgRom - 2 \in 0 .. prgRom - 1
        BY <1>2 DEF FixedWindow, PrgWindows
    <2>2. CopyPrg(prg, FixedWindow(mode), prgRom - 2, 1)[w] = IF w = FixedWindow(mode) THEN prgRom - 2 ELSE prg[w]
        BY <2>1, <1>4
    <2>3. p = IF prevPrgMode # mode THEN CopyPrg(prg, FixedWindow(mode), prgRom - 2, 1) ELSE prg
        BY DEF SecondLast, FixedWindow
    <2> QED
        BY <2>2, <2>3
<1>6. CASE r >= 6 /\ FitsPrg(val)
    <2>1. SwapWindow(r, mode) \in PrgWindows /\ PrgBits(val) \in 0 .. prgRom - 1
        BY <1>2, <1>3, <1>6 DEF SwapWindow, PrgWindows, FitsPrg
    <2>2. prg' = CopyPrg(p, SwapWindow(r, mode), PrgBits(val), 1)
        BY <1>6, <1>1 DEF WriteBankData
    <2>3. prg'[w] = IF w = SwapWindow(r, mode) THEN PrgBits(val) ELSE p[w]
        BY <2>1, <2>2, <1>4
    <2> QED
        BY <2>3, <1>5, <1>6
<1>7. CASE ~(r >= 6 /\ FitsPrg(val))
    <2>1. prg' = p
        BY <1>7, <1>1 DEF WriteBankData
    <2> QED
        BY <2>1, <1>5, <1>7
<1> QED
    BY <1>6, <1>7

LEMMA Mmc3Chr ==
    ASSUME TypeOK, NEW val \in BankBytes, WriteBankData(val), NEW w \in ChrWindows
    PROVE  LET r == bankSelect.select
           IN  chr'[w] = IF r < 6 /\ FitsChr(r, val)
                            /\ w \in ChrWindow(r) .. ChrWindow(r) + ChrSize(r) - 1
                         THEN ChrBank(r, val) + w - ChrWindow(r) ELSE chr[w]
<1> DEFINE r == bankSelect.select
<1>1. r \in 0 .. 7
    BY DEF TypeOK
<1>2. CASE r < 6 /\ FitsChr(r, val)
    <2>1. chr' = CopyChr(chr, ChrWindow(r), ChrBank(r, val), ChrSize(r))
        BY <1>2, <1>1 DEF WriteBankData
    <2> QED
        BY <2>1, <1>2 DEF CopyChr
<1>3. CASE ~(r < 6 /\ FitsChr(r, val))
    <2>1. chr' = chr
        BY <1>3, <1>1 DEF WriteBankData
    <2> QED
        BY <2>1, <1>3
<1> QED
    BY <1>2, <1>3

-----------------------------------------------------------------------------
LEMMA MapperStays == [Next]_vars => UNCHANGED mapper
<1>1. CASE Next
    BY <1>1 DEF Next, rom, SetByte, Mmc1Clear, Mmc1Shift, Mmc1Fifth, WriteBankSelect,
                WriteMirroring, WriteBankData
<1>2. CASE UNCHANGED vars
    BY <1>2 DEF vars, rom
<1> QED
    BY <1>1, <1>2

(* The fixed banks go by the mode of the last bank data write.             *)
SecondLastIsLate ==
    mapper = "mmc3" => /\ prg[3] = prgRom - 1
                       /\ prevPrgMode # Unset => prg[FixedWindow(prevPrgMode)] = prgRom - 2

LEMMA FixedInit == Init => SecondLastIsLate
<1> SUFFICES ASSUME Init, mapper = "mmc3" PROVE prg[3] = prgRom - 1 /\ prevPrgMode = Unset
    BY DEF SecondLastIsLate, Unset
<1>1. TypeOK /\ prevPrgMode = Unset
    BY InitTypes DEF Init
<1>2. prgRom \in Nat /\ prgRom >= 2
    BY <1>1, RomSizes
<1>3. prg = CopyPrg(NoPrg, 3, prgRom - 1, 1)
    BY DEF Init, LoadFrom, OnLoadRam, Mmc3OnLoadRam
<1> QED
    <2>1. 3 \in PrgWindows /\ 3 \in 3 .. 3 + 1 - 1
        BY DEF PrgWindows
    <2>2. prgRom - 1 + 3 - 3 \in 0 .. prgRom - 1 /\ prgRom - 1 + 3 - 3 = prgRom - 1
        BY <1>2
    <2> QED
        BY <2>1, <2>2, <1>1, <1>3 DEF CopyPrg

LEMMA FixedStep == TypeOK /\ SecondLastIsLate /\ [Next]_vars => SecondLastIsLate'
<1> SUFFICES ASSUME TypeOK, SecondLastIsLate, [Next]_vars, mapper = "mmc3"
             PROVE  SecondLastIsLate'
    <2>1. [Next]_vars => mapper' = mapper
        BY MapperStays
    <2> QED
        BY <2>1 DEF SecondLastIsLate
<1>1. CASE UNCHANGED <<mapper, prgRom, prg, prevPrgMode>>
    BY <1>1 DEF SecondLastIsLate
<1>2. ASSUME NEW val \in BankBytes, WriteBankData(val) PROVE SecondLastIsLate'
    <2> DEFINE mode == bankSelect.mode
    <2>1. prgRom' = prgRom /\ mapper' = mapper /\ prevPrgMode' = mode /\ mode \in 0 .. 1
          /\ bankSelect.select \in 0 .. 7
        BY <1>2 DEF WriteBankData, rom, TypeOK
    <2>2. prg'[3] = prg[3]
        BY <1>2, <2>1, Mmc3Prg DEF PrgWindows, SwapWindow, FixedWindow
    <2>3. ASSUME mode = 1 PROVE prg'[0] = prgRom - 2
        BY <1>2, <2>1, <2>3, Mmc3Prg DEF PrgWindows, SwapWindow, FixedWindow, SecondLastIsLate, Unset
    <2>4. ASSUME mode = 0 PROVE prg'[2] = prgRom - 2
        BY <1>2, <2>1, <2>4, Mmc3Prg DEF PrgWindows, SwapWindow, FixedWindow, SecondLastIsLate, Unset
    <2>5. prg'[FixedWindow(mode)] = prgRom - 2
        BY <2>1, <2>3, <2>4 DEF FixedWindow
    <2> QED
        BY <2>1, <2>2, <2>5 DEF SecondLastIsLate
<1>3. CASE UNCHANGED vars
    BY <1>3, <1>1 DEF vars, rom, mmc3
<1> QED
    BY <1>1, <1>2, <1>3 DEF Next, SetByte, Mmc1Clear, Mmc1Shift, Mmc1Fifth, WriteBankSelect,
                            WriteMirroring, rom, mmc1, mmc3

(* From the first bank data write on the second last bank of an MMC3       *)
(* cartridge is where the mode of the last such write fixed it, whatever   *)
(* the bank select register says since.  So after a bank select that flips *)
(* the mode bit the window of the old mode keeps it, against the register  *)
(* table (nes_mapper_mmc3.cpp:88-91), until the next bank data write.      *)
THEOREM SecondLastMovesLate == Spec => []SecondLastIsLate
<1> QED
    BY TypeCorrect, FixedInit, FixedStep, PTL DEF Spec

(* The vectors' window shows the last bank of an MMC3 cartridge for ever,  *)
(* and but for that delay the window the mode bit fixes the second last.   *)
THEOREM FixedBanksStay == Spec => []Mmc3FixedBanks
<1>1. TypeOK /\ SecondLastIsLate => Mmc3FixedBanks
    BY DEF TypeOK, SecondLastIsLate, Mmc3FixedBanks, ModePending, Unset
<1> QED
    BY <1>1, TypeCorrect, SecondLastMovesLate, PTL

-----------------------------------------------------------------------------
(* The windows of the CHR registers do not overlap, and are the register   *)
(* table.                                                                  *)

LEMMA ChrTableIsRight ==
    ASSUME TypeOK, NEW r \in 0 .. 5
    PROVE  /\ ChrTable(r) = ChrWindow(r) /\ ChrWindow(r) \in ChrWindows
           /\ r < 2 => ChrWindow(r) + 1 \in ChrWindows
<1> r = 0 \/ r = 1 \/ r = 2 \/ r = 3 \/ r = 4 \/ r = 5
    OBVIOUS
<1> QED
    BY DEF ChrTable, ChrWindow, ChrWindows

LEMMA ChrWindowsAreApart ==
    ASSUME TypeOK, NEW r \in 0 .. 5, NEW q \in 0 .. 5, r # q,
           NEW i \in 0 .. ChrSize(r) - 1
    PROVE  ChrWindow(r) + i \notin ChrWindow(q) .. ChrWindow(q) + ChrSize(q) - 1
<1>1. r = 0 \/ r = 1 \/ r = 2 \/ r = 3 \/ r = 4 \/ r = 5
    OBVIOUS
<1>2. q = 0 \/ q = 1 \/ q = 2 \/ q = 3 \/ q = 4 \/ q = 5
    OBVIOUS
<1> QED
    BY <1>1, <1>2 DEF ChrWindow, ChrSize

(* The bank of register r is in its window, as ChrIsWhereSelected says.    *)
ChrShown(r) ==
    banks[r] # Unset =>
        /\ r \in 2 .. 5 => chr[ChrTable(r)] = banks[r]
        /\ r \in 0 .. 1 => /\ chr[ChrTable(r)] = banks[r] - (banks[r] % 2)
                           /\ chr[ChrTable(r) + 1] = chr[ChrTable(r)] + 1

LEMMA ChrShownStep ==
    ASSUME TypeOK, TypeOK', NEW val \in BankBytes, WriteBankData(val),
           NEW r \in 0 .. 5, ChrShown(r)
    PROVE  ChrShown(r)'
<1> DEFINE q == bankSelect.select
<1>1. q \in 0 .. 7 /\ val \in Nat /\ val # Unset /\ UNCHANGED bankSelect
    <2>1. bankSelect.select \in 0 .. 7
        BY DEF TypeOK
    <2>2. val \in Nat /\ val # Unset
        BY CartridgeAssumption DEF Unset
    <2>3. UNCHANGED bankSelect
        BY DEF WriteBankData
    <2> QED
        BY <2>1, <2>2, <2>3
<1>2. ChrTable(r) = ChrWindow(r) /\ ChrTable(r)' = ChrWindow(r) /\ ChrWindow(r) \in ChrWindows
      /\ (r < 2 => ChrWindow(r) + 1 \in ChrWindows)
    BY <1>1, ChrTableIsRight DEF ChrTable
<1>3. ASSUME NEW w \in ChrWindows
      PROVE  chr'[w] = IF q < 6 /\ FitsChr(q, val)
                          /\ w \in ChrWindow(q) .. ChrWindow(q) + ChrSize(q) - 1
                       THEN ChrBank(q, val) + w - ChrWindow(q) ELSE chr[w]
    BY Mmc3Chr
<1>4. CASE q # r
    <2>1. banks'[r] = banks[r]
        BY <1>1, <1>4 DEF WriteBankData
    <2>2. chr'[ChrWindow(r)] = chr[ChrWindow(r)]
        <3>1. q < 6 => ChrWindow(r) + 0 \notin ChrWindow(q) .. ChrWindow(q) + ChrSize(q) - 1
            BY <1>1, <1>4, ChrWindowsAreApart DEF ChrSize
        <3>2. ChrWindow(r) + 0 = ChrWindow(r)
            BY <1>2 DEF ChrWindows
        <3> QED
            BY <3>1, <3>2, <1>2, <1>3
    <2>3. ASSUME r < 2 PROVE chr'[ChrWindow(r) + 1] = chr[ChrWindow(r) + 1]
        <3>1. q < 6 => ChrWindow(r) + 1 \notin ChrWindow(q) .. ChrWindow(q) + ChrSize(q) - 1
            BY <1>1, <1>4, <2>3, ChrWindowsAreApart DEF ChrSize
        <3> QED
            BY <3>1, <1>2, <1>3, <2>3
    <2> QED
        BY <2>1, <2>2, <2>3, <1>2 DEF ChrShown
<1>5. CASE q = r
    <2>1. banks'[r] = IF FitsChr(r, val) THEN val ELSE Unset
        BY <1>1, <1>5 DEF WriteBankData
    <2>2. ASSUME FitsChr(r, val) PROVE chr'[ChrWindow(r)] = ChrBank(r, val)
        <3>1. ChrWindow(r) \in ChrWindow(r) .. ChrWindow(r) + ChrSize(r) - 1
            BY <1>2 DEF ChrWindows, ChrSize
        <3>2. chr'[ChrWindow(r)] = ChrBank(r, val) + ChrWindow(r) - ChrWindow(r)
            BY <3>1, <2>2, <1>2, <1>3, <1>5
        <3>3. ChrBank(r, val) \in Int
            BY <1>1 DEF ChrBank
        <3> QED
            BY <3>2, <3>3, <1>2 DEF ChrWindows
    <2>3. ASSUME FitsChr(r, val), r < 2 PROVE chr'[ChrWindow(r) + 1] = ChrBank(r, val) + 1
        <3>1. ChrWindow(r) + 1 \in ChrWindow(r) .. ChrWindow(r) + ChrSize(r) - 1
            BY <1>2, <2>3 DEF ChrWindows, ChrSize
        <3>2. chr'[ChrWindow(r) + 1] = ChrBank(r, val) + (ChrWindow(r) + 1) - ChrWindow(r)
            BY <3>1, <2>3, <1>2, <1>3, <1>5
        <3>3. ChrBank(r, val) \in Int
            BY <1>1 DEF ChrBank
        <3> QED
            BY <3>2, <3>3, <1>2 DEF ChrWindows
    <2> QED
        BY <2>1, <2>2, <2>3, <1>2 DEF ChrShown, ChrBank
<1> QED
    BY <1>4, <1>5

(* The two PRG windows show what the mask leaves of the selected banks.    *)
PrgShown ==
    /\ banks[6] # Unset => prg[IF prevPrgMode = 1 THEN 2 ELSE 0] = PrgBits(banks[6])
    /\ banks[7] # Unset => prg[1] = PrgBits(banks[7])

BanksShown == mapper = "mmc3" => ChrIsWhereSelected /\ PrgShown

LEMMA PrgShownStep ==
    ASSUME TypeOK, NEW val \in BankBytes, WriteBankData(val), PrgShown
    PROVE  PrgShown'
<1> DEFINE q == bankSelect.select
           mode == bankSelect.mode
<1>1. q \in 0 .. 7 /\ mode \in 0 .. 1 /\ val \in Nat /\ val # Unset /\ prevPrgMode' = mode
      /\ prevPrgMode \in {Unset, 0, 1}
    <2>1. val \in Nat /\ val # Unset
        BY CartridgeAssumption DEF CartridgeAssumption, Unset
    <2>2. q \in 0 .. 7 /\ mode \in 0 .. 1 /\ prevPrgMode \in {Unset, 0, 1}
        BY DEF TypeOK
    <2> QED
        BY <2>1, <2>2 DEF WriteBankData
<1>2. ASSUME NEW w \in PrgWindows
      PROVE  prg'[w] = IF q >= 6 /\ FitsPrg(val) /\ w = SwapWindow(q, mode) THEN PrgBits(val)
                       ELSE IF prevPrgMode # mode /\ w = FixedWindow(mode) THEN prgRom - 2
                       ELSE prg[w]
    BY Mmc3Prg
<1>3. ASSUME banks'[6] # Unset PROVE prg'[IF mode = 1 THEN 2 ELSE 0] = PrgBits(banks'[6])
    <2>1. CASE q = 6
        <3>1. banks'[6] = val /\ FitsPrg(val)
            BY <1>1, <1>3, <2>1 DEF WriteBankData
        <3> QED
            BY <3>1, <1>1, <1>2, <2>1 DEF SwapWindow, PrgWindows
    <2>2. CASE q # 6
        <3>1. banks'[6] = banks[6] /\ prevPrgMode = mode
            BY <1>1, <1>3, <2>2 DEF WriteBankData
        <3> QED
            BY <3>1, <1>1, <1>2, <1>3, <2>2 DEF SwapWindow, PrgWindows, PrgShown
    <2> QED
        BY <2>1, <2>2
<1>4. ASSUME banks'[7] # Unset PROVE prg'[1] = PrgBits(banks'[7])
    <2>1. CASE q = 7
        <3>1. banks'[7] = val /\ FitsPrg(val)
            BY <1>1, <1>4, <2>1 DEF WriteBankData
        <3> QED
            BY <3>1, <1>1, <1>2, <2>1 DEF SwapWindow, PrgWindows
    <2>2. CASE q # 7
        <3>1. banks'[7] = banks[7]
            BY <1>1, <1>4, <2>2 DEF WriteBankData
        <3> QED
            BY <3>1, <1>1, <1>2, <1>4, <2>2 DEF SwapWindow, FixedWindow, PrgWindows, PrgShown
    <2> QED
        BY <2>1, <2>2
<1> QED
    BY <1>1, <1>3, <1>4 DEF PrgShown

LEMMA ShownInit == Init => BanksShown
<1> SUFFICES ASSUME Init PROVE BanksShown
    OBVIOUS
<1>1. \A r \in 0 .. 7 : banks[r] = Unset
    BY DEF Init
<1> QED
    BY <1>1 DEF BanksShown, ChrIsWhereSelected, PrgShown

LEMMA ShownStep ==
    ASSUME TypeOK, TypeOK', BanksShown, [Next]_vars
    PROVE  BanksShown'
<1> SUFFICES ASSUME mapper = "mmc3" PROVE BanksShown'
    <2>1. mapper' = mapper
        BY MapperStays
    <2> QED
        BY <2>1 DEF BanksShown
<1> USE DEF BanksShown, ChrIsWhereSelected, PrgShown, ChrTable
<1>1. CASE UNCHANGED <<mapper, prg, chr, mmc3>>
    BY <1>1 DEF mmc3
<1>2. ASSUME NEW inversion \in BOOLEAN, NEW mode \in 0 .. 1, NEW select \in Selects,
             WriteBankSelect(inversion, mode, select)
      PROVE  BanksShown'
    <2>1. UNCHANGED <<mapper, prg, chr, prevPrgMode>> /\ bankSelect'.inversion = inversion
        BY <1>2 DEF WriteBankSelect, rom
    <2>2. \A r \in 0 .. 7 : banks'[r] = IF r < 6 /\ inversion # bankSelect.inversion THEN Unset ELSE banks[r]
        BY <1>2 DEF WriteBankSelect
    <2>3. PrgShown'
        BY <2>1, <2>2
    <2>4. ChrIsWhereSelected'
        BY <2>1, <2>2
    <2> QED
        BY <2>3, <2>4
<1>3. ASSUME NEW val \in BankBytes, WriteBankData(val) PROVE BanksShown'
    <2>1. PrgShown'
        BY <1>3, PrgShownStep
    <2>2. ASSUME NEW r \in 0 .. 5 PROVE ChrShown(r)'
        <3>1. ChrShown(r)
            BY DEF ChrShown
        <3> QED
            BY <3>1, <1>3, ChrShownStep
    <2>3. ChrIsWhereSelected'
        BY <2>2 DEF ChrShown
    <2> QED
        BY <2>1, <2>3
<1>4. CASE UNCHANGED vars
    BY <1>4, <1>1 DEF vars, rom
<1> QED
    BY <1>1, <1>2, <1>3, <1>4 DEF Next, SetByte, Mmc1Clear, Mmc1Shift, Mmc1Fifth,
                                  WriteMirroring, rom, mmc1, mmc3

(* Whatever byte the program writes, a CHR window shows the banks it names *)
(* and a PRG window the one the mask of nes_mapper_mmc3.cpp:135 leaves of  *)
(* it: the mask is all that stands between the code and Mmc3ShowsBanks.    *)
THEOREM WindowsShowMasked == Spec => []BanksShown
<1>1. TypeOK /\ TypeOK' /\ BanksShown /\ [Next]_vars => BanksShown'
    BY ShownStep
<1> QED
    BY <1>1, TypeCorrect, ShownInit, PTL DEF Spec

(* Every MMC3 window shows the bank last selected for it, as long as the   *)
(* program selects none that the mask spoils.                              *)
THEOREM WindowsShowBanks ==
    ASSUME \A b \in BankBytes : PrgBits(b) = b
    PROVE  Spec => []Mmc3ShowsBanks
<1>1. TypeOK /\ BanksShown => Mmc3ShowsBanks
  <2> SUFFICES ASSUME TypeOK, ChrIsWhereSelected, PrgShown PROVE PrgIsWhereSelected
      BY DEF BanksShown, Mmc3ShowsBanks
  <2>1. \A r \in 6 .. 7 : banks[r] # Unset => PrgBits(banks[r]) = banks[r]
      BY DEF TypeOK
  <2> QED
      BY <2>1 DEF PrgShown, PrgIsWhereSelected
<1> QED
    BY <1>1, TypeCorrect, WindowsShowMasked, PTL

-----------------------------------------------------------------------------
(* Copies of whole banks keep banks whole.                                 *)

WholePrg(p) == \A w \in PrgWindows : Whole(p, 2, w)
WholeChr(c) == \A w \in ChrWindows : Whole(c, 4, w)

LEMMA CopyPrgWhole ==
    ASSUME prgRom \in Nat, prgRom % 2 = 0, NEW p \in [PrgWindows -> PrgBanks], WholePrg(p),
           NEW dst \in {0, 2}, NEW src \in Int, src % 2 = 0, NEW n \in {2, 4}
    PROVE  WholePrg(CopyPrg(p, dst, src, n))
<1> DEFINE q == CopyPrg(p, dst, src, n)
<1>1. \A w \in PrgWindows :
          q[w] = IF w \notin dst .. dst + n - 1 THEN p[w]
                 ELSE IF src + w - dst \in 0 .. prgRom - 1 THEN src + w - dst ELSE Outside
    BY DEF CopyPrg
<1> HIDE DEF q
<1>2. PICK s \in Int : src = 2 * s
    <2>1. src = 2 * (src \div 2) /\ src \div 2 \in Int
        OBVIOUS
    <2> QED
        BY <2>1
<1>3. PICK m \in Nat : prgRom = 2 * m
    <2>1. prgRom = 2 * (prgRom \div 2) /\ prgRom \div 2 \in Nat
        OBVIOUS
    <2> QED
        BY <2>1
<1>4. ASSUME NEW e \in {0, 2} PROVE Whole(q, 2, e) /\ Whole(q, 2, e + 1)
    <2>1. e \in PrgWindows /\ e + 1 \in PrgWindows
        BY DEF PrgWindows
    <2>2. e % 2 = 0 /\ (e + 1) % 2 = 1
        OBVIOUS
    <2>3. CASE e \in dst .. dst + n - 1
        <3>1. e + 1 \in dst .. dst + n - 1
            BY <2>3
        <3>2. src + e - dst \in 0 .. prgRom - 1 <=> src + (e + 1) - dst \in 0 .. prgRom - 1
            BY <1>2, <1>3
        <3>3. (src + e - dst) % 2 = 0 /\ (src + (e + 1) - dst) % 2 = 1
            BY <1>2
        <3>4. CASE src + e - dst \in 0 .. prgRom - 1
            <4>1. q[e] = src + e - dst /\ q[e + 1] = src + (e + 1) - dst
                BY <3>1, <3>2, <3>4, <2>1, <2>3, <1>1
            <4>2. q[e + 1] = q[e] + 1 /\ q[e] \in Int
                BY <4>1
            <4>3. q[e] % 2 = 0 /\ q[e + 1] % 2 = 1
                BY <4>1, <3>3
            <4> QED
                BY <4>2, <4>3, <2>2 DEF Whole
        <3>5. CASE src + e - dst \notin 0 .. prgRom - 1
            <4>1. q[e] = Outside /\ q[e + 1] = Outside
                BY <3>1, <3>2, <3>5, <2>1, <2>3, <1>1
            <4> QED
                BY <4>1 DEF Whole, Outside
        <3> QED
            BY <3>4, <3>5
    <2>4. CASE e \notin dst .. dst + n - 1
        <3>1. e + 1 \notin dst .. dst + n - 1
            BY <2>4
        <3>2. q[e] = p[e] /\ q[e + 1] = p[e + 1]
            BY <3>1, <2>1, <2>4, <1>1
        <3> QED
            BY <3>2, <2>1, <2>2 DEF WholePrg, Whole
    <2> QED
        BY <2>3, <2>4
<1>5. ASSUME NEW w \in PrgWindows PROVE Whole(q, 2, w)
    <2>1. w = 0 \/ w = 0 + 1 \/ w = 2 \/ w = 2 + 1
        BY DEF PrgWindows
    <2> QED
        BY <2>1, <1>4
<1> QED
    BY <1>5 DEF WholePrg, q

LEMMA CopyChrWhole ==
    ASSUME chrRom \in Nat, NEW c \in [ChrWindows -> ChrBanks], WholeChr(c),
           NEW dst \in {0, 4}, NEW src \in Nat, src % 4 = 0, NEW n \in {4, 8}
    PROVE  WholeChr(CopyChr(c, dst, src, n))
<1> DEFINE q == CopyChr(c, dst, src, n)
<1>1. \A w \in ChrWindows : q[w] = IF w \in dst .. dst + n - 1 THEN src + w - dst ELSE c[w]
    BY DEF CopyChr
<1> HIDE DEF q
<1>2. ASSUME NEW e \in {0, 4}, NEW i \in 0 .. 3 PROVE Whole(q, 4, e + i)
    <2>1. e \in ChrWindows /\ e + i \in ChrWindows
        BY DEF ChrWindows
    <2>2. (e + i) % 4 = i
        OBVIOUS
    <2>3. (e + i) - ((e + i) % 4) = e
        BY <2>2
    <2>4. CASE e \in dst .. dst + n - 1
        <3>1. e + i \in dst .. dst + n - 1
            BY <2>4
        <3>2. q[e] = src + e - dst /\ q[e + i] = src + (e + i) - dst
            BY <3>1, <2>1, <2>4, <1>1
        <3>3. (src + e - dst) % 4 = 0 /\ (src + (e + i) - dst) % 4 = i
            BY <2>4
        <3>4. q[e + i] % 4 = i /\ q[e] = q[e + i] - i
            BY <3>2, <3>3
        <3> QED
            BY <3>4, <2>2, <2>3 DEF Whole
    <2>5. CASE e \notin dst .. dst + n - 1
        <3>1. e + i \notin dst .. dst + n - 1
            BY <2>5
        <3>2. q[e] = c[e] /\ q[e + i] = c[e + i]
            BY <3>1, <2>1, <2>5, <1>1
        <3>3. Whole(c, 4, e + i)
            BY <2>1 DEF WholeChr
        <3> QED
            BY <3>2, <3>3, <2>3 DEF Whole
    <2> QED
        BY <2>4, <2>5
<1>3. ASSUME NEW w \in ChrWindows PROVE Whole(q, 4, w)
    <2>1. PICK e \in {0, 4}, i \in 0 .. 3 : w = e + i
        <3>1. CASE w < 4
            <4>1. 0 \in {0, 4} /\ w \in 0 .. 3 /\ w = 0 + w
                BY <3>1 DEF ChrWindows
            <4> QED
                BY <4>1
        <3>2. CASE w >= 4
            <4>1. 4 \in {0, 4} /\ w - 4 \in 0 .. 3 /\ w = 4 + (w - 4)
                BY <3>2 DEF ChrWindows
            <4> QED
                BY <4>1
        <3> QED
            BY <3>1, <3>2 DEF ChrWindows
    <2> QED
        BY <2>1, <1>2
<1> QED
    BY <1>3 DEF WholeChr, q

LEMMA WholeInit == Init => BanksAreWhole
<1> SUFFICES ASSUME Init, mapper = "mmc1" PROVE WholePrg(prg) /\ WholeChr(chr)
    BY DEF BanksAreWhole, WholePrg, WholeChr
<1>1. prgRom \in Nat /\ prgRom % 2 = 0
    BY InitTypes, RomSizes
<1>2. prg = CopyPrg(NoPrg, 0, prgRom - 4, 4) /\ chr = NoChr
    BY DEF Init, LoadFrom, OnLoadRam, OnLoadPpu
<1>3. NoPrg \in [PrgWindows -> PrgBanks] /\ WholePrg(NoPrg)
    BY DEF NoPrg, PrgBanks, WholePrg, Whole, Empty
<1>4. prgRom - 4 \in Int /\ (prgRom - 4) % 2 = 0
    BY <1>1
<1>5. WholePrg(prg)
    BY <1>1, <1>2, <1>3, <1>4, CopyPrgWhole
<1>6. WholeChr(chr)
    BY <1>2 DEF NoChr, WholeChr, Whole, Empty
<1> QED
    BY <1>5, <1>6

LEMMA WritePrgBankWhole ==
    ASSUME TypeOK, WholePrg(prg), NEW val \in Nat, WritePrgBank(val)
    PROVE  WholePrg(prg')
<1> DEFINE b == val % 16
<1>1. 4 * (b \div 2) \in Int /\ (4 * (b \div 2)) % 2 = 0 /\ 2 * b \in Int /\ (2 * b) % 2 = 0
    OBVIOUS
<1>2. prgRom \in Nat /\ prgRom % 2 = 0 /\ prgRom - 2 \in Int /\ (prgRom - 2) % 2 = 0
    BY RomSizes
<1>3. prg \in [PrgWindows -> PrgBanks]
    BY DEF TypeOK, PrgBanks
<1> HIDE DEF b
<1>4. WholePrg(CopyPrg(prg, 0, 4 * (b \div 2), 4))
    BY <1>1, <1>2, <1>3, CopyPrgWhole
<1>5. WholePrg(CopyPrg(CopyPrg(prg, 0, 2 * b, 2), 2, prgRom - 2, 2))
    <2>1. CopyPrg(prg, 0, 2 * b, 2) \in [PrgWindows -> PrgBanks] /\ WholePrg(CopyPrg(prg, 0, 2 * b, 2))
        BY <1>1, <1>2, <1>3, CopyPrgType, CopyPrgWhole
    <2> QED
        BY <2>1, <1>2, CopyPrgWhole
<1>6. WholePrg(CopyPrg(CopyPrg(prg, 0, 0, 2), 2, 2 * b, 2))
    <2>1. CopyPrg(prg, 0, 0, 2) \in [PrgWindows -> PrgBanks] /\ WholePrg(CopyPrg(prg, 0, 0, 2))
        BY <1>2, <1>3, CopyPrgType, CopyPrgWhole
    <2> QED
        BY <2>1, <1>1, <1>2, CopyPrgWhole
<1> QED
    BY <1>4, <1>5, <1>6 DEF WritePrgBank, b

LEMMA Mmc1ChrWhole ==
    ASSUME TypeOK, WholeChr(chr), NEW dst \in 0 .. 1, NEW bank \in Nat, NEW n \in 1 .. 2
    PROVE  WholeChr(Mmc1Chr(dst, bank, n))
<1>1. chrRom \in Nat /\ chr \in [ChrWindows -> ChrBanks]
    BY RomSizes DEF TypeOK, ChrBanks
<1>2. 4 * dst \in {0, 4} /\ 4 * bank \in Nat /\ (4 * bank) % 4 = 0 /\ 4 * n \in {4, 8}
    OBVIOUS
<1>3. WholeChr(CopyChr(chr, 4 * dst, 4 * bank, 4 * n))
    BY <1>1, <1>2, CopyChrWhole
<1> QED
    BY <1>3 DEF Mmc1Chr

LEMMA WholeStep == TypeOK /\ BanksAreWhole /\ [Next]_vars => BanksAreWhole'
<1> SUFFICES ASSUME TypeOK, BanksAreWhole, [Next]_vars, mapper = "mmc1"
             PROVE  BanksAreWhole'
    <2>1. [Next]_vars => mapper' = mapper
        BY MapperStays
    <2> QED
        BY <2>1 DEF BanksAreWhole
<1>1. WholePrg(prg) /\ WholeChr(chr)
    BY DEF BanksAreWhole, WholePrg, WholeChr
<1>2. ASSUME WholePrg(prg'), WholeChr(chr') PROVE BanksAreWhole'
    BY <1>2 DEF BanksAreWhole, WholePrg, WholeChr, Whole
<1>3. CASE UNCHANGED <<prg, chr>>
    BY <1>1, <1>2, <1>3
<1>4. ASSUME NEW area \in 0 .. 3, NEW bit \in 0 .. 1, Mmc1Fifth(area, bit) PROVE BanksAreWhole'
    <2> DEFINE val == Shifted(bit)
    <2>1. val \in Nat /\ val % 32 \in Nat /\ 2 * ((val % 32) \div 2) \in Nat
        <3>1. val \in 0 .. 255
            BY ShiftedType DEF TypeOK
        <3> HIDE DEF val
        <3> QED
            BY <3>1
    <2>2. \/ UNCHANGED <<prg, chr>>
          \/ WriteChrBank0(val) /\ UNCHANGED prg
          \/ WriteChrBank1(val) /\ UNCHANGED prg
          \/ WritePrgBank(val) /\ UNCHANGED chr
        BY <1>4 DEF Mmc1Fifth
    <2> HIDE DEF val
    <2>3. \A dst \in 0 .. 1, bank \in Nat, n \in 1 .. 2 : WholeChr(Mmc1Chr(dst, bank, n))
        BY <1>1, Mmc1ChrWhole
    <2>4. CASE WriteChrBank0(val) /\ UNCHANGED prg
        <3>1. WholeChr(chr')
            BY <2>1, <2>3, <2>4 DEF WriteChrBank0
        <3> QED
            BY <3>1, <2>4, <1>1, <1>2
    <2>5. CASE WriteChrBank1(val) /\ UNCHANGED prg
        <3>1. WholeChr(chr')
            BY <2>1, <2>3, <2>5, <1>1 DEF WriteChrBank1
        <3> QED
            BY <3>1, <2>5, <1>1, <1>2
    <2>6. CASE WritePrgBank(val) /\ UNCHANGED chr
        <3>1. WholePrg(prg')
            BY <2>1, <2>6, <1>1, WritePrgBankWhole
        <3> QED
            BY <3>1, <2>6, <1>1, <1>2
    <2> QED
        BY <2>2, <2>4, <2>5, <2>6, <1>3
<1>5. CASE UNCHANGED vars
    BY <1>5, <1>3 DEF vars
<1> QED
    BY <1>3, <1>4, <1>5 DEF Next, SetByte, Mmc1Clear, Mmc1Shift, WriteBankSelect,
                            WriteMirroring, WriteBankData

(* MMC1 shows whole banks only, for ROMs of every size, also where a copy  *)
(* leaves the ROM.                                                         *)
THEOREM BanksStayWhole == Spec => []BanksAreWhole
<1> QED
    BY TypeCorrect, WholeInit, WholeStep, PTL DEF Spec

-----------------------------------------------------------------------------
(* The MMC1 shift register holds the bits of the sequence under way at its *)
(* top.  What was in it before, garbage of 8 bits at first, is shifted out *)
(* by the fifth write.                                                     *)

Serial ==
    /\ Len(bits) = 1 => reg \in 0 .. 127
    /\ Len(bits) = 2 => reg \in 0 .. 63
    /\ Len(bits) \in 3 .. 4 => reg \in 0 .. 31
    /\ synced =>
        /\ reg \in 0 .. 31
        /\ Len(bits) = 1 => reg \div 16 = bits[1]
        /\ Len(bits) = 2 => reg \div 8 = bits[1] + (2 * bits[2])
        /\ Len(bits) = 3 => reg \div 4 = bits[1] + (2 * bits[2]) + (4 * bits[3])
        /\ Len(bits) = 4 => reg \div 2 = bits[1] + (2 * bits[2]) + (4 * bits[3]) + (8 * bits[4])

LEMMA BitsType == TypeOK => \A i \in 1 .. Len(bits) : bits[i] \in 0 .. 1
<1>1. TypeOK => bits \in Seq(0 .. 1)
    BY DEF TypeOK
<1> QED
    BY <1>1

LEMMA ShiftedBound ==
    ASSUME NEW n \in {32, 64, 128}, reg \in 0 .. (2 * n) - 1, NEW bit \in 0 .. 1
    PROVE  Shifted(bit) \in 0 .. n - 1
<1> DEFINE r == reg \div 2
<1>1. r \in 0 .. n - 1 /\ 2 ^ 4 = 16
    OBVIOUS
<1> HIDE DEF r
<1>2. (r \div 16) % 2 = 0 => r + 16 \in 0 .. n - 1
    BY <1>1
<1> QED
    BY <1>1, <1>2 DEF Shifted, Bit, r

LEMMA ShiftedIs ==
    ASSUME reg \in 0 .. 31, NEW bit \in 0 .. 1
    PROVE  Shifted(bit) = (reg \div 2) + (16 * bit)
<1>1. 2 ^ 4 = 16
    OBVIOUS
<1>2. (reg \div 2) \in 0 .. 15 /\ ((reg \div 2) \div 16) % 2 = 0
    OBVIOUS
<1> QED
    BY <1>1, <1>2 DEF Shifted, Bit

LEMMA SerialShift ==
    ASSUME TypeOK, Serial, NEW bit \in 0 .. 1, Mmc1Shift(bit)
    PROVE  Serial'
<1>1. synced' = synced /\ reg' = Shifted(bit) /\ bits' = Append(bits, bit) /\ Len(bits) \in 0 .. 3
    BY DEF Mmc1Shift, TypeOK
<1>2. /\ Len(bits') = Len(bits) + 1 /\ bits'[Len(bits) + 1] = bit
      /\ \A i \in 1 .. Len(bits) : bits'[i] = bits[i] /\ bits[i] \in 0 .. 1
    BY <1>1, AppendProperties DEF TypeOK
<1>3. reg \in 0 .. 255
    BY DEF TypeOK
<1>4. ASSUME synced PROVE reg \in 0 .. 31 /\ reg' = (reg \div 2) + (16 * bit)
    BY <1>1, <1>4, ShiftedIs DEF Serial
<1>5. ASSUME synced PROVE reg' \in 0 .. 31
    BY <1>4, <1>5
<1>6. CASE Len(bits) = 0
    <2>1. reg' \in 0 .. 127
        <3>1. 128 \in {32, 64, 128} /\ reg \in 0 .. (2 * 128) - 1
            BY <1>3
        <3>2. Shifted(bit) \in 0 .. 128 - 1
            BY <3>1, ShiftedBound
        <3> QED
            BY <3>2, <1>1
    <2>2. ASSUME synced PROVE reg' \div 16 = bit
        BY <1>4, <2>2
    <2> QED
        BY <2>1, <2>2, <1>1, <1>2, <1>5, <1>6 DEF Serial
<1>7. CASE Len(bits) = 1
    <2>1. reg \in 0 .. 127
        BY <1>7 DEF Serial
    <2>2. reg' \in 0 .. 63
        <3>1. 64 \in {32, 64, 128} /\ reg \in 0 .. (2 * 64) - 1
            BY <2>1
        <3>2. Shifted(bit) \in 0 .. 64 - 1
            BY <3>1, ShiftedBound
        <3> QED
            BY <3>2, <1>1
    <2>3. ASSUME synced PROVE reg' \div 8 = (reg \div 16) + (2 * bit)
        BY <1>4, <2>3
    <2>4. ASSUME synced PROVE reg' \div 8 = bits'[1] + (2 * bits'[2])
        BY <2>3, <2>4, <1>2, <1>7 DEF Serial
    <2> QED
        BY <2>2, <2>4, <1>1, <1>2, <1>5, <1>7 DEF Serial
<1>8. CASE Len(bits) = 2
    <2>1. reg \in 0 .. 63
        BY <1>8 DEF Serial
    <2>2. reg' \in 0 .. 31
        <3>1. 32 \in {32, 64, 128} /\ reg \in 0 .. (2 * 32) - 1
            BY <2>1
        <3>2. Shifted(bit) \in 0 .. 32 - 1
            BY <3>1, ShiftedBound
        <3> QED
            BY <3>2, <1>1
    <2>3. ASSUME synced PROVE reg' \div 4 = (reg \div 8) + (4 * bit)
        BY <1>4, <2>3
    <2>4. ASSUME synced PROVE reg' \div 4 = bits'[1] + (2 * bits'[2]) + (4 * bits'[3])
        BY <2>3, <2>4, <1>2, <1>8 DEF Serial
    <2> QED
        BY <2>2, <2>4, <1>1, <1>2, <1>5, <1>8 DEF Serial
<1>9. CASE Len(bits) = 3
    <2>1. reg \in 0 .. 63
        BY <1>9 DEF Serial
    <2>2. reg' \in 0 .. 31
        <3>1. 32 \in {32, 64, 128} /\ reg \in 0 .. (2 * 32) - 1
            BY <2>1
        <3>2. Shifted(bit) \in 0 .. 32 - 1
            BY <3>1, ShiftedBound
        <3> QED
            BY <3>2, <1>1
    <2>3. ASSUME synced PROVE reg' \div 2 = (reg \div 4) + (8 * bit)
        BY <1>4, <2>3
    <2>4. ASSUME synced PROVE reg' \div 2 = bits'[1] + (2 * bits'[2]) + (4 * bits'[3]) + (8 * bits'[4])
        BY <2>3, <2>4, <1>2, <1>9 DEF Serial
    <2> QED
        BY <2>2, <2>4, <1>1, <1>2, <1>5, <1>9 DEF Serial
<1> QED
    BY <1>1, <1>6, <1>7, <1>8, <1>9

LEMMA SerialInit == Init => Serial
<1>1. Init => bits = <<>> /\ synced = FALSE
    BY DEF Init
<1> QED
    BY <1>1 DEF Serial

LEMMA SerialStep == TypeOK /\ Serial /\ [Next]_vars => Serial'
<1> SUFFICES ASSUME TypeOK, Serial, [Next]_vars PROVE Serial'
    OBVIOUS
<1>1. CASE UNCHANGED mmc1
    BY <1>1 DEF Serial, mmc1
<1>2. CASE Mmc1Clear
    BY <1>2 DEF Mmc1Clear, Serial
<1>3. ASSUME NEW bit \in 0 .. 1, Mmc1Shift(bit) PROVE Serial'
    BY <1>3, SerialShift
<1>4. ASSUME NEW area \in 0 .. 3, NEW bit \in 0 .. 1, Mmc1Fifth(area, bit) PROVE Serial'
    <2>1. bits' = <<>> /\ reg' = Shifted(bit) /\ Len(bits) = 4
        BY <1>4 DEF Mmc1Fifth, TypeOK
    <2>2. reg \in 0 .. 63
        BY <2>1 DEF Serial
    <2>3. reg' \in 0 .. 31
        <3>1. 32 \in {32, 64, 128} /\ reg \in 0 .. (2 * 32) - 1
            BY <2>2
        <3>2. Shifted(bit) \in 0 .. 32 - 1
            BY <3>1, ShiftedBound
        <3> QED
            BY <3>2, <2>1
    <2> QED
        BY <2>1, <2>3 DEF Serial
<1>5. CASE UNCHANGED vars
    BY <1>5, <1>1 DEF vars
<1> QED
    BY <1>1, <1>2, <1>3, <1>4, <1>5 DEF Next, SetByte, WriteBankSelect, WriteMirroring, WriteBankData

(* A bank switch whose fifth write this is shows what it should.           *)
LEMMA SwitchShows ==
    ASSUME TypeOK, Serial, NEW bit \in 0 .. 1, synced, Len(bits) = 4, Mmc1Fifth(3, bit),
           2 * (Spelled(bit) % 16) + 2 <= prgRom, prgRom % 4 = 0
    PROVE  Mmc1PrgShows(Spelled(bit) % 16, prg')
<1> DEFINE b == Spelled(bit) % 16
<1>1. \A i \in 1 .. 4 : bits[i] \in 0 .. 1
    <2>1. \A i \in 1 .. Len(bits) : bits[i] \in 0 .. 1
        BY BitsType
    <2>2. 1 .. 4 = 1 .. Len(bits)
        OBVIOUS
    <2> QED
        BY <2>1, <2>2
<1>2. Spelled(bit) \in Nat /\ Shifted(bit) = Spelled(bit)
    <2>1. Shifted(bit) = (reg \div 2) + (16 * bit)
        BY ShiftedIs DEF Serial
    <2>2. reg \div 2 = bits[1] + (2 * bits[2]) + (4 * bits[3]) + (8 * bits[4])
        BY DEF Serial
    <2> QED
        BY <2>1, <2>2, <1>1 DEF Spelled
<1>3. b \in 0 .. 15 /\ prgRom \in Nat /\ 2 * b + 2 <= prgRom
    BY <1>2, RomSizes
<1>4. WritePrgBank(Spelled(bit))
    BY <1>2 DEF Mmc1Fifth
<1>5. Bit(control, 3) \in {0, 1} /\ Bit(control, 2) \in {0, 1}
    <2>1. 2 ^ 3 = 8 /\ 2 ^ 2 = 4 /\ control \in Nat
        BY DEF TypeOK
    <2> QED
        BY <2>1 DEF Bit
<1> HIDE DEF b
<1>6. CASE Bit(control, 3) = 0
    <2>1. prg' = CopyPrg(prg, 0, 4 * (b \div 2), 4)
        BY <1>4, <1>6 DEF WritePrgBank, b
    <2>2. 4 * (b \div 2) \in Nat /\ 4 * (b \div 2) + 4 <= prgRom
        BY <1>3
    <2>3. \A w \in PrgWindows : prg'[w] = 4 * (b \div 2) + w
        BY <2>1, <2>2, <1>3 DEF CopyPrg, PrgWindows
    <2> QED
        BY <2>3, <1>6 DEF Mmc1PrgShows, b
<1>7. CASE Bit(control, 3) = 1 /\ Bit(control, 2) = 0
    <2>1. prg' = CopyPrg(CopyPrg(prg, 0, 0, 2), 2, 2 * b, 2)
        BY <1>4, <1>7 DEF WritePrgBank, b
    <2>2. 2 * b \in Nat
        BY <1>3
    <2>3. prg'[0] = 0 /\ prg'[1] = 1 /\ prg'[2] = 2 * b /\ prg'[3] = 2 * b + 1
        <3>1. \A w \in PrgWindows :
                prg'[w] = IF w \notin 2 .. 3 THEN CopyPrg(prg, 0, 0, 2)[w]
                          ELSE IF 2 * b + w - 2 \in 0 .. prgRom - 1 THEN 2 * b + w - 2 ELSE Outside
            BY <2>1 DEF CopyPrg
        <3>2. \A w \in 0 .. 1 : CopyPrg(prg, 0, 0, 2)[w] = w
            BY <1>3 DEF CopyPrg, PrgWindows
        <3> QED
            BY <3>1, <3>2, <2>2, <1>3 DEF PrgWindows
    <2> QED
        BY <2>3, <1>7 DEF Mmc1PrgShows, b
<1>8. CASE Bit(control, 3) = 1 /\ Bit(control, 2) = 1
    <2>1. prg' = CopyPrg(CopyPrg(prg, 0, 2 * b, 2), 2, prgRom - 2, 2)
        BY <1>4, <1>8 DEF WritePrgBank, b
    <2>2. 2 * b \in Nat
        BY <1>3
    <2>3. prg'[0] = 2 * b /\ prg'[1] = 2 * b + 1 /\ prg'[2] = prgRom - 2 /\ prg'[3] = prgRom - 1
        <3>1. \A w \in PrgWindows :
                prg'[w] = IF w \notin 2 .. 3 THEN CopyPrg(prg, 0, 2 * b, 2)[w]
                          ELSE IF prgRom - 2 + w - 2 \in 0 .. prgRom - 1 THEN prgRom - 2 + w - 2 ELSE Outside
            BY <2>1 DEF CopyPrg
        <3>2. \A w \in 0 .. 1 : CopyPrg(prg, 0, 2 * b, 2)[w] = 2 * b + w
            BY <2>2, <1>3 DEF CopyPrg, PrgWindows
        <3>3. prgRom - 2 + 2 - 2 = prgRom - 2 /\ prgRom - 2 + 3 - 2 = prgRom - 1
            BY <1>3
        <3> QED
            BY <3>1, <3>2, <3>3, <2>2, <1>3 DEF PrgWindows
    <2> QED
        BY <2>3, <1>8 DEF Mmc1PrgShows, b
<1> QED
    BY <1>5, <1>6, <1>7, <1>8 DEF b

(* The five writes of an MMC1 bank switch select the bank they spell.      *)
THEOREM SerialSwitches == Spec => Mmc1Switches
<1>1. TypeOK /\ Serial /\ [Next]_vars =>
        [\A bit \in 0 .. 1 :
          synced /\ Len(bits) = 4 /\ Mmc1Fifth(3, bit)
            /\ 2 * (Spelled(bit) % 16) + 2 <= prgRom /\ prgRom % 4 = 0
          => Mmc1PrgShows(Spelled(bit) % 16, prg')]_vars
    BY SwitchShows
<1>2. Spec => []Serial
    BY TypeCorrect, SerialInit, SerialStep, PTL DEF Spec
<1> QED
    BY <1>1, <1>2, TypeCorrect, PTL DEF Spec, Mmc1Switches

=============================================================================
