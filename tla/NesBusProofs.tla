---------------------------- MODULE NesBusProofs ----------------------------
(***************************************************************************)
(* What is proved of NesBus for every set of addresses, bytes and pages,   *)
(* every length of OAM and every number of buttons: its typing, that RAM   *)
(* and registers are found through every mirror, that OAM DMA is a         *)
(* rotation, that a controller gives the buttons of one poll, and that the *)
(* data port implements the memory of VideoMemory.                         *)
(***************************************************************************)
EXTENDS NesBus, TLAPS

(* A place i further in a ring of n.                                       *)
LEMMA Wrap ==
    ASSUME NEW n \in Nat \ {0}, NEW a \in 0 .. n - 1, NEW i \in 0 .. n - 1
    PROVE  (a + i) % n = IF a + i < n THEN a + i ELSE a + i - n
<1> DEFINE x == a + i
<1>1. x \in 0 .. (2 * n) - 1
    OBVIOUS
<1> HIDE DEF x
<1>2. x % n = IF x < n THEN x ELSE x - n
    BY <1>1
<1> QED
    BY <1>2 DEF x

LEMMA BitType == ASSUME NEW i \in Nat, NEW n \in Nat PROVE Bit(n, i) \in {0, 1}
<1>1. 2 ^ i \in Int
    OBVIOUS
<1>2. (n \div 2 ^ i) % 2 \in {0, 1}
    OBVIOUS
<1> QED
    BY <1>2 DEF Bit

LEMMA HeldType == Held \subseteq Nat
<1>1. 2 ^ Buttons - 1 \in Int
    BY BusAssumption DEF BusAssumption
<1> QED
    BY <1>1, BusAssumption DEF BusAssumption

(* Where the program accesses VRAM, that is, is redirected to.             *)
LEMMA ReachedByPort ==
    ASSUME mirroring \in Wirings, NEW a \in WithUnder(Addresses)
    PROVE  Redirect(mirroring, a) \in Reached
BY DEF Reached

LEMMA ReadByteType ==
    ASSUME TypeOK, NEW a \in WithUnder(Addresses)
    PROVE  ReadByte(a) \in Values \cup {0, 255}
<1>1. Redirect(mirroring, a) \in Reached
    BY ReachedByPort DEF TypeOK
<1>2. vram[Redirect(mirroring, a)] \in Values \cup {0}
    BY <1>1 DEF TypeOK
<1> QED
    BY <1>2 DEF ReadByte

LEMMA CopiedType ==
    ASSUME NEW o \in [0 .. OamSize - 1 -> Values \cup {0}], NEW page \in Pages,
           NEW dst \in 0 .. OamSize, NEW src \in 0 .. OamSize, NEW n \in 0 .. OamSize - src
    PROVE  GetBytes(o, page, dst, src, n) \in [0 .. OamSize - 1 -> Values \cup {0}]
<1>1. page \in [0 .. OamSize - 1 -> Values] /\ OamSize \in Nat
    BY BusAssumption DEF BusAssumption
<1> SUFFICES ASSUME NEW i \in 0 .. OamSize - 1
             PROVE  (IF i \in dst .. dst + n - 1 THEN page[src + i - dst] ELSE o[i])
                    \in Values \cup {0}
    BY DEF GetBytes
<1>2. CASE i \in dst .. dst + n - 1
    <2>1. src + i - dst \in 0 .. OamSize - 1
        BY <1>1, <1>2
    <2> QED
        BY <2>1, <1>1, <1>2
<1> QED
    BY <1>2

LEMMA DmaType ==
    ASSUME TypeOK, NEW page \in Pages, OamDma(page)
    PROVE  oam' \in [0 .. OamSize - 1 -> Values \cup {0}]
<1>1. oamAddr \in 0 .. OamSize - 1 /\ OamSize \in Nat
    BY BusAssumption DEF BusAssumption, TypeOK
<1>2. oam \in [0 .. OamSize - 1 -> Values \cup {0}]
    BY DEF TypeOK
<1>3. BeforeWrap \in 0 .. OamSize /\ OamSize - BeforeWrap = oamAddr
    BY <1>1 DEF BeforeWrap
<1>4. GetBytes(oam, page, 0, 0, OamSize) \in [0 .. OamSize - 1 -> Values \cup {0}]
    <2>1. 0 \in 0 .. OamSize /\ OamSize \in 0 .. OamSize - 0
        BY <1>1
    <2> QED
        BY <2>1, <1>2, CopiedType
<1>5. GetBytes(oam, page, oamAddr, 0, BeforeWrap) \in [0 .. OamSize - 1 -> Values \cup {0}]
    <2>1. oamAddr \in 0 .. OamSize /\ 0 \in 0 .. OamSize /\ BeforeWrap \in 0 .. OamSize - 0
        BY <1>1, <1>3
    <2> QED
        BY <2>1, <1>2, CopiedType
<1>6. GetBytes(GetBytes(oam, page, oamAddr, 0, BeforeWrap), page, 0, BeforeWrap, OamSize - BeforeWrap)
         \in [0 .. OamSize - 1 -> Values \cup {0}]
    <2>1. 0 \in 0 .. OamSize /\ OamSize - BeforeWrap \in 0 .. OamSize - BeforeWrap
        BY <1>1, <1>3
    <2> QED
        BY <2>1, <1>3, <1>5, CopiedType
<1> QED
    BY <1>4, <1>6 DEF OamDma

-----------------------------------------------------------------------------
LEMMA InitTypes == Init => TypeOK
<1> SUFFICES ASSUME Init PROVE TypeOK
    OBVIOUS
<1>1. 0 \in Held /\ OamSize \in Nat \ {0} /\ Buttons \in Nat
    BY BusAssumption DEF BusAssumption
<1>2. 0 \in 0 .. OamSize - 1 /\ 0 \in 0 .. Buttons
    BY <1>1
<1>3. vram \in [Reached -> Values \cup {0}] /\ ram \in [RamCells -> Values \cup {0}]
      /\ told \in [RamAddresses -> Values \cup {0}]
    BY DEF Init
<1>4. oam \in [0 .. OamSize - 1 -> Values \cup {0}] /\ oamAddr \in 0 .. OamSize - 1
    BY <1>2 DEF Init
<1>5. flags \in [Players -> Held] /\ held \in [Players -> Held] /\ polled \in [Players -> Held]
      /\ buttonId \in [Players -> 0 .. Buttons]
    BY <1>1, <1>2 DEF Init
<1>6. /\ ppuAddr \in Nat /\ ppuAddr < AddressSpace /\ addrInc \in {1, 32} /\ port = 0
      /\ readBuf \in Values \cup {0, 255} /\ out \in Values \cup {0, 1, 255}
    BY DEF Init, AddressSpace
<1>7. group \in {"cpu", "video", "sprites", "pads"} /\ mirroring \in Wirings
    BY DEF Init
<1>8. strobe \in BOOLEAN
    BY DEF Init
<1> QED
    BY <1>3, <1>4, <1>5, <1>6, <1>7, <1>8, Zenon DEF TypeOK

LEMMA CpuTypes ==
    ASSUME TypeOK, NEW a \in CpuAddresses, NEW val \in Values, SetByte(a, val) \/ GetByte(a)
    PROVE  TypeOK'
<1>1. (~IsIoReg(RedirectCpu(a))) => RedirectCpu(a) \in RamCells
    BY DEF RamCells
<1>2. ram \in [RamCells -> Values \cup {0}] /\ told \in [RamAddresses -> Values \cup {0}]
    BY DEF TypeOK
<1>3. CASE SetByte(a, val)
    <2>1. ram' \in [RamCells -> Values \cup {0}]
        BY <1>2, <1>3 DEF SetByte
    <2>2. told' \in [RamAddresses -> Values \cup {0}]
        BY <1>2, <1>3 DEF SetByte
    <2>3. port' = 0 \/ IsIoReg(port')
        BY <1>3 DEF SetByte, TypeOK
    <2> QED
        BY <1>3, <2>1, <2>2, <2>3 DEF SetByte, TypeOK, video, sprites, pads
<1>4. CASE GetByte(a)
    <2>1. out' \in Values \cup {0, 1, 255}
        BY <1>1, <1>2, <1>4 DEF GetByte, TypeOK
    <2>2. port' = 0 \/ IsIoReg(port')
        BY <1>4 DEF GetByte, TypeOK
    <2> QED
        BY <1>4, <2>1, <2>2 DEF GetByte, TypeOK, video, sprites, pads
<1> QED
    BY <1>3, <1>4

LEMMA PortMoves ==
    ASSUME TypeOK, ppuAddr \in Addresses
    PROVE  ppuAddr + addrInc \in Nat /\ ppuAddr + addrInc < AddressSpace
<1>1. ppuAddr \in Nat /\ ppuAddr < 16384
    BY BusAssumption DEF BusAssumption
<1>2. addrInc \in {1, 32}
    BY DEF TypeOK
<1> QED
    BY <1>1, <1>2 DEF AddressSpace

LEMMA WriteTypes ==
    ASSUME TypeOK, NEW val \in Values, WritePPUDATA(val)
    PROVE  TypeOK'
<1>1. vram' \in [Reached -> Values \cup {0}]
    <2> DEFINE r == Redirect(mirroring, ppuAddr)
    <2>1. vram' = vram \/ vram' = [vram EXCEPT ![r] = val]
        BY DEF WritePPUDATA
    <2>2. vram \in [Reached -> Values \cup {0}]
        BY DEF TypeOK
    <2> HIDE DEF r
    <2> QED
        BY <2>1, <2>2
<1>2. ppuAddr' \in Nat /\ ppuAddr' < AddressSpace
    BY PortMoves DEF WritePPUDATA
<1> QED
    BY <1>1, <1>2 DEF WritePPUDATA, TypeOK, sprites, pads, cpu

LEMMA ReadTypes ==
    ASSUME TypeOK, NEW logged \in BOOLEAN, ReadPPUDATA(logged)
    PROVE  TypeOK'
<1>1. ppuAddr \in Addresses
    BY DEF ReadPPUDATA
<1>2. ReadByte(ppuAddr) \in Values \cup {0, 255}
    BY <1>1, ReadByteType DEF WithUnder
<1>3. IsPalette(ppuAddr) => ReadByte(Under(ppuAddr)) \in Values \cup {0, 255}
    <2>1. IsPalette(ppuAddr) => Under(ppuAddr) \in WithUnder(Addresses)
        BY <1>1 DEF WithUnder
    <2> QED
        BY <2>1, ReadByteType
<1>4. readBuf' \in Values \cup {0, 255}
    BY <1>2, <1>3 DEF ReadPPUDATA, TypeOK
<1>5. out' \in Values \cup {0, 1, 255}
    BY <1>2 DEF ReadPPUDATA, TypeOK
<1>6. ppuAddr' \in Nat /\ ppuAddr' < AddressSpace
    <2>1. ppuAddr' = ppuAddr \/ ppuAddr' = ppuAddr + addrInc
        BY DEF ReadPPUDATA
    <2> QED
        BY <2>1, <1>1, PortMoves DEF TypeOK
<1> QED
    BY <1>4, <1>5, <1>6 DEF ReadPPUDATA, TypeOK, sprites, pads, cpu

LEMMA PadTypes ==
    ASSUME TypeOK, NEW p \in Players, NEW logged \in BOOLEAN, ReadCONTROLLER(p, logged)
    PROVE  TypeOK'
<1> DEFINE now == IF strobe THEN held ELSE flags
           id  == IF strobe THEN [q \in Players |-> 0] ELSE buttonId
<1>1. Buttons \in Nat \ {0}
    BY BusAssumption DEF BusAssumption
<1>2. now \in [Players -> Held]
    BY DEF TypeOK
<1>3. id \in [Players -> 0 .. Buttons]
    BY <1>1 DEF TypeOK
<1>4. buttonId' \in [Players -> 0 .. Buttons]
    <2>1. (IF id[p] < Buttons THEN id[p] + 1 ELSE id[p]) \in 0 .. Buttons
        BY <1>1, <1>3
    <2>2. buttonId' = [id EXCEPT ![p] = IF id[p] < Buttons THEN id[p] + 1 ELSE id[p]]
        BY DEF ReadCONTROLLER
    <2> HIDE DEF id
    <2> QED
        BY <2>1, <2>2, <1>3
<1>5. out' \in Values \cup {0, 1, 255}
    <2>1. out' \in {out, 0, 1} \/ (id[p] < Buttons /\ out' = Bit(now[p], Buttons - 1 - id[p]))
        BY DEF ReadCONTROLLER
    <2>2. id[p] < Buttons => Buttons - 1 - id[p] \in Nat
        BY <1>1, <1>3
    <2> HIDE DEF now, id
    <2>3. now[p] \in Nat
        BY <1>2, HeldType
    <2>4. id[p] < Buttons => Bit(now[p], Buttons - 1 - id[p]) \in {0, 1}
        BY <2>2, <2>3, BitType
    <2>5. out \in Values \cup {0, 1, 255}
        BY DEF TypeOK
    <2> QED
        BY <2>1, <2>4, <2>5, Zenon
<1>6. flags' \in [Players -> Held]
    BY <1>2 DEF ReadCONTROLLER
<1> QED
    BY <1>4, <1>5, <1>6 DEF ReadCONTROLLER, TypeOK, video, sprites, cpu

LEMMA StepTypes == TypeOK /\ [Next]_vars => TypeOK'
<1> SUFFICES ASSUME TypeOK, [Next]_vars PROVE TypeOK'
    OBVIOUS
<1>1. CASE \E a \in CpuAddresses, val \in Values : SetByte(a, val)
    BY <1>1, CpuTypes
<1>2. CASE \E a \in CpuAddresses : GetByte(a)
    <2>1. PICK a \in CpuAddresses : GetByte(a)
        BY <1>2
    <2>2. (~IsIoReg(RedirectCpu(a))) => RedirectCpu(a) \in RamCells
        BY DEF RamCells
    <2>3. out' \in Values \cup {0, 1, 255}
        BY <2>1, <2>2 DEF GetByte, TypeOK
    <2>4. port' = 0 \/ IsIoReg(port')
        BY <2>1 DEF GetByte, TypeOK
    <2> QED
        BY <2>1, <2>3, <2>4 DEF GetByte, TypeOK, video, sprites, pads
<1>3. CASE \E a \in Addresses : SetPPUADDR(a)
    <2>1. PICK a \in Addresses : SetPPUADDR(a)
        BY <1>3
    <2>2. a \in Nat /\ a < AddressSpace
        BY BusAssumption DEF BusAssumption, AddressSpace
    <2> QED
        BY <2>1, <2>2 DEF SetPPUADDR, TypeOK, sprites, pads, cpu
<1>4. CASE \E n \in Increments : SetIncrement(n)
    BY <1>4, BusAssumption DEF BusAssumption, SetIncrement, TypeOK, sprites, pads, cpu
<1>5. CASE \E val \in Values : WritePPUDATA(val)
    BY <1>5, WriteTypes
<1>6. CASE \E logged \in BOOLEAN : ReadPPUDATA(logged)
    BY <1>6, ReadTypes
<1>7. CASE \E m \in Switches : SetMirroring(m)
    BY <1>7, BusAssumption DEF BusAssumption, SetMirroring, TypeOK, sprites, pads, cpu
<1>8. CASE \E a \in 0 .. OamSize - 1 : WriteOAMADDR(a)
    BY <1>8 DEF WriteOAMADDR, TypeOK, video, pads, cpu
<1>9. CASE \E val \in Values : WriteOAMDATA(val)
    <2>1. PICK val \in Values : WriteOAMDATA(val)
        BY <1>9
    <2>2. NextOam(oamAddr) \in 0 .. OamSize - 1
        BY BusAssumption DEF BusAssumption, TypeOK, NextOam
    <2> QED
        BY <2>1, <2>2 DEF WriteOAMDATA, TypeOK, video, pads, cpu
<1>10. CASE ReadOAMDATA
    <2>1. oam[oamAddr] \in Values \cup {0}
        BY BusAssumption DEF BusAssumption, TypeOK
    <2>2. out' \in Values \cup {0, 1, 255}
        BY <1>10, <2>1 DEF ReadOAMDATA
    <2>3. UNCHANGED <<group, video, sprites, pads, cpu>>
        BY <1>10 DEF ReadOAMDATA
    <2> QED
        BY <1>10, <2>2, <2>3 DEF TypeOK, video, sprites, pads, cpu
<1>11. CASE \E page \in Pages : OamDma(page)
    <2>1. PICK page \in Pages : OamDma(page)
        BY <1>11
    <2>2. oam' \in [0 .. OamSize - 1 -> Values \cup {0}]
        BY <2>1, DmaType
    <2>3. UNCHANGED <<group, video, oamAddr, pads, out, cpu>>
        BY <2>1 DEF OamDma
    <2> QED
        BY <2>2, <2>3 DEF TypeOK, video, pads, cpu
<1>12. CASE \E p \in Players, b \in Held : Press(p, b)
    BY <1>12 DEF Press, TypeOK, video, sprites, cpu
<1>13. CASE \E on \in BOOLEAN : WriteCONTROLLER(on)
    <2>1. 0 \in 0 .. Buttons
        BY BusAssumption DEF BusAssumption
    <2> QED
        BY <1>13, <2>1 DEF WriteCONTROLLER, TypeOK, video, sprites, cpu
<1>14. CASE \E p \in Players, logged \in BOOLEAN : ReadCONTROLLER(p, logged)
    BY <1>14, PadTypes
<1>15. CASE UNCHANGED vars
    BY <1>15 DEF vars, TypeOK, video, sprites, pads, cpu
<1> QED
    BY <1>1, <1>2, <1>3, <1>4, <1>5, <1>6, <1>7, <1>8, <1>9, <1>10, <1>11, <1>12, <1>13,
       <1>14, <1>15 DEF Next

(* Every register, port and byte of the bus keeps its range: a read gives  *)
(* a byte somebody wrote, a button, or $ff.                                *)
THEOREM TypeCorrect == Spec => []TypeOK
<1>1. Init => TypeOK
    BY InitTypes
<1>2. TypeOK /\ [Next]_vars => TypeOK'
    BY StepTypes
<1> QED
    BY <1>1, <1>2, PTL DEF Spec

-----------------------------------------------------------------------------
(* The CPU bus: what a program last wrote to an address is in the byte of  *)
(* RAM that the address leads to.                                          *)

ToldIsKept == \A a \in RamAddresses : told[a] = ram[RedirectCpu(a)]

LEMMA RamIsNoRegister ==
    ASSUME NEW a \in RamAddresses
    PROVE  /\ a \in CpuAddresses /\ a \in Nat /\ (a < 8192 \/ a > 16415)
           /\ ~IsIoReg(RedirectCpu(a)) /\ RedirectCpu(a) \in RamCells
<1>1. a \in CpuAddresses /\ a \in Nat /\ (a < 8192 \/ a > 16415)
    BY BusAssumption DEF BusAssumption, RamAddresses
<1>2. ~IsIoReg(RedirectCpu(a))
    <2>1. CASE a < 8192
        <3>1. a % 2048 \in Nat /\ a % 2048 < 2048
            BY <1>1
        <3>2. RedirectCpu(a) = a % 2048
            BY <2>1 DEF RedirectCpu
        <3> QED
            BY <3>1, <3>2 DEF IsIoReg
    <2>2. CASE a > 16415
        BY <1>1, <2>2 DEF RedirectCpu, IsIoReg
    <2> QED
        BY <1>1, <2>1, <2>2
<1> QED
    BY <1>1, <1>2 DEF RamCells

(* An address that leads to a register shares no byte with one of RAM, and *)
(* two addresses of RAM share a byte exactly if they lead to it.           *)
LEMMA SharedBytes ==
    ASSUME NEW a \in CpuAddresses, NEW b \in RamAddresses
    PROVE  SameByte(a, b) <=> RedirectCpu(a) = RedirectCpu(b)
<1>1. a \in Nat
    BY BusAssumption DEF BusAssumption
<1>2. b \in Nat /\ (b < 8192 \/ b > 16415)
    BY RamIsNoRegister
<1>3. a % 2048 \in Nat /\ a % 2048 < 2048 /\ b % 2048 \in Nat /\ b % 2048 < 2048
    BY <1>1, <1>2
<1>4. a % 8 \in Nat /\ a % 8 < 8
    BY <1>1
<1> QED
    BY <1>1, <1>2, <1>3, <1>4 DEF SameByte, RedirectCpu

LEMMA InitTold == Init => ToldIsKept
<1> SUFFICES ASSUME Init, NEW a \in RamAddresses PROVE told[a] = ram[RedirectCpu(a)]
    BY DEF ToldIsKept
<1>1. RedirectCpu(a) \in RamCells
    BY RamIsNoRegister
<1> QED
    BY <1>1 DEF Init

LEMMA WriteTold ==
    ASSUME TypeOK, ToldIsKept, NEW a \in CpuAddresses, NEW val \in Values, SetByte(a, val)
    PROVE  ToldIsKept'
<1> SUFFICES ASSUME NEW b \in RamAddresses PROVE told'[b] = ram'[RedirectCpu(b)]
    BY DEF ToldIsKept
<1> DEFINE r == RedirectCpu(a)
<1>1. /\ ~IsIoReg(RedirectCpu(b)) /\ RedirectCpu(b) \in RamCells
      /\ told[b] = ram[RedirectCpu(b)] /\ ram \in [RamCells -> Values \cup {0}]
    BY RamIsNoRegister DEF ToldIsKept, TypeOK
<1>2. told'[b] = IF SameByte(a, b) THEN val ELSE told[b]
    BY DEF SetByte
<1>3. SameByte(a, b) <=> r = RedirectCpu(b)
    BY SharedBytes
<1>4. IF IsIoReg(r) THEN ram' = ram ELSE ram' = [ram EXCEPT ![r] = val]
    BY DEF SetByte
<1> HIDE DEF r
<1>5. CASE r = RedirectCpu(b)
    BY <1>1, <1>2, <1>3, <1>4, <1>5
<1>6. CASE r # RedirectCpu(b)
    BY <1>1, <1>2, <1>3, <1>4, <1>6
<1> QED
    BY <1>5, <1>6

LEMMA StepTold == TypeOK /\ ToldIsKept /\ [Next]_vars => ToldIsKept'
<1> SUFFICES ASSUME TypeOK, ToldIsKept, [Next]_vars PROVE ToldIsKept'
    OBVIOUS
<1>1. CASE \E a \in CpuAddresses, val \in Values : SetByte(a, val)
    BY <1>1, WriteTold
<1>2. CASE UNCHANGED <<ram, told>>
    BY <1>2 DEF ToldIsKept
<1>3. (\E a \in CpuAddresses, val \in Values : SetByte(a, val)) \/ UNCHANGED <<ram, told>>
    BY DEF Next, vars, cpu, GetByte, SetPPUADDR, SetIncrement, WritePPUDATA, ReadPPUDATA,
           SetMirroring, WriteOAMADDR, WriteOAMDATA, ReadOAMDATA, OamDma, Press,
           WriteCONTROLLER, ReadCONTROLLER
<1> QED
    BY <1>1, <1>2, <1>3

(* What one read finds.                                                    *)
LEMMA ReadIsDecoded ==
    ASSUME TypeOK, ToldIsKept, NEW a \in CpuAddresses, GetByte(a)
    PROVE  /\ a \in 8192 .. 16383  => port' = 8192 + (a % 8)
           /\ a \in 16384 .. 16415 => port' = a
           /\ a \in RamAddresses   => out' = told[a]
<1>1. a \in Nat
    BY BusAssumption DEF BusAssumption
<1>2. ASSUME a \in 8192 .. 16383 PROVE port' = 8192 + (a % 8)
    <2>1. a % 8 \in Nat /\ a % 8 < 8
        BY <1>1
    <2>2. RedirectCpu(a) = 8192 + (a % 8)
        BY <1>1, <1>2 DEF RedirectCpu
    <2>3. IsIoReg(RedirectCpu(a))
        BY <2>1, <2>2 DEF IsIoReg
    <2> QED
        BY <2>2, <2>3 DEF GetByte
<1>3. ASSUME a \in 16384 .. 16415 PROVE port' = a
    <2>1. RedirectCpu(a) = a /\ IsIoReg(a)
        BY <1>1, <1>3 DEF RedirectCpu, IsIoReg
    <2> QED
        BY <2>1 DEF GetByte
<1>4. ASSUME a \in RamAddresses PROVE out' = told[a]
    <2>1. ~IsIoReg(RedirectCpu(a))
        BY <1>4, RamIsNoRegister
    <2> QED
        BY <2>1, <1>4 DEF GetByte, ToldIsKept
<1> QED
    BY <1>2, <1>3, <1>4

(* Whatever the program has written through whichever mirror, a read of    *)
(* RAM returns the last byte written to it, and an access to the registers *)
(* reaches the register it names (nes_memory::redirect_addr, is_io_reg).   *)
THEOREM BusDecoded == Spec => BusIsDecoded
<1> DEFINE A == \A a \in CpuAddresses :
          GetByte(a) => /\ a \in 8192 .. 16383  => port' = 8192 + (a % 8)
                        /\ a \in 16384 .. 16415 => port' = a
                        /\ a \in RamAddresses   => out' = told[a]
<1>1. TypeOK /\ ToldIsKept => A
    BY ReadIsDecoded
<1>2. Spec => []TypeOK
    BY TypeCorrect
<1>3. TypeOK /\ ToldIsKept /\ [Next]_vars => ToldIsKept'
    BY StepTold
<1>4. Init => ToldIsKept
    BY InitTold
<1>5. BusIsDecoded <=> [][A]_vars
    BY DEF BusIsDecoded
<1> HIDE DEF A
<1> QED
    BY <1>1, <1>2, <1>3, <1>4, <1>5, PTL DEF Spec

-----------------------------------------------------------------------------
(* OAM DMA from any OAMADDR: byte i of the page lands i places further.    *)

LEMMA DmaRotates ==
    ASSUME TypeOK, NEW page \in Pages, OamDma(page), NEW i \in 0 .. OamSize - 1
    PROVE  oam'[(oamAddr + i) % OamSize] = page[i]
<1> DEFINE j == (oamAddr + i) % OamSize
<1>1. OamSize \in Nat \ {0} /\ oamAddr \in 0 .. OamSize - 1
    BY BusAssumption DEF BusAssumption, TypeOK
<1>3. j = IF oamAddr + i < OamSize THEN oamAddr + i ELSE oamAddr + i - OamSize
    BY <1>1, Wrap, Zenon
<1>4. j \in 0 .. OamSize - 1
    BY <1>1, <1>3
<1> HIDE DEF j
<1>5. CASE oamAddr = 0
    <2>1. oam'[j] = GetBytes(oam, page, 0, 0, OamSize)[j]
        BY <1>5 DEF OamDma
    <2>2. j \in 0 .. 0 + OamSize - 1 /\ 0 + j - 0 = i
        BY <1>1, <1>3, <1>4, <1>5
    <2> QED
        BY <2>1, <2>2, <1>4 DEF GetBytes, j
<1>6. CASE oamAddr # 0
    <2> DEFINE inner == GetBytes(oam, page, oamAddr, 0, BeforeWrap)
    <2>1. oam' = GetBytes(inner, page, 0, BeforeWrap, OamSize - BeforeWrap)
        BY <1>6 DEF OamDma
    <2> HIDE DEF inner
    <2>2. oam'[j] = IF j \in 0 .. 0 + (OamSize - BeforeWrap) - 1 THEN page[BeforeWrap + j - 0]
                    ELSE inner[j]
        BY <2>1, <1>4 DEF GetBytes
    <2>3. inner[j] = IF j \in oamAddr .. oamAddr + BeforeWrap - 1 THEN page[0 + j - oamAddr]
                     ELSE oam[j]
        BY <1>4 DEF GetBytes, inner
    <2>4. BeforeWrap = OamSize - oamAddr
        BY DEF BeforeWrap
    <2>5. CASE oamAddr + i < OamSize
        <3>1. /\ ~(j \in 0 .. 0 + (OamSize - BeforeWrap) - 1)
              /\ j \in oamAddr .. oamAddr + BeforeWrap - 1 /\ 0 + j - oamAddr = i
            BY <1>1, <1>3, <2>4, <2>5
        <3> QED
            BY <3>1, <2>2, <2>3 DEF j
    <2>6. CASE ~(oamAddr + i < OamSize)
        <3>1. j \in 0 .. 0 + (OamSize - BeforeWrap) - 1 /\ BeforeWrap + j - 0 = i
            BY <1>1, <1>3, <2>4, <2>6
        <3> QED
            BY <3>1, <2>2 DEF j
    <2> QED
        BY <2>5, <2>6
<1> QED
    BY <1>5, <1>6

(* Wherever the program has left OAMADDR, nes_ppu::oam_dma fills all of    *)
(* OAM from there on, round its end, in the order of the page.             *)
THEOREM DmaRotation == Spec => DmaIsRotation
<1> DEFINE A == \A page \in Pages : OamDma(page) =>
                   \A i \in 0 .. OamSize - 1 : oam'[(oamAddr + i) % OamSize] = page[i]
<1>1. TypeOK => A
    BY DmaRotates
<1>2. Spec => []TypeOK
    BY TypeCorrect
<1>3. DmaIsRotation <=> [][A]_vars
    BY DEF DmaIsRotation
<1> HIDE DEF A
<1> QED
    BY <1>1, <1>2, <1>3, PTL

-----------------------------------------------------------------------------
(* Between strobes the shift registers hold the buttons of the last poll.  *)

FlagsArePolled == ~strobe => flags = polled

LEMMA StepFlags == TypeOK /\ FlagsArePolled /\ [Next]_vars => FlagsArePolled'
<1> SUFFICES ASSUME TypeOK, FlagsArePolled, [Next]_vars PROVE FlagsArePolled'
    OBVIOUS
<1>1. CASE UNCHANGED <<strobe, flags, polled>>
    BY <1>1 DEF FlagsArePolled
<1>2. CASE \E on \in BOOLEAN : WriteCONTROLLER(on)
    BY <1>2 DEF WriteCONTROLLER, EndsStrobe, FlagsArePolled
<1>3. CASE \E p \in Players, logged \in BOOLEAN : ReadCONTROLLER(p, logged)
    BY <1>3 DEF ReadCONTROLLER, FlagsArePolled
<1>4. \/ UNCHANGED <<strobe, flags, polled>>
      \/ \E on \in BOOLEAN : WriteCONTROLLER(on)
      \/ \E p \in Players, logged \in BOOLEAN : ReadCONTROLLER(p, logged)
    BY DEF Next, vars, pads, SetByte, GetByte, SetPPUADDR, SetIncrement, WritePPUDATA,
           ReadPPUDATA, SetMirroring, WriteOAMADDR, WriteOAMDATA, ReadOAMDATA, OamDma, Press
<1> QED
    BY <1>1, <1>2, <1>3, <1>4

LEMMA InitFlags == Init => FlagsArePolled
BY DEF Init, FlagsArePolled

LEMMA ReadGivesPolled ==
    ASSUME TypeOK, FlagsArePolled, NEW p \in Players,
           ~strobe /\ ReadCONTROLLER(p, FALSE) /\ buttonId'[p] > buttonId[p]
    PROVE  out' = Bit(polled[p], Buttons - buttonId'[p])
<1>1. buttonId \in [Players -> 0 .. Buttons] /\ Buttons \in Nat /\ flags = polled
    BY BusAssumption DEF BusAssumption, TypeOK, FlagsArePolled
<1>2. buttonId' = [buttonId EXCEPT ![p] = IF @ < Buttons THEN @ + 1 ELSE @]
    BY DEF ReadCONTROLLER
<1>3. buttonId[p] \in 0 .. Buttons
    BY <1>1
<1>4. buttonId[p] < Buttons /\ buttonId'[p] = buttonId[p] + 1
    BY <1>1, <1>2, <1>3
<1>5. out' = Bit(flags[p], Buttons - 1 - buttonId[p])
    BY <1>4 DEF ReadCONTROLLER
<1>6. Buttons - 1 - buttonId[p] = Buttons - buttonId'[p]
    BY <1>1, <1>3, <1>4
<1> QED
    BY <1>1, <1>5, <1>6

(* After a strobe the reads of a controller give, one by one and in order, *)
(* the buttons held when it ended, whatever is pressed or read of the      *)
(* other controller in between (nes_input::read_CONTROLLER).               *)
THEOREM OnePoll == Spec => ButtonsOfOnePoll
<1> DEFINE A == \A p \in Players :
          ~strobe /\ ReadCONTROLLER(p, FALSE) /\ buttonId'[p] > buttonId[p] =>
              out' = Bit(polled[p], Buttons - buttonId'[p])
<1>1. TypeOK /\ FlagsArePolled => A
    BY ReadGivesPolled
<1>2. Spec => []TypeOK
    BY TypeCorrect
<1>3. Init => FlagsArePolled
    BY InitFlags
<1>4. TypeOK /\ FlagsArePolled /\ [Next]_vars => FlagsArePolled'
    BY StepFlags
<1>5. ButtonsOfOnePoll <=> [][A]_vars
    BY DEF ButtonsOfOnePoll
<1> HIDE DEF A
<1> QED
    BY <1>1, <1>2, <1>3, <1>4, <1>5, PTL DEF Spec

-----------------------------------------------------------------------------
(* The data port implements VideoMemory.  First, where nes_ppu's           *)
(* redirect_addr puts a byte is where its cell is kept.                    *)

LEMMA PortAddresses ==
    ASSUME NEW a \in WithUnder(Addresses)
    PROVE  /\ a \in Nat /\ (a < 12288 \/ (16128 <= a /\ a < 16384))
           /\ 8192 <= a /\ a < 10240 => a + 2048 \in WithUnder(Addresses)
           /\ IsPalette(a) <=> 16128 <= a
<1>1. CASE a \in Addresses
    <2>1. a \in Nat /\ (a < 12288 \/ (16128 <= a /\ a < 16384))
        BY <1>1, BusAssumption DEF BusAssumption
    <2>2. 8192 <= a /\ a < 10240 => a + 2048 \in Addresses
        BY <1>1, BusAssumption DEF BusAssumption
    <2>3. IsPalette(a) <=> 16128 <= a
        BY <2>1 DEF IsPalette
    <2> QED
        BY <2>1, <2>2, <2>3 DEF WithUnder
<1>2. CASE a \notin Addresses
    <2>1. PICK b \in Addresses : IsPalette(b) /\ a = Under(b)
        BY <1>2 DEF WithUnder
    <2>2. b \in Nat /\ b < 16384
        BY BusAssumption DEF BusAssumption
    <2>3. 16128 <= b
        BY <2>1, <2>2 DEF IsPalette
    <2>4. a \in Nat /\ 12032 <= a /\ a < 12288
        BY <2>1, <2>2, <2>3 DEF Under
    <2>5. ~IsPalette(a)
        BY <2>4 DEF IsPalette
    <2> QED
        BY <2>4, <2>5
<1> QED
    BY <1>1, <1>2

(* A name table address, taken apart.                                      *)
LEMMA TableAddress ==
    ASSUME NEW a \in Nat, 8192 <= a, a < 12288
    PROVE  /\ (a \div 1024) % 4 \in {0, 1, 2, 3} /\ a % 1024 \in Nat /\ a % 1024 < 1024
           /\ a = 8192 + (1024 * ((a \div 1024) % 4)) + (a % 1024)
           /\ a \div 4096 = 2 /\ a \div 256 # 63
OBVIOUS

LEMMA TableCell ==
    ASSUME NEW m \in Wirings, NEW a \in Nat, 8192 <= a, a < 12288
    PROVE  /\ Cell(m, a) = [kind |-> Table(m, (a \div 1024) % 4), at |-> a % 1024]
           /\ Table(m, (a \div 1024) % 4) \in {"A", "B"}
<1>1. (a \div 1024) % 4 \in {0, 1, 2, 3} /\ a \div 256 # 63
    BY TableAddress
<1>2. Table(m, (a \div 1024) % 4) \in {"A", "B"}
    BY <1>1 DEF Table, Wirings
<1> QED
    BY <1>1, <1>2 DEF Cell, IsPalette

(* The address of cell x of table n, and the bits redirect_addr clears.    *)
InTable(n, x) == 8192 + (1024 * n) + x
ClearedRight(a, n, x) ==
    /\ Clear(a, 11) = 8192 + (IF n \in {1, 3} THEN 1024 ELSE 0) + x
    /\ Clear(a, 10) = 8192 + (IF n \in {2, 3} THEN 2048 ELSE 0) + x
    /\ Clear(Clear(a, 11), 10) = 8192 + x

LEMMA ClearBits ==
    ASSUME NEW n \in {0, 1, 2, 3}, NEW x \in Nat, x < 1024
    PROVE  ClearedRight(InTable(n, x), n, x)
<1>1. 2 ^ 10 = 1024 /\ 2 ^ 11 = 2048
    OBVIOUS
<1>2. ASSUME NEW k \in {0, 1, 2, 3}
      PROVE  LET a == 8192 + (1024 * k) + x
             IN  /\ Clear(a, 11) = 8192 + (IF k \in {1, 3} THEN 1024 ELSE 0) + x
                 /\ Clear(a, 10) = 8192 + (IF k \in {2, 3} THEN 2048 ELSE 0) + x
    <2>1. CASE k = 0
        BY <1>1, <2>1 DEF Clear, Bit
    <2>2. CASE k = 1
        BY <1>1, <2>2 DEF Clear, Bit
    <2>3. CASE k = 2
        BY <1>1, <2>3 DEF Clear, Bit
    <2>4. CASE k = 3
        BY <1>1, <2>4 DEF Clear, Bit
    <2> QED
        BY <2>1, <2>2, <2>3, <2>4
<1>3. Clear(8192 + x, 10) = 8192 + x /\ Clear(9216 + x, 10) = 8192 + x
    BY <1>1 DEF Clear, Bit
<1> QED
    BY <1>2, <1>3 DEF ClearedRight, InTable

LEMMA TableRedirected ==
    ASSUME NEW m \in Wirings, NEW a \in Nat, 8192 <= a, a < 12288
    PROVE  Redirect(m, a) = Place(m, Cell(m, a))
<1> DEFINE n == (a \div 1024) % 4
           x == a % 1024
<1>1. n \in {0, 1, 2, 3} /\ x \in Nat /\ x < 1024 /\ a = 8192 + (1024 * n) + x
      /\ a \div 4096 = 2 /\ a \div 256 # 63
    BY TableAddress
<1>2. Cell(m, a) = [kind |-> Table(m, n), at |-> x]
    BY TableCell
<1> HIDE DEF n, x
<1>3. /\ Clear(a, 11) = 8192 + (IF n \in {1, 3} THEN 1024 ELSE 0) + x
      /\ Clear(a, 10) = 8192 + (IF n \in {2, 3} THEN 2048 ELSE 0) + x
      /\ Clear(Clear(a, 11), 10) = 8192 + x
    <2>1. ClearedRight(InTable(n, x), n, x)
        BY <1>1, ClearBits
    <2>2. a = InTable(n, x)
        BY <1>1 DEF InTable
    <2> QED
        BY <2>1, <2>2 DEF ClearedRight
<1>4. CASE m = "vertical"
    BY <1>1, <1>2, <1>3, <1>4 DEF Redirect, Place, Table
<1>5. CASE m = "horizontal"
    BY <1>1, <1>2, <1>3, <1>5 DEF Redirect, Place, Table
<1>6. CASE m = "lower"
    BY <1>1, <1>2, <1>3, <1>6 DEF Redirect, Place, Table
<1>7. CASE m = "upper"
    BY <1>1, <1>2, <1>3, <1>7 DEF Redirect, Place, Table
<1> QED
    BY <1>4, <1>5, <1>6, <1>7 DEF Wirings

LEMMA Palettes ==
    ASSUME NEW a \in Nat
    PROVE  /\ RedirectPalette(a) = 16128 + (IF a % 4 = 0 THEN a % 16 ELSE a % 32)
           /\ (IF a % 4 = 0 THEN a % 16 ELSE a % 32) \in 0 .. 31
BY DEF RedirectPalette

LEMMA Redirected ==
    ASSUME NEW m \in Wirings, NEW a \in WithUnder(Addresses)
    PROVE  Redirect(m, a) = Place(m, Cell(m, a))
<1>1. a \in Nat /\ (a < 12288 \/ (16128 <= a /\ a < 16384)) /\ (IsPalette(a) <=> 16128 <= a)
    BY PortAddresses
<1>2. CASE 16128 <= a
    <2>1. a \div 256 = 63 /\ IsPalette(a)
        BY <1>1, <1>2 DEF IsPalette
    <2>2. Redirect(m, a) = 16128 + (IF a % 4 = 0 THEN a % 16 ELSE a % 32)
        BY <1>1, <2>1, Palettes DEF Redirect
    <2>3. Cell(m, a) = [kind |-> "palette", at |-> IF a % 4 = 0 THEN a % 16 ELSE a % 32]
        BY <2>1 DEF Cell
    <2> QED
        BY <2>2, <2>3 DEF Place
<1>3. CASE a < 8192
    <2>1. ~IsPalette(a) /\ a \div 256 # 63 /\ a \div 4096 # 2
        BY <1>1, <1>3 DEF IsPalette
    <2>2. Cell(m, a) = [kind |-> "pattern", at |-> a]
        BY <1>3, <2>1 DEF Cell
    <2>3. Redirect(m, a) = a
        BY <1>1, <1>3, <2>1 DEF Redirect
    <2> QED
        BY <2>2, <2>3 DEF Place
<1>4. CASE 8192 <= a /\ a < 12288
    BY <1>1, <1>4, TableRedirected
<1> QED
    BY <1>1, <1>2, <1>3, <1>4

(* What a cell looks like.                                                 *)
CellOK(c) ==
    /\ c = [kind |-> c.kind, at |-> c.at] /\ c.at \in Nat
    /\ c.kind \in {"pattern", "palette", "A", "B"}
    /\ c.at < CASE c.kind = "pattern" -> 8192 [] c.kind = "palette" -> 32 [] OTHER -> 1024

LEMMA CellShape ==
    ASSUME NEW m \in Wirings, NEW a \in WithUnder(Addresses)
    PROVE  CellOK(Cell(m, a))
<1>1. a \in Nat /\ (a < 12288 \/ (16128 <= a /\ a < 16384)) /\ (IsPalette(a) <=> 16128 <= a)
    BY PortAddresses
<1>2. CASE 16128 <= a
    <2> DEFINE p == IF a % 4 = 0 THEN a % 16 ELSE a % 32
    <2>1. Cell(m, a) = [kind |-> "palette", at |-> p]
        BY <1>1, <1>2 DEF Cell
    <2>2. p \in Nat /\ p < 32
        BY <1>1
    <2> HIDE DEF p
    <2> QED
        BY <2>1, <2>2 DEF CellOK
<1>3. CASE a < 8192
    <2>1. Cell(m, a) = [kind |-> "pattern", at |-> a]
        BY <1>1, <1>3 DEF Cell
    <2> QED
        BY <2>1, <1>1, <1>3 DEF CellOK
<1>4. CASE 8192 <= a /\ a < 12288
    <2> DEFINE t == Table(m, (a \div 1024) % 4)
               x == a % 1024
    <2>1. Cell(m, a) = [kind |-> t, at |-> x] /\ t \in {"A", "B"}
        BY <1>1, <1>4, TableCell
    <2>2. x \in Nat /\ x < 1024
        BY <1>1
    <2> HIDE DEF t, x
    <2> QED
        BY <2>1, <2>2 DEF CellOK
<1> QED
    BY <1>1, <1>2, <1>3, <1>4

LEMMA CellsOK == \A c \in Cells : CellOK(c)
BY CellShape DEF Cells

(* No byte is shared by two cells, and all lie in VRAM.                    *)
LEMMA PlaceIsOwn ==
    ASSUME NEW m \in Wirings, NEW c \in Cells, NEW d \in Cells, Place(m, c) = Place(m, d)
    PROVE  c = d
<1>1. CellOK(c) /\ CellOK(d)
    BY CellsOK
<1> QED
    BY <1>1 DEF CellOK, Place

LEMMA PlaceInVram ==
    ASSUME NEW m \in Wirings, NEW c \in Cells
    PROVE  Place(m, c) \in Nat /\ Place(m, c) < 16384
<1>1. CellOK(c)
    BY CellsOK
<1> QED
    BY <1>1 DEF CellOK, Place

(* Every cell is kept where some access of the program leads.              *)
LEMMA PlaceIsReached ==
    ASSUME NEW m \in Wirings, NEW c \in Cells
    PROVE  Place(m, c) \in Reached
<1>1. PICK w \in Wirings, a \in WithUnder(Addresses) : c = Cell(w, a)
    BY DEF Cells
<1>2. \A v \in Wirings, b \in WithUnder(Addresses) : Place(v, Cell(v, b)) \in Reached
    BY Redirected DEF Reached
<1>3. a \in Nat /\ (a < 12288 \/ (16128 <= a /\ a < 16384)) /\ (IsPalette(a) <=> 16128 <= a)
      /\ (8192 <= a /\ a < 10240 => a + 2048 \in WithUnder(Addresses))
    BY PortAddresses
<1>4. CASE a < 8192 \/ 16128 <= a
    <2>1. Cell(m, a) = Cell(w, a)
        BY <1>3, <1>4 DEF Cell
    <2> QED
        BY <2>1, <1>1, <1>2
<1>5. CASE 8192 <= a /\ a < 12288
    <2> DEFINE x == a % 1024
    <2>1. \A v \in Wirings : Cell(v, a) = [kind |-> Table(v, (a \div 1024) % 4), at |-> x]
        BY <1>3, <1>5, TableCell
    <2>2. c = [kind |-> "A", at |-> x] \/ c = [kind |-> "B", at |-> x]
        BY <1>1, <1>3, <1>5, TableCell
    <2>3. ASSUME c = [kind |-> "A", at |-> x] PROVE Place(m, c) \in Reached
        <3>1. Cell("lower", a) = c
            BY <2>1, <2>3 DEF Table, Wirings
        <3>2. Place("lower", c) = Place(m, c)
            BY <2>3 DEF Place
        <3> QED
            BY <3>1, <3>2, <1>2 DEF Wirings
    <2>4. ASSUME c = [kind |-> "B", at |-> x], m # "horizontal" PROVE Place(m, c) \in Reached
        <3>1. Cell("upper", a) = c
            BY <2>1, <2>4 DEF Table, Wirings
        <3>2. Place("upper", c) = Place(m, c)
            BY <2>4 DEF Place
        <3> QED
            BY <3>1, <3>2, <1>2 DEF Wirings
    <2>5. ASSUME c = [kind |-> "B", at |-> x], m = "horizontal" PROVE Place(m, c) \in Reached
        <3>1. PICK b \in WithUnder(Addresses) : b \in Nat /\ 10240 <= b /\ b < 12288 /\ b % 1024 = x
            <4>1. CASE a < 10240
                <5>1. (a + 2048) % 1024 = x
                    BY <1>3
                <5> QED
                    BY <4>1, <5>1, <1>3, <1>5
            <4>2. CASE ~(a < 10240)
                BY <4>2, <1>3, <1>5
            <4> QED
                BY <4>1, <4>2
        <3>2. (b \div 1024) % 4 \in {2, 3}
            BY <3>1
        <3>3. Cell("horizontal", b) = [kind |-> Table("horizontal", (b \div 1024) % 4), at |-> b % 1024]
            BY <3>1, TableCell DEF Wirings
        <3>4. Cell("horizontal", b) = c
            BY <3>1, <3>2, <3>3, <2>5 DEF Table
        <3> QED
            BY <3>4, <2>5, <1>2 DEF Wirings
    <2> QED
        BY <2>2, <2>3, <2>4, <2>5
<1> QED
    BY <1>3, <1>4, <1>5

(* A cartridge that switches its mirroring keeps table B where it is.      *)
OneLayout == "horizontal" \in Switches => Switches = {"horizontal"}

LEMMA SameMap ==
    /\ Memory!WithUnder(Addresses) = WithUnder(Addresses)
    /\ \A a : Memory!IsPalette(a) = IsPalette(a) /\ Memory!Under(a) = Under(a)
    /\ \A w, a : Memory!Cell(w, a) = Cell(w, a)
    /\ Memory!Wirings = Wirings
<1>1. \A a : Memory!IsPalette(a) = IsPalette(a) /\ Memory!Under(a) = Under(a)
    BY DEF Memory!IsPalette, IsPalette, Memory!Under, Under
<1>2. Memory!WithUnder(Addresses) = WithUnder(Addresses)
    BY DEF Memory!WithUnder, WithUnder, Memory!IsPalette, IsPalette, Memory!Under, Under
<1>3. \A w, n : Memory!Table(w, n) = Table(w, n)
    BY DEF Memory!Table, Table
<1>4. \A w, a : Memory!Cell(w, a) = Cell(w, a)
    BY <1>1, <1>3 DEF Memory!Cell, Cell
<1>5. Memory!Wirings = Wirings
    BY DEF Memory!Wirings, Wirings
<1> QED
    BY <1>1, <1>2, <1>4, <1>5

LEMMA SameCells == Memory!Cells = Cells
BY SameMap DEF Memory!Cells, Cells

LEMMA InitMemory == Init => Memory!Init
<1> SUFFICES ASSUME Init PROVE Memory!Init
    OBVIOUS
<1>1. mirroring \in Memory!Wirings
    BY SameMap DEF Init
<1>2. Contents(vram, mirroring) = [c \in Memory!Cells |-> 0]
    <2>1. \A c \in Cells : Place(mirroring, c) \in Reached
        BY PlaceIsReached DEF Init
    <2>2. \A c \in Cells : vram[Place(mirroring, c)] = 0
        BY <2>1 DEF Init
    <2> QED
        BY <2>2, SameCells DEF Contents
<1>3. ppuAddr = 0 /\ addrInc = 1 /\ readBuf = 0 /\ out = 0
    BY DEF Init
<1> QED
    BY <1>1, <1>2, <1>3 DEF Memory!Init

(* What a read of the array finds is the content of the cell.              *)
LEMMA ReadsCell ==
    ASSUME TypeOK, NEW a \in WithUnder(Addresses)
    PROVE  ReadByte(a) = Contents(vram, mirroring)[Memory!Cell(mirroring, a)]
<1>1. mirroring \in Wirings
    BY DEF TypeOK
<1>2. Cell(mirroring, a) \in Cells
    BY <1>1 DEF Cells
<1>3. Redirect(mirroring, a) = Place(mirroring, Cell(mirroring, a))
    BY <1>1, Redirected
<1>4. ~(Redirect(mirroring, a) >= VramSize)
    BY <1>1, <1>2, <1>3, PlaceInVram DEF VramSize
<1>5. ReadByte(a) = vram[Place(mirroring, Cell(mirroring, a))]
    BY <1>3, <1>4 DEF ReadByte
<1> QED
    BY <1>2, <1>5, SameMap DEF Contents

LEMMA WriteIsMapped ==
    ASSUME TypeOK, NEW val \in Values, WritePPUDATA(val)
    PROVE  Memory!Write(val)
<1> DEFINE here == Cell(mirroring, ppuAddr)
<1>1. mirroring \in Wirings /\ vram \in [Reached -> Values \cup {0}]
    BY DEF TypeOK
<1>2. ppuAddr \in Addresses /\ ppuAddr \in WithUnder(Addresses)
    BY DEF WritePPUDATA, WithUnder
<1>3. here \in Cells
    BY <1>1, <1>2 DEF Cells
<1>4. Redirect(mirroring, ppuAddr) = Place(mirroring, here)
    BY <1>1, <1>2, Redirected
<1>5. ~(Redirect(mirroring, ppuAddr) >= VramSize)
    BY <1>1, <1>3, <1>4, PlaceInVram DEF VramSize
<1>6. vram' = [vram EXCEPT ![Place(mirroring, here)] = val]
    BY <1>4, <1>5 DEF WritePPUDATA
<1>7. mirroring' = mirroring /\ ppuAddr' = ppuAddr + addrInc /\ group' = group
      /\ addrInc' = addrInc /\ readBuf' = readBuf /\ out' = out
    BY DEF WritePPUDATA
<1>8. Memory!Cell(mirroring, ppuAddr) = here
    BY SameMap
<1> HIDE DEF here
<1>9. Contents(vram', mirroring') = [Contents(vram, mirroring) EXCEPT ![here] = val]
    <2>1. ASSUME NEW c \in Cells
          PROVE  vram'[Place(mirroring, c)] = IF c = here THEN val ELSE vram[Place(mirroring, c)]
        <3>1. Place(mirroring, c) \in Reached
            BY <1>1, PlaceIsReached
        <3>2. c # here => Place(mirroring, c) # Place(mirroring, here)
            BY <1>1, <1>3, PlaceIsOwn
        <3> QED
            BY <1>1, <1>6, <3>1, <3>2
    <2>2. Contents(vram', mirroring') = [c \in Cells |-> vram'[Place(mirroring, c)]]
        BY <1>7 DEF Contents
    <2>3. [Contents(vram, mirroring) EXCEPT ![here] = val]
             = [c \in Cells |-> IF c = here THEN val ELSE vram[Place(mirroring, c)]]
        <3> DEFINE f == Contents(vram, mirroring)
        <3>1. DOMAIN f = Cells /\ \A c \in Cells : f[c] = vram[Place(mirroring, c)]
            BY DEF Contents
        <3>2. f = [c \in Cells |-> f[c]]
            BY DEF Contents
        <3> HIDE DEF f
        <3>3. [f EXCEPT ![here] = val] = [c \in Cells |-> IF c = here THEN val ELSE f[c]]
            BY <3>1, <3>2
        <3>4. [c \in Cells |-> IF c = here THEN val ELSE f[c]]
                 = [c \in Cells |-> IF c = here THEN val ELSE vram[Place(mirroring, c)]]
            BY <3>1
        <3> QED
            BY <3>3, <3>4 DEF f
    <2>4. [c \in Cells |-> vram'[Place(mirroring, c)]]
             = [c \in Cells |-> IF c = here THEN val ELSE vram[Place(mirroring, c)]]
        BY <2>1
    <2> QED
        BY <2>2, <2>3, <2>4
<1> QED
    BY <1>2, <1>7, <1>8, <1>9 DEF Memory!Write

LEMMA ReadIsMapped ==
    ASSUME TypeOK, ReadPPUDATA(FALSE)
    PROVE  Memory!Read
<1>1. ppuAddr \in Addresses /\ ppuAddr \in WithUnder(Addresses) /\ group = "video"
    BY DEF ReadPPUDATA, WithUnder
<1>2. ReadByte(ppuAddr) = Contents(vram, mirroring)[Memory!Cell(mirroring, ppuAddr)]
    BY <1>1, ReadsCell
<1>3. IsPalette(ppuAddr) =>
          ReadByte(Under(ppuAddr)) = Contents(vram, mirroring)[Memory!Cell(mirroring, Under(ppuAddr))]
    <2>1. IsPalette(ppuAddr) => Under(ppuAddr) \in WithUnder(Addresses)
        BY <1>1 DEF WithUnder
    <2> QED
        BY <2>1, ReadsCell
<1>4. Memory!IsPalette(ppuAddr) = IsPalette(ppuAddr) /\ Memory!Under(ppuAddr) = Under(ppuAddr)
    BY SameMap
<1>5. /\ mirroring' = mirroring /\ vram' = vram /\ group' = group /\ addrInc' = addrInc
      /\ ppuAddr' = ppuAddr + addrInc
    BY DEF ReadPPUDATA
<1>6. Contents(vram', mirroring') = Contents(vram, mirroring)
    BY <1>5
<1>7. CASE IsPalette(ppuAddr)
    <2>1. out' = ReadByte(ppuAddr) /\ readBuf' = ReadByte(Under(ppuAddr))
        BY <1>7 DEF ReadPPUDATA
    <2> QED
        BY <2>1, <1>1, <1>2, <1>3, <1>4, <1>5, <1>6, <1>7 DEF Memory!Read
<1>8. CASE ~IsPalette(ppuAddr)
    <2>1. out' = readBuf /\ readBuf' = ReadByte(ppuAddr)
        BY <1>8 DEF ReadPPUDATA
    <2> QED
        BY <2>1, <1>1, <1>2, <1>4, <1>5, <1>6, <1>8 DEF Memory!Read
<1> QED
    BY <1>7, <1>8

LEMMA SwitchIsMapped ==
    ASSUME OneLayout, TypeOK, NEW m \in Switches, SetMirroring(m)
    PROVE  Memory!Rewire(m)
<1>1. /\ mirroring' = m /\ mirroring \in Switches /\ vram' = vram /\ group' = group
      /\ ppuAddr' = ppuAddr /\ addrInc' = addrInc /\ readBuf' = readBuf /\ out' = out
    BY DEF SetMirroring
<1>2. m = "horizontal" <=> mirroring = "horizontal"
    BY <1>1 DEF OneLayout
<1>3. \A c : Place(m, c) = Place(mirroring, c)
    BY <1>2 DEF Place
<1>4. Contents(vram', mirroring') = Contents(vram, mirroring)
    BY <1>1, <1>3 DEF Contents
<1> QED
    BY <1>1, <1>4 DEF Memory!Rewire

LEMMA StepMemory ==
    ASSUME OneLayout, TypeOK, [Next]_vars
    PROVE  [Memory!Next]_(Memory!vars)
<1>1. CASE \E a \in Addresses : SetPPUADDR(a)
    <2>1. PICK a \in Addresses : SetPPUADDR(a)
        BY <1>1
    <2>2. Memory!SetAddress(a)
        BY <2>1 DEF SetPPUADDR, Memory!SetAddress
    <2> QED
        BY <2>2 DEF Memory!Next
<1>2. CASE \E n \in Increments : SetIncrement(n)
    <2>1. PICK n \in Increments : SetIncrement(n)
        BY <1>2
    <2>2. Memory!SetIncrement(n)
        BY <2>1 DEF SetIncrement, Memory!SetIncrement
    <2> QED
        BY <2>2 DEF Memory!Next
<1>3. CASE \E val \in Values : WritePPUDATA(val)
    BY <1>3, WriteIsMapped DEF Memory!Next
<1>4. CASE ReadPPUDATA(FALSE)
    BY <1>4, ReadIsMapped DEF Memory!Next
<1>5. CASE \E m \in Switches : SetMirroring(m)
    <2>1. PICK m \in Switches : SetMirroring(m)
        BY <1>5
    <2>2. Memory!Rewire(m) /\ m \in Memory!Wirings
        BY <2>1, SwitchIsMapped, SameMap, BusAssumption DEF BusAssumption
    <2> QED
        BY <2>2 DEF Memory!Next
<1>6. CASE UNCHANGED <<group, video, out>>
    BY <1>6 DEF video, Memory!vars
<1>7. CASE group # "video" /\ UNCHANGED <<group, video>>
    BY <1>7 DEF video, Memory!vars
<1>8. \/ \E a \in Addresses : SetPPUADDR(a)
      \/ \E n \in Increments : SetIncrement(n)
      \/ \E val \in Values : WritePPUDATA(val)
      \/ ReadPPUDATA(FALSE)
      \/ \E m \in Switches : SetMirroring(m)
      \/ UNCHANGED <<group, video, out>>
      \/ group # "video" /\ UNCHANGED <<group, video>>
    <2>1. ReadPPUDATA(TRUE) => UNCHANGED <<group, video, out>>
        BY DEF ReadPPUDATA, video
    <2>2. \A logged \in BOOLEAN : logged = TRUE \/ logged = FALSE
        OBVIOUS
    <2>3. (\E logged \in BOOLEAN : ReadPPUDATA(logged)) => ReadPPUDATA(TRUE) \/ ReadPPUDATA(FALSE)
        BY <2>2, Zenon
    <2>4. ASSUME \/ \E a \in CpuAddresses, val \in Values : SetByte(a, val)
                 \/ \E a \in CpuAddresses : GetByte(a)
                 \/ \E a \in 0 .. OamSize - 1 : WriteOAMADDR(a)
                 \/ \E val \in Values : WriteOAMDATA(val)
                 \/ ReadOAMDATA
                 \/ \E page \in Pages : OamDma(page)
                 \/ \E p \in Players, b \in Held : Press(p, b)
                 \/ \E on \in BOOLEAN : WriteCONTROLLER(on)
                 \/ \E p \in Players, logged \in BOOLEAN : ReadCONTROLLER(p, logged)
          PROVE  group # "video" /\ UNCHANGED <<group, video>>
        BY <2>4 DEF SetByte, GetByte, WriteOAMADDR, WriteOAMDATA, ReadOAMDATA, OamDma, Press,
                    WriteCONTROLLER, ReadCONTROLLER
    <2>5. CASE Next
        BY <2>1, <2>3, <2>4, <2>5, Zenon DEF Next
    <2>6. CASE UNCHANGED vars
        BY <2>6 DEF vars
    <2> QED
        BY <2>5, <2>6, Zenon
<1> QED
    BY <1>1, <1>2, <1>3, <1>4, <1>5, <1>6, <1>7, <1>8, Zenon

(* Behind $2007 nes_ppu keeps the memory of VideoMemory, for every program *)
(* and every cartridge whose mirroring never changes between "horizontal"  *)
(* and another: for those the model checker finds the two layouts apart    *)
(* (SwitchKeepsTables).                                                    *)
THEOREM MemoryImplemented == OneLayout => (Spec => VideoMemoryKept)
<1> SUFFICES ASSUME OneLayout PROVE Spec => VideoMemoryKept
    OBVIOUS
<1>1. Init => Memory!Init
    BY InitMemory
<1>2. TypeOK /\ [Next]_vars => [Memory!Next]_(Memory!vars)
    BY StepMemory
<1>3. Spec => []TypeOK
    BY TypeCorrect
<1> QED
    BY <1>1, <1>2, <1>3, PTL DEF Spec, VideoMemoryKept, Memory!Spec
=============================================================================
