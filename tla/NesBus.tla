------------------------------- MODULE NesBus -------------------------------
(***************************************************************************)
(* What the CPU reaches through its bus: nes_memory's mirrors and I/O      *)
(* dispatch, the data ports of nes_ppu ($2003, $2004, $2006, $2007 and OAM *)
(* DMA) and the controllers of nes_input.                                  *)
(*                                                                         *)
(* These groups share no state but the PPU's latch, which is left out; the *)
(* program of one behaviour uses one of them (a bound): RAM and dispatch   *)
(* ("cpu"), VRAM ("video"), OAM ("sprites"), controllers ("pads").         *)
(* The halves of a $2006 address are put together in PpuScroll; here the   *)
(* address arrives whole.  Addresses are the real ones; OAM is short, and  *)
(* a controller has few buttons.                                           *)
(*                                                                         *)
(* A definition whose name begins with Bug is a mistake some property      *)
(* notices when it replaces the definition after it.                       *)
(***************************************************************************)
EXTENDS VideoMap

CONSTANTS
    Addresses,      \* BOUND: VRAM addresses the program accesses, none in
                    \* $3000-$3eff; with a table, the one two further
    Values,         \* the bytes it writes
    Increments,     \* what $2007 adds to the address: {1, 32}
    OamSize,        \* bytes of OAM, and of a page (256)
    Pages,          \* RAM pages: what OAM DMA may copy
    Buttons,        \* buttons of a controller (8)
    Held,           \* button states the players produce
    CpuAddresses,   \* BOUND: CPU addresses the program accesses
    Switches        \* the mirrorings a cartridge switches between while it runs

ASSUME BusAssumption ==
    /\ \A a \in Addresses :
          /\ a \in Nat /\ (a < 12288 \/ (16128 <= a /\ a < 16384))
          /\ 8192 <= a /\ a < 10240 => a + 2048 \in Addresses
    /\ Increments \subseteq {1, 32} /\ CpuAddresses \subseteq Nat
    /\ OamSize \in Nat \ {0} /\ Buttons \in Nat \ {0}
    /\ Held \subseteq 0 .. 2 ^ Buttons - 1 /\ 0 \in Held
    /\ \A page \in Pages : page \in [0 .. OamSize - 1 -> Values]
    /\ Switches \subseteq Wirings

Players == {0, 1}
Bit(n, i) == (n \div 2 ^ i) % 2

VARIABLES
    group,          \* BOUND: the ports this behaviour uses
    mirroring,      \* _mirroring_flags
    vram,           \* _vram, where Addresses lead
    ppuAddr,        \* _ppu_addr
    addrInc,        \* _ppu_addr_inc
    readBuf,        \* _vram_read_buf
    oam, oamAddr,   \* _oam, _oam_addr
    strobe,         \* _strobe_on
    flags,          \* _button_flags
    buttonId,       \* _button_id
    held,           \* what the players hold down
    polled,         \* history: what they held when a strobe last ended
    ram,            \* nes_memory::_ram, where CpuAddresses lead
    told,           \* history: what the program last wrote, by address
    port,           \* history: the I/O register last accessed
    out             \* the byte the last read gave the CPU

video   == <<mirroring, vram, ppuAddr, addrInc, readBuf>>
sprites == <<oam, oamAddr>>
pads    == <<strobe, flags, buttonId, held, polled>>
cpu     == <<ram, told, port>>
vars    == <<group, video, sprites, pads, cpu, out>>

-----------------------------------------------------------------------------
(* nes_memory: where an access to a CPU address goes. *)

BugRedirectCpu(a) ==
    IF a < 8192 THEN a % 2048 ELSE IF a < 16384 THEN 8192 + (a % 16) ELSE a

RedirectCpu(a) ==
    IF a < 8192 THEN a % 2048 ELSE IF a < 16384 THEN 8192 + (a % 8) ELSE a

IsIoReg(a) == a \in 8192 .. 8199 \/ a \in 16384 .. 16415

(* The addresses behind which a program finds RAM (or ROM), and where that *)
(* is kept.                                                                *)
RamAddresses == {a \in CpuAddresses : a < 8192 \/ a > 16415}
RamCells == {a \in {RedirectCpu(b) : b \in CpuAddresses} : ~IsIoReg(a)}

-----------------------------------------------------------------------------
(* nes_ppu::redirect_addr *)

BugRedirectPalette(a) == 16128 + (a % 32)

RedirectPalette(a) ==
    IF a % 32 \in {16, 20, 24, 28} THEN 16128 + (a % 16) ELSE 16128 + (a % 32)

Clear(a, i) == a - (Bit(a, i) * 2 ^ i)

Redirect(m, a) ==
    IF a \div 256 = 63 THEN RedirectPalette(a)
    ELSE IF a \div 4096 = 2 THEN
      CASE m = "vertical"   -> Clear(a, 11)
        [] m = "horizontal" -> Clear(a, 10)
        [] m = "lower"      -> Clear(Clear(a, 11), 10)
        [] m = "upper"      -> Clear(Clear(a, 11), 10) + 1024
    ELSE IF a >= 12288 THEN a - 4096
    ELSE a

VramSize == 16384
AddressSpace == 65536       \* _ppu_addr has 16 bits

ReadByte(a) == IF Redirect(mirroring, a) >= VramSize THEN 255 ELSE vram[Redirect(mirroring, a)]

(* Every address the bounds let the program reach, after redirection.      *)
Reached ==
    LET all == WithUnder(Addresses)
    IN  {Redirect(m, a) : m \in Wirings, a \in all} \cup {a \in all : a < 8192}

Init ==
    /\ group \in {"cpu", "video", "sprites", "pads"}
    /\ mirroring \in Wirings
    /\ vram = [a \in Reached |-> 0]
    /\ ppuAddr = 0 /\ addrInc = 1 /\ readBuf = 0
    /\ oam = [i \in 0 .. OamSize - 1 |-> 0] /\ oamAddr = 0
    /\ strobe = FALSE /\ flags = [p \in Players |-> 0]
    /\ buttonId = [p \in Players |-> 0]
    /\ held = [p \in Players |-> 0] /\ polled = [p \in Players |-> 0]
    /\ ram = [a \in RamCells |-> 0] /\ told = [a \in RamAddresses |-> 0] /\ port = 0
    /\ out = 0

-----------------------------------------------------------------------------
(* nes_memory::set_byte and get_byte.  A mapper's registers are reached    *)
(* from set_byte too: they are in Cartridge.                               *)

(* Two addresses of one byte of RAM.                                       *)
SameByte(a, b) == a = b \/ (a < 8192 /\ b < 8192 /\ a % 2048 = b % 2048)

SetByte(a, val) ==
    LET r == RedirectCpu(a)
    IN  /\ group = "cpu"
        /\ IF IsIoReg(r) THEN port' = r /\ UNCHANGED ram
           ELSE ram' = [ram EXCEPT ![r] = val] /\ UNCHANGED port
        /\ told' = [b \in RamAddresses |-> IF SameByte(a, b) THEN val ELSE told[b]]
        /\ UNCHANGED <<group, video, sprites, pads, out>>

GetByte(a) ==
    LET r == RedirectCpu(a)
    IN  /\ group = "cpu"
        /\ IF IsIoReg(r) THEN port' = r /\ UNCHANGED out
           ELSE out' = ram[r] /\ UNCHANGED port
        /\ UNCHANGED <<group, video, sprites, pads, ram, told>>

-----------------------------------------------------------------------------
(* $2006, $2000 and $2007 *)

SetPPUADDR(a) ==
    /\ group = "video"
    /\ ppuAddr' = a
    /\ UNCHANGED <<group, mirroring, vram, addrInc, readBuf, sprites, pads, out, cpu>>

SetIncrement(n) ==
    /\ group = "video"
    /\ addrInc' = n
    /\ UNCHANGED <<group, mirroring, vram, ppuAddr, readBuf, sprites, pads, out, cpu>>

WritePPUDATA(val) ==
    /\ group = "video" /\ ppuAddr \in Addresses
    /\ vram' = IF Redirect(mirroring, ppuAddr) >= VramSize THEN vram
               ELSE [vram EXCEPT ![Redirect(mirroring, ppuAddr)] = val]
    /\ ppuAddr' = ppuAddr + addrInc
    /\ UNCHANGED <<group, mirroring, addrInc, readBuf, sprites, pads, out, cpu>>

(* The trace peeks at the operand of an instruction before that runs,      *)
(* through the same handlers.  nes_ppu_protect is to leave no mark on the  *)
(* data port; nothing protects a controller.                               *)
ReadPPUDATA(logged) ==
    /\ group = "video" /\ ppuAddr \in Addresses
    /\ LET new == ReadByte(ppuAddr)
           val == IF IsPalette(ppuAddr) THEN new ELSE readBuf
       IN  /\ out' = IF logged THEN out ELSE val
           /\ IF logged THEN UNCHANGED <<readBuf, ppuAddr>>
              ELSE /\ readBuf' = IF IsPalette(ppuAddr) THEN ReadByte(Under(ppuAddr)) ELSE new
                   /\ ppuAddr' = ppuAddr + addrInc
    /\ UNCHANGED <<group, mirroring, vram, addrInc, sprites, pads, cpu>>

(* A mapper register of MMC1 or MMC3: set_mirroring.                       *)
SetMirroring(m) ==
    /\ group = "video" /\ mirroring \in Switches
    /\ mirroring' = m
    /\ UNCHANGED <<group, vram, ppuAddr, addrInc, readBuf, sprites, pads, out, cpu>>

-----------------------------------------------------------------------------
(* $2003, $2004 and OAM DMA *)

WriteOAMADDR(a) ==
    /\ group = "sprites"
    /\ oamAddr' = a
    /\ UNCHANGED <<group, video, oam, pads, out, cpu>>

BugNextOam(a) == a + 1

NextOam(a) == (a + 1) % OamSize

WriteOAMDATA(val) ==
    /\ group = "sprites"
    /\ oam' = [oam EXCEPT ![oamAddr] = val]
    /\ oamAddr' = NextOam(oamAddr)
    /\ UNCHANGED <<group, video, pads, out, cpu>>

ReadOAMDATA ==
    /\ group = "sprites"
    /\ out' = oam[oamAddr]
    /\ UNCHANGED <<group, video, sprites, pads, cpu>>

(* nes_memory::get_bytes: n bytes of the page from src, to OAM from dst.   *)
GetBytes(o, page, dst, src, n) ==
    [i \in 0 .. OamSize - 1 |-> IF i \in dst .. dst + n - 1 THEN page[src + i - dst] ELSE o[i]]

BugBeforeWrap == OamSize - oamAddr - 1

BeforeWrap == OamSize - oamAddr

OamDma(page) ==
    /\ group = "sprites"
    /\ oam' = IF oamAddr = 0 THEN GetBytes(oam, page, 0, 0, OamSize)
              ELSE GetBytes(GetBytes(oam, page, oamAddr, 0, BeforeWrap),
                            page, 0, BeforeWrap, OamSize - BeforeWrap)
    /\ UNCHANGED <<group, video, oamAddr, pads, out, cpu>>

-----------------------------------------------------------------------------
(* $4016 and $4017 *)

Press(p, b) ==
    /\ group = "pads"
    /\ held' = [held EXCEPT ![p] = b]
    /\ UNCHANGED <<group, video, sprites, strobe, flags, buttonId, polled, out, cpu>>

BugEndsStrobe(on) == FALSE

EndsStrobe(on) == strobe /\ ~on

(* Either address sets the strobe of all controllers; reload() polls them. *)
WriteCONTROLLER(on) ==
    /\ group = "pads"
    /\ strobe' = on
    /\ IF EndsStrobe(on)
         THEN flags' = held /\ buttonId' = [p \in Players |-> 0]
         ELSE UNCHANGED <<flags, buttonId>>
    /\ polled' = IF strobe /\ ~on THEN held ELSE polled
    /\ UNCHANGED <<group, video, sprites, held, out, cpu>>

(* The shift count 7 - _button_id is negative from the ninth read on: the  *)
(* result is not defined.  The id is a byte; its growth is cut off here.   *)
ReadCONTROLLER(p, logged) ==
    LET now == IF strobe THEN held ELSE flags
        id  == IF strobe THEN [q \in Players |-> 0] ELSE buttonId
    IN  /\ group = "pads"
        /\ flags' = now
        /\ buttonId' = [id EXCEPT ![p] = IF @ < Buttons THEN @ + 1 ELSE @]
        /\ out' \in IF logged THEN {out}
                    ELSE IF id[p] < Buttons THEN {Bit(now[p], Buttons - 1 - id[p])} ELSE {0, 1}
        /\ UNCHANGED <<group, video, sprites, strobe, held, polled, cpu>>

-----------------------------------------------------------------------------
Next ==
    \/ \E a \in CpuAddresses, val \in Values : SetByte(a, val)
    \/ \E a \in CpuAddresses : GetByte(a)
    \/ \E a \in Addresses : SetPPUADDR(a)
    \/ \E n \in Increments : SetIncrement(n)
    \/ \E val \in Values : WritePPUDATA(val)
    \/ \E logged \in BOOLEAN : ReadPPUDATA(logged)
    \/ \E m \in Switches : SetMirroring(m)
    \/ \E a \in 0 .. OamSize - 1 : WriteOAMADDR(a)
    \/ \E val \in Values : WriteOAMDATA(val)
    \/ ReadOAMDATA
    \/ \E page \in Pages : OamDma(page)
    \/ \E p \in Players, b \in Held : Press(p, b)
    \/ \E on \in BOOLEAN : WriteCONTROLLER(on)
    \/ \E p \in Players, logged \in BOOLEAN : ReadCONTROLLER(p, logged)

Spec == Init /\ [][Next]_vars

-----------------------------------------------------------------------------
TypeOK ==
    /\ group \in {"cpu", "video", "sprites", "pads"} /\ mirroring \in Wirings
    /\ vram \in [Reached -> Values \cup {0}]
    /\ ppuAddr \in Nat /\ ppuAddr < AddressSpace /\ addrInc \in {1, 32}
    /\ readBuf \in Values \cup {0, 255} /\ out \in Values \cup {0, 1, 255}
    /\ oam \in [0 .. OamSize - 1 -> Values \cup {0}] /\ oamAddr \in 0 .. OamSize - 1
    /\ strobe \in BOOLEAN /\ flags \in [Players -> Held]
    /\ buttonId \in [Players -> 0 .. Buttons]
    /\ ram \in [RamCells -> Values \cup {0}] /\ told \in [RamAddresses -> Values \cup {0}]
    /\ port = 0 \/ IsIoReg(port)
    /\ held \in [Players -> Held] /\ polled \in [Players -> Held]

(* Through every mirror a read of RAM returns the last byte written to the *)
(* same byte through any other, and an access to $2000-$3fff or $4000-$401f *)
(* reaches the register it names: nothing falls through to memory no other *)
(* address leads to.                                                       *)
BusIsDecoded ==
    [][\A a \in CpuAddresses :
          GetByte(a) => /\ a \in 8192 .. 16383  => port' = 8192 + (a % 8)
                        /\ a \in 16384 .. 16415 => port' = a
                        /\ a \in RamAddresses   => out' = told[a]]_vars

(* Where the byte of a cell is kept under mirroring m.                     *)
Place(m, c) ==
    CASE c.kind = "pattern" -> c.at
      [] c.kind = "palette" -> 16128 + c.at
      [] c.kind = "A"       -> 8192 + c.at
      [] c.kind = "B"       -> (IF m = "horizontal" THEN 10240 ELSE 9216) + c.at

Cells == {Cell(w, a) : w \in Wirings, a \in WithUnder(Addresses)}

Contents(bytes, m) == [c \in Cells |-> bytes[Place(m, c)]]

Memory == INSTANCE VideoMemory WITH
    wiring <- mirroring, address <- ppuAddr, increment <- addrInc,
    late <- readBuf, seen <- IF group = "video" THEN out ELSE 0,
    cell <- Contents(vram, mirroring)

(* The byte array behind $2007, its address rewriting and its read buffer  *)
(* implement the video memory a program is promised: every address shows   *)
(* the byte last written to its cell, one read late but for the palette,   *)
(* traced or not.                                                          *)
VideoMemoryKept == Memory!Spec

(* OAM DMA fills OAM from OAMADDR on, round its end: wherever the program  *)
(* has left OAMADDR, byte i of the page lands i places further.            *)
DmaIsRotation ==
    [][\A page \in Pages : OamDma(page) =>
          \A i \in 0 .. OamSize - 1 : oam'[(oamAddr + i) % OamSize] = page[i]]_vars

(* The first reads of a controller after a strobe give its buttons at the  *)
(* end of the strobe, each once and in order: not what was held later, and *)
(* whatever is read of the other controller in between.  (A read by the    *)
(* trace counts: a traced program misses every button the trace has read.) *)
ButtonsOfOnePoll ==
    [][\A p \in Players :
          ~strobe /\ ReadCONTROLLER(p, FALSE) /\ buttonId'[p] > buttonId[p] =>
              out' = Bit(polled[p], Buttons - buttonId'[p])]_vars

(* nes_mapper.h:18-24: the mirroring says where tables A and B are seen.   *)
(* Switching it moves neither's content.                                   *)
SwitchKeepsTables ==
    [][mirroring' # mirroring =>
          \A a, b \in WithUnder(Addresses) :
              Cell(mirroring, a) = Cell(mirroring', b) =>
                  vram'[Redirect(mirroring', b)] = vram[Redirect(mirroring, a)]]_vars

=============================================================================
