----------------------------- MODULE PpuScroll -----------------------------
(***************************************************************************)
(* The background pipeline of nes_ppu and the registers that steer it.     *)
(*                                                                         *)
(* One address register (v, _ppu_addr) serves three masters: the guest     *)
(* reads and writes video memory through it, the picture is scrolled by    *)
(* it, and the fetches of the pipeline advance it.  The guest sets its     *)
(* shadow (t, _temp_ppu_addr) in two-part writes to $2005 and $2006, which *)
(* share one toggle; the PPU copies parts of t into v at fixed dots.       *)
(*                                                                         *)
(* A tile takes TileW dots and four memory accesses: its index, its        *)
(* palette, and the two planes of one of its rows.  What the accesses      *)
(* return is reduced to where they were made, and a pixel to where it      *)
(* comes from and where it goes.  The guest runs between two dots, at the  *)
(* beam positions of Slots and at most MaxWrites times: both are bounds.   *)
(* A definition whose name begins with Bug is a mistake some property      *)
(* notices when it replaces the definition after it.                       *)
(***************************************************************************)
EXTENDS Integers

CONSTANTS
    TileW,          \* dots and pixels of a tile's row (8)
    TileH,          \* rows of a tile (8)
    Cols,           \* tiles across a name table, and the screen (32)
    Rows,           \* rows of tiles in a name table, and on the screen (30)
    RowCodes,       \* values of the row field of an address (32)
    LowByte,        \* addresses a low byte tells apart (256)
    PrefetchAt,     \* last dot before the prefetch (320)
    Dots,           \* dots of a scanline (341)
    Lines,          \* scanlines of a frame (262)
    ScrollBytes,    \* bytes the guest writes to $2005
    HighBytes,      \* bytes the guest writes to $2006, first (bits 6-7 dropped)
    LowBytes,       \* bytes the guest writes to $2006, second
    Increments,     \* what $2007 adds to v: {1, 32}
    Slots,          \* BOUND: <<line, dot>> where the guest may act
    MaxWrites       \* BOUND: how often

ScreenW == Cols * TileW
ScreenH == Rows * TileH
Access  == TileW \div 4         \* dots from one memory access to the next

ASSUME ScrollAssumption ==
    /\ TileW \in Nat \ {0} /\ TileW % 4 = 0
    /\ TileH \in Nat \ {0} /\ Cols \in Nat \ {0}
    /\ Rows \in Nat \ {0} /\ RowCodes \in Nat /\ RowCodes >= Rows
    /\ LowByte \in Nat \ {0}
    /\ PrefetchAt \in Nat /\ Dots \in Nat /\ Lines \in Nat
    /\ PrefetchAt > ScreenW /\ PrefetchAt + 2 * TileW < Dots
    /\ ScreenH + 1 < Lines
    /\ \A val \in ScrollBytes :
          val \in Nat /\ val \div TileW < Cols /\ val \div TileH < RowCodes
    /\ HighBytes \subseteq Nat /\ LowBytes \subseteq Nat /\ Increments \subseteq Nat
    /\ MaxWrites \in Nat

(* Addresses: yyy NN YYYYY XXXXX.  Bit 15 of v, which only $2007 can set,  *)
(* takes no part in any fetch and is left out.                             *)
Address == [fine : 0 .. TileH - 1, nty : 0 .. 1, ntx : 0 .. 1,
            row : 0 .. RowCodes - 1, col : 0 .. Cols - 1]

Word(a) == a.col + Cols * (a.row + RowCodes * (a.ntx + 2 * (a.nty + 2 * a.fine)))

AddressOf(n) ==
    [col  |-> n % Cols,
     row  |-> (n \div Cols) % RowCodes,
     ntx  |-> (n \div (Cols * RowCodes)) % 2,
     nty  |-> (n \div (2 * Cols * RowCodes)) % 2,
     fine |-> (n \div (4 * Cols * RowCodes)) % TileH]

Zero == AddressOf(0)

VARIABLES
    line, dot,      \* _cur_scanline, _scanline_cycle
    ready,          \* is_ready()
    showBg,         \* _show_bg
    showSprites,    \* _show_sprites
    v, t,           \* _ppu_addr, _temp_ppu_addr
    fineX,          \* _fine_x_scroll
    scrollY,        \* _scroll_y
    toggle,         \* _addr_toggle
    addrInc,        \* _ppu_addr_inc
    xOffset,        \* _x_offset
    index,          \* where _tile_index was read
    palette,        \* where _tile_palette_bit32 was read
    plane0,         \* the tile row _bitplane0 was read from
    steadyLine,     \* history: background on and its registers left alone since
                    \* the last horizontal reset
    steadyFrame,    \* history: the same since the frame began, with t a
                    \* position that $2005 has set
    writes          \* accesses the guest has made

beam    == <<line, dot>>
mask    == <<showBg, showSprites>>
scroll  == <<t, fineX, scrollY, toggle>>
tile    == <<index, palette, plane0>>
history == <<steadyLine, steadyFrame>>
vars    == <<beam, ready, mask, v, scroll, addrInc, xOffset, tile, history, writes>>

Init ==
    /\ line = 0 /\ dot = 0 /\ ready = FALSE
    /\ showBg = FALSE /\ showSprites = FALSE
    /\ v = Zero /\ t = Zero /\ fineX = 0 /\ scrollY = 0
    /\ toggle = FALSE /\ addrInc = 1
    /\ xOffset \in {0, ScreenW - 1}         \* never initialised
    /\ index = Zero /\ palette = Zero /\ plane0 = 0
    /\ steadyLine = FALSE /\ steadyFrame = FALSE /\ writes = 0

-----------------------------------------------------------------------------
(* The guest: one access to a PPU register. *)

GuestActs ==
    /\ <<line, dot>> \in Slots /\ writes < MaxWrites
    /\ writes' = writes + 1
    /\ UNCHANGED <<beam, ready, xOffset, tile>>

Disturb == steadyLine' = FALSE /\ steadyFrame' = FALSE

WritePPUCTRL(x, y, inc) ==
    /\ GuestActs /\ ready
    /\ t' = [t EXCEPT !.ntx = x, !.nty = y]
    /\ addrInc' = inc
    /\ Disturb /\ UNCHANGED <<mask, v, fineX, scrollY, toggle>>

WritePPUMASK(bg, sprites) ==
    /\ GuestActs /\ ready
    /\ showBg' = bg /\ showSprites' = sprites
    /\ Disturb /\ UNCHANGED <<v, scroll, addrInc>>

ReadPPUSTATUS ==
    /\ GuestActs
    /\ toggle' = FALSE
    /\ UNCHANGED <<mask, v, t, fineX, scrollY, addrInc, history>>

WritePPUSCROLL(val) ==
    /\ GuestActs /\ ready
    /\ toggle' = ~toggle
    /\ IF toggle
         THEN /\ t' = [t EXCEPT !.row = val \div TileH, !.fine = val % TileH]
              /\ scrollY' = val /\ UNCHANGED fineX
         ELSE /\ t' = [t EXCEPT !.col = val \div TileW]
              /\ fineX' = val % TileW /\ UNCHANGED scrollY
    /\ Disturb /\ UNCHANGED <<mask, v, addrInc>>

(* Unlike $2005, $2006 is obeyed before the PPU is ready. *)
WritePPUADDR(high, low) ==
    /\ GuestActs
    /\ toggle' = ~toggle
    /\ t' = IF toggle THEN AddressOf((Word(t) \div LowByte) * LowByte + low)
                      ELSE AddressOf(LowByte * high + (Word(t) % LowByte))
    /\ v' = IF toggle THEN t' ELSE v
    /\ Disturb /\ UNCHANGED <<mask, fineX, scrollY, addrInc>>

(* read_PPUDATA and write_PPUDATA: all they do to v. *)
AccessPPUDATA ==
    /\ GuestActs
    /\ v' = AddressOf(Word(v) + addrInc)
    /\ Disturb /\ UNCHANGED <<mask, scroll, addrInc>>

(* What is not obeyed before the PPU is ready changes nothing. *)
Guest ==
    \/ \E x, y \in 0 .. 1, inc \in Increments : WritePPUCTRL(x, y, inc)
    \/ \E bg, sprites \in BOOLEAN : WritePPUMASK(bg, sprites)
    \/ ReadPPUSTATUS
    \/ \E val \in ScrollBytes : WritePPUSCROLL(val)
    \/ \E high \in HighBytes, low \in LowBytes : WritePPUADDR(high, low)
    \/ AccessPPUDATA

-----------------------------------------------------------------------------
(* fetch_tile.  src counts the dots spent on the tiles of a line; its      *)
(* first two tiles are fetched at the end of the line before.              *)

Prefetching(d) == d > PrefetchAt

Source(d) ==
    IF Prefetching(d) THEN d - (PrefetchAt + 1) ELSE d - 1 + 2 * TileW

BugTargetLine(l, d) == l

(* The line a dot fetches for. *)
TargetLine(l, d) == IF Prefetching(d) THEN (l + 1) % ScreenH ELSE l

TileRow(l, d) == (TargetLine(l, d) + scrollY) % TileH

AccessIs(n, d) == Source(d) % TileW = n * Access
TileNo(d) == Source(d) \div TileW

(* With a fine X scroll a line takes part of one more tile. *)
Wanted(n) == n < Cols \/ (n = Cols /\ fineX > 0)

Draws(d) == AccessIs(3, d) /\ Wanted(TileNo(d))

(* The pixels of a tile that are drawn, from its left. *)
FirstPixel(d) == IF TileNo(d) = 0 THEN fineX ELSE 0
EndPixel(d) == IF fineX > 0 /\ TileNo(d) = Cols THEN fineX ELSE TileW

BugColumnRunsOn(a) == [a EXCEPT !.col = @ + 1]

BugNextColumn(a) ==
    IF a.col = Cols - 1 THEN [a EXCEPT !.col = 0] ELSE [a EXCEPT !.col = @ + 1]

NextColumn(a) ==
    IF a.col = Cols - 1
      THEN [a EXCEPT !.col = 0, !.ntx = 1 - @]
      ELSE [a EXCEPT !.col = @ + 1]

(* Rows beyond the name table are the attribute tables; row RowCodes - 1   *)
(* carries into the name table bits.                                       *)
NextRow(a) ==
    IF a.fine # TileH - 1
      THEN [a EXCEPT !.fine = @ + 1]
    ELSE IF a.row = Rows - 1
      THEN [a EXCEPT !.fine = 0, !.row = 0, !.nty = 1 - @]
    ELSE AddressOf(Word([a EXCEPT !.fine = 0]) + Cols)

FetchTile(l, d) ==
    /\ index' = IF AccessIs(0, d) THEN v ELSE index
    /\ palette' = IF AccessIs(1, d) THEN v ELSE palette
    /\ plane0' = IF AccessIs(2, d) THEN TileRow(l, d) ELSE plane0
    /\ xOffset' = IF Draws(d) THEN (xOffset + EndPixel(d) - FirstPixel(d)) % ScreenW
                              ELSE xOffset
    /\ LET a == IF Draws(d) THEN NextColumn(v) ELSE v
       IN  v' = IF d = ScreenW THEN NextRow(a) ELSE a

HorizontalReset ==
    /\ v' = [v EXCEPT !.col = t.col, !.ntx = t.ntx]
    /\ xOffset' = 0
    /\ UNCHANGED tile

Fetches(d) == d \in 1 .. ScreenW \/ d \in PrefetchAt + 1 .. PrefetchAt + 2 * TileW

(* fetch_tile_pipeline *)
Pipeline(l, d) ==
    \/ Fetches(d) /\ FetchTile(l, d)
    \/ d = ScreenW + 1 /\ HorizontalReset
    \/ ~Fetches(d) /\ d # ScreenW + 1 /\ UNCHANGED <<v, xOffset, tile>>

BugTopOfFrame(l, d) == l = Lines - 1 /\ d = 0

(* The pre-render line takes v from t, unless rendering is off. *)
TopOfFrame(l, d) == l = Lines - 1 /\ d = 0 /\ (showBg \/ showSprites)

(* A scroll position: t as the last two writes to $2005 have left it. *)
ScrollIsSet == t.row < Rows /\ t.row * TileH + t.fine = scrollY

(* One pass of the loop of nes_ppu::step_to.  The PPU is ready some time   *)
(* after power on.                                                         *)
Tick ==
    LET d == (dot + 1) % Dots
        l == IF d = 0 THEN (line + 1) % Lines ELSE line
        on == showBg /\ l < ScreenH
    IN  /\ dot' = d /\ line' = l
        /\ ready' \in {ready, TRUE}
        /\ \/ on /\ Pipeline(l, d)
           \/ ~on /\ TopOfFrame(l, d) /\ v' = t /\ UNCHANGED <<xOffset, tile>>
           \/ ~on /\ ~TopOfFrame(l, d) /\ UNCHANGED <<v, xOffset, tile>>
        /\ steadyLine' = (steadyLine \/ (on /\ d = ScreenW + 1))
        /\ steadyFrame' = IF TopOfFrame(l, d) THEN showBg /\ ScrollIsSet ELSE steadyFrame
        /\ UNCHANGED <<mask, scroll, addrInc, writes>>

Next == Tick \/ Guest

Spec == Init /\ [][Next]_vars

-----------------------------------------------------------------------------
TypeOK ==
    /\ line \in 0 .. Lines - 1 /\ dot \in 0 .. Dots - 1
    /\ ready \in BOOLEAN /\ showBg \in BOOLEAN /\ showSprites \in BOOLEAN
    /\ v \in Address /\ t \in Address /\ index \in Address /\ palette \in Address
    /\ fineX \in 0 .. TileW - 1 /\ scrollY \in Nat /\ plane0 \in 0 .. TileH - 1
    /\ toggle \in BOOLEAN /\ addrInc \in Increments \cup {1}
    /\ xOffset \in 0 .. ScreenW - 1
    /\ steadyLine \in BOOLEAN /\ steadyFrame \in BOOLEAN /\ writes \in 0 .. MaxWrites

(* The world is the four name tables, two by two.                          *)
WorldX(a) == (a.ntx * Cols + a.col) * TileW
WorldY(a) == (a.nty * Rows + a.row) * TileH

(* This step draws a tile of the background, for line l. *)
DrawsFor(l) ==
    /\ line' < ScreenH /\ dot' # dot /\ showBg
    /\ Fetches(dot') /\ Draws(dot')
    /\ TargetLine(line', dot') = l

ColumnMatches ==
    (WorldX(index) + FirstPixel(dot') - (WorldX(t) + fineX + xOffset)) % (2 * ScreenW) = 0

(* Whatever the scroll position, each pixel of a line the guest leaves     *)
(* alone comes from the column of the world that lies under it, its        *)
(* palette from the same tile, across prefetch, name table edge and the    *)
(* partial tiles at both ends of the line.                                 *)
ColumnIsRight ==
    [][\A l \in 1 .. ScreenH - 1 :
          steadyLine /\ DrawsFor(l) => ColumnMatches /\ palette = index]_vars

(* The same for the line of the world, in a frame the guest leaves alone:  *)
(* tile row, name table and the row inside the tile, which is taken from   *)
(* _scroll_y while v counts its own.                                       *)
RowIsRight ==
    [][\A l \in 1 .. ScreenH - 1 :
          steadyFrame /\ DrawsFor(l) =>
              /\ (WorldY(index) + plane0 - (WorldY(t) + t.fine + l)) % (2 * ScreenH) = 0
              /\ plane0 = TileRow(line', dot')]_vars

(* nes_ppu.cpp:528-529: while rendering is off the PPU leaves v, through   *)
(* which the guest is filling video memory, alone.                         *)
DataPortUndisturbed == [][dot' # dot /\ ~showBg /\ ~showSprites => v' = v]_vars

(* nes_ppu.cpp:146 and :152: the prefetch is "for next scanline", whose    *)
(* other tiles "account for" it; also for the first line.                  *)
FirstLineToo ==
    [][steadyFrame /\ steadyLine /\ ~Prefetching(dot') /\ DrawsFor(0) => ColumnMatches]_vars

=============================================================================
