----------------------------- MODULE PpuPicture -----------------------------
(***************************************************************************)
(* How nes_ppu paints a picture: the pixels of background tiles and of     *)
(* sprites in one linear buffer, the palette indices of the background in  *)
(* another, and the two frame buffers that change places at the end of a   *)
(* frame.                                                                  *)
(*                                                                         *)
(* Nothing clears a buffer.  A picture is whole because its tiles happen   *)
(* to fill it: every line by the tiles of its own dots after the two that  *)
(* were fetched at the end of the line before, at an x offset that only    *)
(* wraps; line 0 by those two tiles of the last line and the rest at the   *)
(* offset they leave.  A sprite near the right edge runs on into the next  *)
(* row.  The guest switches background and sprites and moves the fine X    *)
(* scroll between any two dots.                                            *)
(*                                                                         *)
(* A dot of this module is one at which something is drawn or reset: the   *)
(* last access of each tile (dots 7, 15, ... 255), the reset (dot 257),    *)
(* a sprite (261, 269, ... 317) and the two tiles of the prefetch (327,    *)
(* 335).  Colours are left out: a pixel is who drew it.  Which sprites are *)
(* on a line, and which of their pixels are opaque and in front, is any    *)
(* choice (PpuSprites evaluates them).  A definition whose name begins     *)
(* with Bug is a mistake some property notices when it replaces the        *)
(* definition after it.                                                    *)
(***************************************************************************)
EXTENDS Integers

CONSTANTS
    TileW,          \* pixels of a row of a tile or a sprite (8)
    Cols,           \* tiles across the screen (32)
    Rows,           \* lines of the picture (240)
    ActiveMax,      \* sprites drawn on one line (8)
    SpriteX,        \* x coordinates of sprites
    FineXs,         \* fine X scrolls the guest uses
    MaxWrites,      \* BOUND: how often the guest writes
    MaxSprites      \* BOUND: how many sprites are drawn

Width == Cols * TileW

ASSUME PictureAssumption ==
    /\ TileW \in Nat \ {0} /\ Cols \in Nat /\ Cols > 2 /\ Rows \in Nat /\ Rows > 1
    /\ ActiveMax \in Nat
    /\ SpriteX \subseteq 0 .. Width - 1
    /\ FineXs \subseteq 0 .. TileW - 1 /\ 0 \in FineXs
    /\ MaxWrites \in Nat /\ MaxSprites \in Nat

(* A pixel is its row and its column.  frame_addr counts them on from one  *)
(* row to the next: after the last column of a row comes the first of the  *)
(* next.                                                                   *)
Pixels      == (0 .. Rows - 1) \X (0 .. Width - 1)
PixelAt(r, c) == IF c < Width THEN <<r, c>> ELSE <<r + 1, c - Width>>

(* The dots of a line.  Tile n is drawn at dot n - 1.                      *)
ResetDot    == Cols
SpriteDots  == Cols + 1 .. Cols + ActiveMax
PrefetchDot(n) == Cols + ActiveMax + 1 + n          \* of tile n, 0 or 1
LastDot     == PrefetchDot(1)

(* Who drew a pixel, as far as the frame being drawn knows: an earlier     *)
(* frame, the background, a sprite in its own row, or one that ran over    *)
(* the right edge of the row above.                                        *)
Marks == {"old", "bg", "sprite", "spill"}

VARIABLES
    line,           \* _cur_scanline; Rows stands for all lines after the picture
    dot,            \* the last dot done
    showBg,         \* _show_bg
    showSprites,    \* _show_sprites
    fineX,          \* _fine_x_scroll
    xOffset,        \* _x_offset
    picture,        \* _frame_buffer, the buffer that is drawn in
    shown,          \* frame_buffer(), the other one
    fresh,          \* history: where _frame_buffer_bg is of this frame
    steadyLine,     \* history: background shown since the reset of this line
    steady,         \* history: background shown and fine X unchanged in this
                    \* frame, and since the last line of the one before
    prepared,       \* history: the same since the last line of this frame
    wholeShown,     \* history: steady, of the frame that is now shown
    writes, sprites \* how many there were

guest   == <<showBg, showSprites, fineX, writes>>
history == <<steadyLine, steady, prepared, wholeShown>>
canvas  == <<xOffset, picture, fresh>>
vars    == <<line, dot, guest, canvas, shown, history, sprites>>

Init ==
    /\ line = 0 /\ dot = 0
    /\ showBg = FALSE /\ showSprites = FALSE /\ fineX = 0
    /\ xOffset \in 0 .. Width - 1           \* never initialised
    /\ picture = [p \in Pixels |-> "old"] /\ shown = picture
    /\ fresh = {}
    /\ steadyLine = FALSE /\ steady = FALSE /\ prepared = FALSE /\ wholeShown = FALSE
    /\ writes = 0 /\ sprites = 0

-----------------------------------------------------------------------------
(* The guest, between two dots, once the PPU is ready. *)

WritePPUMASK(bg, spr) ==
    /\ writes < MaxWrites /\ writes' = writes + 1
    /\ showBg' = bg /\ showSprites' = spr
    /\ UNCHANGED <<line, dot, fineX, canvas, shown, history, sprites>>

(* The first write to $2005. *)
WritePPUSCROLL(x) ==
    /\ writes < MaxWrites /\ writes' = writes + 1
    /\ fineX' = x
    /\ steady' = FALSE /\ prepared' = FALSE
    /\ UNCHANGED <<line, dot, showBg, showSprites, canvas, shown, steadyLine, wholeShown, sprites>>

-----------------------------------------------------------------------------
(* The background *)

BugWanted(n) == n < Cols
BugEndPixel(n) == IF fineX > 0 /\ n = Cols THEN fineX - 1 ELSE TileW

(* The first pixel of a tile that is drawn, and the one after its last.    *)
FirstPixel(n) == IF n = 0 THEN fineX ELSE 0
EndPixel(n) == IF fineX > 0 /\ n = Cols THEN fineX ELSE TileW
Wanted(n) == n < Cols \/ (n = Cols /\ fineX > 0)

(* How many pixels tile n draws. *)
PixelsOf(n) == IF Wanted(n) THEN EndPixel(n) - FirstPixel(n) ELSE 0

BugWrapped(x) == x

(* The offset has 8 bits, the width of the screen. *)
Wrapped(x) == IF x < Width THEN x ELSE x - Width

(* The next n pixels of row r. *)
Strip(r, n) == {PixelAt(r, Wrapped(xOffset + i)) : i \in 0 .. n - 1}

Painted(S, mark) == [p \in Pixels |-> IF p \in S THEN mark ELSE picture[p]]

DrawTile(r, n) ==
    /\ picture' = Painted(Strip(r, PixelsOf(n)), "bg")
    /\ fresh' = fresh \cup Strip(r, PixelsOf(n))
    /\ xOffset' = Wrapped(xOffset + PixelsOf(n))

BugPrefetchRow(l) == l

(* The row the prefetch of line l draws in. *)
PrefetchRow(l) == IF l + 1 < Rows THEN l + 1 ELSE 0

(* fetch_tile_pipeline at dot d *)
Background(d) ==
    \/ d < ResetDot /\ DrawTile(line, d + 1)
    \/ d = ResetDot /\ xOffset' = 0 /\ UNCHANGED <<picture, fresh>>
    \/ d \in SpriteDots /\ UNCHANGED canvas
    \/ \E n \in 0 .. 1 : d = PrefetchDot(n) /\ DrawTile(PrefetchRow(line), n)

-----------------------------------------------------------------------------
(* Sprites *)

(* Where the pixels of a sprite at x fall: beyond the right edge they are  *)
(* in the next row, beyond the last row nowhere.                           *)
SpritePixels(x) == {PixelAt(line, x + i) : i \in 0 .. TileW - 1} \cap Pixels

(* fetch_sprite draws those of its pixels, S, that are opaque and in front.*)
DrawSprite(S) ==
    /\ sprites < MaxSprites /\ sprites' = sprites + 1
    /\ picture' = [p \in Pixels |-> IF p \notin S THEN picture[p]
                                    ELSE IF p[1] = line THEN "sprite" ELSE "spill"]
    /\ UNCHANGED <<xOffset, fresh>>

(* fetch_sprite_pipeline: line 0 has no sprites. *)
MayDrawSprite(d) == showSprites /\ line > 0 /\ d \in SpriteDots

-----------------------------------------------------------------------------
(* One pass of the loop of nes_ppu::step_to that draws something. *)

DrawDot ==
    LET d == dot + 1
    IN  /\ line < Rows /\ dot < LastDot /\ dot' = d
        /\ \/ /\ MayDrawSprite(d)
              /\ \E x \in SpriteX : \E S \in SUBSET SpritePixels(x) : S # {} /\ DrawSprite(S)
           \/ showBg /\ Background(d) /\ UNCHANGED sprites
           \/ ~showBg /\ UNCHANGED <<canvas, sprites>>
        /\ steadyLine' = IF d = ResetDot THEN showBg ELSE steadyLine /\ showBg
        /\ steady' = (steady /\ showBg)
        /\ prepared' = IF d = ResetDot /\ line = Rows - 1 THEN showBg ELSE prepared /\ showBg
        /\ UNCHANGED <<line, guest, shown, wholeShown>>

NextLine ==
    /\ line < Rows /\ dot = LastDot
    /\ line' = line + 1 /\ dot' = 0
    /\ UNCHANGED <<guest, canvas, shown, history, sprites>>

(* swap_buffer, after the last line of the frame.  What the buffer holds   *)
(* that is drawn in from now on is of an earlier frame.                    *)
SwapBuffer ==
    /\ line = Rows
    /\ line' = 0
    /\ shown' = picture /\ picture' = [p \in Pixels |-> "old"]
    /\ fresh' = {}
    /\ steady' = prepared /\ prepared' = FALSE /\ steadyLine' = FALSE
    /\ wholeShown' = steady
    /\ UNCHANGED <<dot, guest, xOffset, sprites>>

Next ==
    \/ DrawDot
    \/ NextLine
    \/ SwapBuffer
    \/ \E bg, spr \in BOOLEAN : WritePPUMASK(bg, spr)
    \/ \E x \in FineXs : WritePPUSCROLL(x)

Spec == Init /\ [][Next]_vars

-----------------------------------------------------------------------------
TypeOK ==
    /\ line \in 0 .. Rows /\ dot \in 0 .. LastDot
    /\ showBg \in BOOLEAN /\ showSprites \in BOOLEAN /\ fineX \in FineXs
    /\ xOffset \in 0 .. Width - 1
    /\ picture \in [Pixels -> Marks] /\ shown \in [Pixels -> Marks]
    /\ fresh \subseteq Pixels
    /\ steadyLine \in BOOLEAN /\ steady \in BOOLEAN
    /\ prepared \in BOOLEAN /\ wholeShown \in BOOLEAN
    /\ writes \in 0 .. MaxWrites /\ sprites \in 0 .. MaxSprites

(* The pixels of a sprite beyond the right edge never reach the screen:    *)
(* where the background is shown to the end of the line, its prefetch      *)
(* draws over them, whatever the fine X scroll and its changes.            *)
SpillIsCovered ==
    steadyLine /\ dot = LastDot /\ line < Rows - 1 =>
        \A c \in 0 .. Width - 1 : picture[<<line + 1, c>>] # "spill"

(* A picture whose background was shown throughout is all of its own       *)
(* frame: no pixel is left of an older picture in the same buffer and none *)
(* is a sprite's of another row, line 0 included, whatever the fine X.     *)
PictureIsWhole ==
    wholeShown => \A p \in Pixels : shown[p] \in {"bg", "sprite"}

(* In such a frame, while the sprites of a line are drawn, the background  *)
(* recorded at the pixels of a sprite in its own row is of this picture,   *)
(* and at those beyond the right edge it never is: the prefetch that draws *)
(* there comes after the last sprite.                                      *)
OldBeyondEdge ==
    steady /\ line \in 1 .. Rows - 1 /\ dot \in ResetDot .. PrefetchDot(0) - 1 =>
        \A x \in SpriteX : SpritePixels(x) \cap fresh = {p \in SpritePixels(x) : p[1] = line}

(* nes_ppu.h:74: sprite 0 hits "Set when a nonzero pixel of sprite 0       *)
(* overlaps a nonzero background pixel".  So every pixel a sprite may draw *)
(* has to be compared with the background of this picture.                 *)
SpritesMeetThisPicture ==
    steady /\ line < Rows /\ MayDrawSprite(dot + 1) =>
        \A x \in SpriteX : SpritePixels(x) \subseteq fresh

=============================================================================
