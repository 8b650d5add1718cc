----------------------------- MODULE PpuSprites -----------------------------
(***************************************************************************)
(* Sprite evaluation of nes_ppu: fetch_sprite_pipeline, one call per dot,  *)
(* while the guest program, which runs between two dots, switches sprites  *)
(* on and off, changes their height and rewrites OAM.                      *)
(*                                                                         *)
(* On a visible line the pipeline empties the secondary OAM at dot 0,      *)
(* masks OAM reads while real hardware would clear it, evaluates one       *)
(* sprite in two dots (read its Y, then copy it if it covers the line) and *)
(* finally draws the copies, one every FetchPeriod dots.  All of it is     *)
(* skipped while sprites are off, which is what makes it hard: what a      *)
(* skipped dot would have reset is still there when sprites come back.     *)
(*                                                                         *)
(* A sprite is reduced to its number and its Y coordinate; whether a pixel *)
(* of it meets an opaque background pixel is a free choice; the picture is *)
(* in PpuPicture.  A definition whose name begins with Bug is a mistake    *)
(* some property notices when it replaces the definition after it.         *)
(***************************************************************************)
EXTENDS Integers, Sequences

CONSTANTS
    Dots,           \* dots of a scanline (341)
    Lines,          \* scanlines of a frame (262)
    VisibleLines,   \* visible scanlines (240)
    ClearEnd,       \* first dot of the evaluation (65)
    EvalEnd,        \* first dot of the fetches (257)
    FetchEnd,       \* first dot after the fetches (321)
    FetchPeriod,    \* dots from one fetch to the next (8)
    FetchPhase,     \* when in that period a sprite is drawn (4)
    SpriteMax,      \* sprites in OAM (64)
    ActiveMax,      \* sprites drawn on one line (8)
    Heights,        \* the sprite heights, 8 and 16 lines
    SpriteY         \* Y coordinates the guest uses

ASSUME SpriteAssumption ==
    /\ SpriteMax \in Nat \ {0} /\ ActiveMax \in Nat \ {0}
    /\ Heights \subseteq Nat \ {0} /\ Heights # {}
    /\ SpriteY \subseteq Nat
    /\ Lines \in Nat /\ VisibleLines \in Nat
    /\ 0 < VisibleLines /\ VisibleLines < Lines
    /\ ClearEnd \in Nat /\ ClearEnd % 2 = 1 /\ ClearEnd > 1
    /\ EvalEnd \in Nat /\ EvalEnd >= ClearEnd + 2 * SpriteMax
    /\ FetchPeriod \in Nat /\ FetchPhase \in 0 .. FetchPeriod - 1
    /\ FetchEnd = EvalEnd + FetchPeriod * ActiveMax
    /\ Dots \in Nat /\ FetchEnd < Dots

Ids == 0 .. SpriteMax - 1

VARIABLES
    line,           \* _cur_scanline
    dot,            \* _scanline_cycle
    showSprites,    \* _show_sprites
    height,         \* _sprite_height
    oam,            \* _oam: the Y coordinate of every sprite
    posY,           \* _sprite_pos_y
    buf,            \* _sprite_buf[0 .. _last_sprite_id - 1]
    hasSprite0,     \* _has_sprite_0
    overflow,       \* _sprite_overflow
    sprite0Hit,     \* _sprite_0_hit
    maskOamRead,    \* _mask_oam_read
    steady          \* history: sprites were on at dot 0 of this line and the
                    \* guest has changed nothing of theirs since

guest    == <<showSprites, height, oam>>
pipeline == <<posY, buf, hasSprite0, overflow, sprite0Hit, maskOamRead>>
vars     == <<line, dot, guest, pipeline, steady>>

Init ==
    /\ line = 0 /\ dot = 0
    /\ showSprites = FALSE /\ height \in Heights
    /\ oam \in [Ids -> SpriteY]
    /\ posY \in SpriteY             \* never initialised: any earlier content
    /\ buf = <<>> /\ hasSprite0 = FALSE /\ overflow = FALSE
    /\ sprite0Hit = FALSE /\ maskOamRead = FALSE
    /\ steady = FALSE

-----------------------------------------------------------------------------
(* What the guest may do between two dots. *)

(* write_PPUMASK, once the PPU is ready. *)
ShowSprites(on) ==
    /\ showSprites' = on
    /\ steady' = FALSE
    /\ UNCHANGED <<line, dot, height, oam, pipeline>>

(* write_PPUCTRL: the sprite size bit. *)
SetHeight(h) ==
    /\ height' = h
    /\ steady' = FALSE
    /\ UNCHANGED <<line, dot, showSprites, oam, pipeline>>

(* write_OAMDATA to the Y byte of a sprite; oam_dma is 64 of them at once. *)
WriteOAM(id, y) ==
    /\ oam' = [oam EXCEPT ![id] = y]
    /\ steady' = FALSE
    /\ UNCHANGED <<line, dot, showSprites, height, pipeline>>

(* read_OAMDATA of a Y byte, at the current position. *)
ReadOAM(id) == IF maskOamRead THEN 255 ELSE oam[id]

-----------------------------------------------------------------------------
(* The pipeline at dot d of line l. *)

BugCovers(y, h, l) == y <= l /\ l < y + 1 + h

Covers(y, h, l) == y + 1 <= l /\ l < y + 1 + h

BugResetKeepsSprite0 ==
    /\ buf' = <<>> /\ overflow' = FALSE
    /\ UNCHANGED <<posY, hasSprite0, sprite0Hit, maskOamRead>>

StartLine ==
    /\ buf' = <<>> /\ hasSprite0' = FALSE /\ overflow' = FALSE
    /\ UNCHANGED <<posY, sprite0Hit, maskOamRead>>

MaskOam ==
    /\ maskOamRead' = TRUE
    /\ UNCHANGED <<posY, buf, hasSprite0, overflow, sprite0Hit>>

BugReadYStillMasked(id) ==
    /\ posY' = oam[id]
    /\ UNCHANGED <<buf, hasSprite0, overflow, sprite0Hit, maskOamRead>>

ReadY(id) ==
    /\ maskOamRead' = FALSE
    /\ posY' = oam[id]
    /\ UNCHANGED <<buf, hasSprite0, overflow, sprite0Hit>>

BugIsFull == Len(buf) > ActiveMax

IsFull == Len(buf) >= ActiveMax

BugLastSlotOverflows(id) ==
    LET inRange == Covers(posY, height, line)
    IN  /\ maskOamRead' = FALSE
        /\ hasSprite0' = (hasSprite0 \/ (inRange /\ id = 0))
        /\ overflow' = (overflow \/ (inRange /\ Len(buf) >= ActiveMax - 1))
        /\ buf' = IF inRange /\ ~IsFull THEN Append(buf, [id |-> id, y |-> oam[id]]) ELSE buf
        /\ UNCHANGED <<posY, sprite0Hit>>

CopyIfInRange(id) ==
    LET inRange == Covers(posY, height, line)
    IN  /\ maskOamRead' = FALSE
        /\ hasSprite0' = (hasSprite0 \/ (inRange /\ id = 0))
        /\ overflow' = (overflow \/ (inRange /\ IsFull))
        /\ buf' = IF inRange /\ ~IsFull THEN Append(buf, [id |-> id, y |-> oam[id]]) ELSE buf
        /\ UNCHANGED <<posY, sprite0Hit>>

BugFirstSlotHits(i, overlap) ==
    /\ i < Len(buf)
    /\ sprite0Hit' = (sprite0Hit \/ (overlap /\ i = 0))
    /\ UNCHANGED <<posY, buf, hasSprite0, overflow, maskOamRead>>

(* fetch_sprite: a pixel of the sprite in slot i (from 0) is opaque where  *)
(* the background is (overlap).                                            *)
Draw(i, overlap) ==
    /\ i < Len(buf)
    /\ sprite0Hit' = (sprite0Hit \/ (overlap /\ hasSprite0 /\ i = 0))
    /\ UNCHANGED <<posY, buf, hasSprite0, overflow, maskOamRead>>

(* The row of its tile the sprite in slot i is drawn from, before flipping.*)
(* C's remainder has the sign of the dividend.                             *)
TileRow(i) ==
    LET d == line - buf[i + 1].y - 1
    IN  IF d >= 0 THEN d % height ELSE (256 - ((-d) % height)) % 256

(* Which fetch dot d is. *)
FetchSlot(d) == (d - EvalEnd) \div FetchPeriod
IsFetch(d) == (d - EvalEnd) % FetchPeriod = FetchPhase

PipelineOn(l, d, overlap) ==
    \/ d = 0 /\ StartLine
    \/ d \in 1 .. ClearEnd - 1 /\ MaskOam
    \/ \E id \in Ids :
          \/ d = ClearEnd + 2 * id /\ ReadY(id)
          \/ d = ClearEnd + 2 * id + 1 /\ CopyIfInRange(id)
    \/ /\ d \in ClearEnd + 2 * SpriteMax .. EvalEnd - 1      \* past OAM: only unmasks
       /\ maskOamRead' = FALSE
       /\ UNCHANGED <<posY, buf, hasSprite0, overflow, sprite0Hit>>
    \/ d \in EvalEnd .. FetchEnd - 1 /\ IsFetch(d) /\ Draw(FetchSlot(d), overlap)
    \/ /\ d \in EvalEnd .. FetchEnd - 1
       /\ ~(IsFetch(d) /\ FetchSlot(d) < Len(buf))
       /\ UNCHANGED pipeline
    \/ d >= FetchEnd /\ UNCHANGED pipeline

-----------------------------------------------------------------------------
(* One pass of the loop of nes_ppu::step_to. *)

(* The second dot of the pre-render line ends a sprite 0 hit. *)
BlankLine(l, d) ==
    IF l = Lines - 1 /\ d = 1
      THEN /\ sprite0Hit' = FALSE
           /\ UNCHANGED <<posY, buf, hasSprite0, overflow, maskOamRead>>
      ELSE UNCHANGED pipeline

(* No sprite is drawn on line 0, whose evaluation would need line -1. *)
RunsPipeline(l) == l \in 1 .. VisibleLines - 1 /\ showSprites

BugNextLine(d) == IF d = 0 THEN line + 1 ELSE line

NextLine(d) == IF d = 0 THEN (line + 1) % Lines ELSE line

Tick(overlap) ==
    LET d == (dot + 1) % Dots
        l == NextLine(d)
    IN  /\ dot' = d /\ line' = l
        /\ IF RunsPipeline(l) THEN PipelineOn(l, d, overlap) ELSE BlankLine(l, d)
        /\ steady' = IF d = 0 THEN RunsPipeline(l) ELSE steady
        /\ UNCHANGED guest

Next ==
    \/ \E overlap \in BOOLEAN : Tick(overlap)
    \/ \E on \in BOOLEAN : ShowSprites(on)
    \/ \E h \in Heights : SetHeight(h)
    \/ \E id \in Ids, y \in SpriteY : WriteOAM(id, y)

Spec == Init /\ [][Next]_vars

-----------------------------------------------------------------------------
TypeOK ==
    /\ line \in 0 .. Lines - 1 /\ dot \in 0 .. Dots - 1
    /\ showSprites \in BOOLEAN /\ height \in Heights
    /\ oam \in [Ids -> SpriteY] /\ posY \in SpriteY
    /\ buf \in Seq([id : Ids, y : SpriteY])
    /\ hasSprite0 \in BOOLEAN /\ overflow \in BOOLEAN
    /\ sprite0Hit \in BOOLEAN /\ maskOamRead \in BOOLEAN
    /\ steady \in BOOLEAN

(* _sprite_buf has room for 8 sprites and no check on the writes: whatever *)
(* the guest switches between two dots, no copy lands outside it.          *)
BufferBounded == Len(buf) <= ActiveMax

(* The sprites of OAM the evaluation has been through by now, and those of *)
(* a set S that the hardware shows on this line.                           *)
Evaluated == {id \in Ids : ClearEnd + 2 * id + 1 <= dot}
OnLine(S) == {id \in S : line - oam[id] \in 1 .. height}

(* What evaluation promises: on a line the guest leaves alone, the buffer  *)
(* holds the first sprites of OAM that cover the line, in OAM order, and   *)
(* the flag says whether sprite 0 is one of them.                          *)
Copied(id) == \E i \in 1 .. Len(buf) : buf[i].id = id

CopiesAreFound ==
    \A i \in 1 .. Len(buf) : buf[i].id \in OnLine(Evaluated) /\ buf[i].y = oam[buf[i].id]
CopiesInOrder ==
    \A i, j \in 1 .. Len(buf) : i < j => buf[i].id < buf[j].id
NoneMissed ==
    \A id \in OnLine(Evaluated) :
        \/ Copied(id)
        \/ Len(buf) = ActiveMax /\ buf[ActiveMax].id < id
Sprite0Noticed == hasSprite0 <=> 0 \in OnLine(Evaluated)

EvaluationIsRight ==
    steady => /\ CopiesAreFound /\ CopiesInOrder /\ NoneMissed
              /\ Sprite0Noticed

(* On such a line the overflow flag, if it is not up yet, goes up with the *)
(* first sprite that is left out and with nothing else.  How long it stays *)
(* is OverflowLasts below.                                                 *)
LeftOut == \E id \in OnLine(Evaluated) : ~Copied(id)

OverflowIsRight ==
    [][steady /\ steady' /\ ~overflow => (overflow' <=> LeftOut')]_vars

(* On such a line every sprite drawn is drawn from a row of its own tile.  *)
RowInTile == steady => \A i \in 1 .. Len(buf) : TileRow(i - 1) \in 0 .. height - 1

(* On such a line OAM reads are masked exactly at the dots in which the    *)
(* secondary OAM is cleared.  Dot 0 is left out: a mask that sprites       *)
(* switched off in the middle of an earlier line left behind is still      *)
(* there.                                                                  *)
MaskWindow == steady /\ dot > 0 => (maskOamRead <=> dot < ClearEnd)

(* On a line the guest leaves alone, only sprite 0 itself sets the hit     *)
(* flag; and it is latched until the second dot of the pre-render line: no *)
(* evaluation, switch or new line takes it back.                           *)
HitFlagIsRight ==
    [][/\ steady /\ ~sprite0Hit /\ sprite0Hit' => buf[1].id = 0
       /\ sprite0Hit /\ ~sprite0Hit' => line' = Lines - 1 /\ dot' = 1]_vars

(* nes_ppu.h:74: "Set when a nonzero pixel of sprite 0 overlaps".          *)
AnyHitIsBySprite0 ==
    [][~sprite0Hit /\ sprite0Hit' => buf[1].id = 0]_vars

(* nes_ppu.h:71: the overflow flag is "set during sprite evaluation and    *)
(* clear at dot 1 of pre-render line".                                     *)
OverflowLasts ==
    [][overflow /\ ~overflow' => line' = Lines - 1 /\ dot' = 1]_vars

=============================================================================
