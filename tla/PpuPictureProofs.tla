--------------------------- MODULE PpuPictureProofs ---------------------------
(***************************************************************************)
(* Proofs, for a screen of any size, any fine X scroll and any series of   *)
(* writes between dots, that the tiles fill the picture although nothing   *)
(* clears it, and that no sprite shows beyond the right edge.              *)
(***************************************************************************)
EXTENDS PpuPicture, TLAPS

(* The numbers of the screen. *)
LEMMA Numbers ==
  /\ TileW \in Nat /\ TileW > 0 /\ Cols \in Nat /\ Cols > 2 /\ Rows \in Nat /\ Rows > 1
  /\ ActiveMax \in Nat
  /\ Width \in Nat /\ 3 * TileW <= Width
  /\ \A f \in FineXs : f \in 0 .. TileW - 1
  /\ \A x \in SpriteX : x \in 0 .. Width - 1
  <1>1. TileW \in Nat /\ TileW > 0 /\ Cols \in Nat /\ Cols > 2
    BY PictureAssumption
  <1>2. Width \in Nat
    BY <1>1 DEF Width
  <1>3. 3 * TileW <= Width
    <2> DEFINE k == Cols - 3
    <2>1. k \in Nat /\ Cols = k + 3
      BY <1>1
    <2> HIDE DEF k
    <2>2. k * TileW \in Nat
      BY <2>1, <1>1
    <2>3. Cols * TileW = (k * TileW) + (3 * TileW)
      BY <2>1, <1>1
    <2> QED
      BY <2>2, <2>3, <1>1 DEF Width
  <1> QED
    BY <1>1, <1>2, <1>3, PictureAssumption

(* How many pixels a tile draws: the first one less by the fine X scroll,  *)
(* the one after the last makes up for it.                                 *)
LEMMA PixelsOfTile ==
  ASSUME TypeOK, NEW n \in 0 .. Cols
  PROVE  /\ PixelsOf(n) \in 0 .. TileW
         /\ PixelsOf(n) = IF n = 0 THEN TileW - fineX ELSE IF n < Cols THEN TileW ELSE fineX
  <1>1. fineX \in 0 .. TileW - 1
    BY Numbers DEF TypeOK
  <1> QED
    BY <1>1, Numbers DEF PixelsOf, Wanted, EndPixel, FirstPixel

(* What drawing a tile does to a pixel. *)
LEMMA TileType ==
  ASSUME TypeOK, NEW r \in 0 .. Rows - 1, NEW n \in 0 .. Cols, DrawTile(r, n)
  PROVE  /\ xOffset' \in 0 .. Width - 1 /\ picture' \in [Pixels -> Marks] /\ fresh' \subseteq Pixels
         /\ \A p \in Pixels : picture'[p] = "bg" \/ picture'[p] = picture[p]
  <1>1. PixelsOf(n) \in 0 .. TileW /\ xOffset \in 0 .. Width - 1
    BY PixelsOfTile DEF TypeOK
  <1>2. \A i \in 0 .. PixelsOf(n) : Wrapped(xOffset + i) \in 0 .. Width - 1
    BY <1>1, Numbers DEF Wrapped
  <1>3. Strip(r, PixelsOf(n)) \subseteq Pixels
    <2> SUFFICES ASSUME NEW i \in 0 .. PixelsOf(n) - 1
                 PROVE  PixelAt(r, Wrapped(xOffset + i)) \in Pixels
      BY DEF Strip
    <2>1. Wrapped(xOffset + i) \in 0 .. Width - 1
      BY <1>1, <1>2
    <2> QED
      BY <2>1, Numbers DEF PixelAt, Pixels
  <1>4. xOffset' \in 0 .. Width - 1
    BY <1>1, <1>2 DEF DrawTile
  <1>5. picture' = Painted(Strip(r, PixelsOf(n)), "bg")
    BY DEF DrawTile
  <1>6. picture' \in [Pixels -> Marks] /\ \A p \in Pixels : picture'[p] = "bg" \/ picture'[p] = picture[p]
    BY <1>5 DEF Painted, TypeOK, Marks
  <1>7. fresh' \subseteq Pixels
    BY <1>3 DEF DrawTile, TypeOK
  <1> QED
    BY <1>4, <1>6, <1>7

LEMMA TilePixels ==
  ASSUME TypeOK, NEW r \in 0 .. Rows - 1, NEW n \in 0 .. Cols, DrawTile(r, n),
         xOffset + PixelsOf(n) <= Width
  PROVE  /\ xOffset' = Wrapped(xOffset + PixelsOf(n))
         /\ \A q \in 0 .. Rows - 1, c \in 0 .. Width - 1 :
               /\ picture'[<<q, c>>] = IF q = r /\ c \in xOffset .. xOffset + PixelsOf(n) - 1
                                         THEN "bg" ELSE picture[<<q, c>>]
               /\ <<q, c>> \in fresh' <=> \/ <<q, c>> \in fresh
                                          \/ q = r /\ c \in xOffset .. xOffset + PixelsOf(n) - 1
  <1>1. PixelsOf(n) \in 0 .. TileW /\ xOffset \in 0 .. Width - 1
    BY PixelsOfTile DEF TypeOK
  <1>2. ASSUME NEW q \in 0 .. Rows - 1, NEW c \in 0 .. Width - 1
        PROVE  <<q, c>> \in Strip(r, PixelsOf(n))
                 <=> q = r /\ c \in xOffset .. xOffset + PixelsOf(n) - 1
    <2>1. \A i \in 0 .. PixelsOf(n) - 1 : PixelAt(r, Wrapped(xOffset + i)) = <<r, xOffset + i>>
      BY <1>1, Numbers DEF PixelAt, Wrapped
    <2>2. ASSUME q = r, c \in xOffset .. xOffset + PixelsOf(n) - 1
          PROVE  \E i \in 0 .. PixelsOf(n) - 1 : <<q, c>> = <<r, xOffset + i>>
      <3>1. c - xOffset \in 0 .. PixelsOf(n) - 1 /\ xOffset + (c - xOffset) = c
        BY <1>1, <2>2
      <3> QED
        BY <3>1, <2>2
    <2>3. ASSUME NEW i \in 0 .. PixelsOf(n) - 1, <<q, c>> = <<r, xOffset + i>>
          PROVE  q = r /\ c \in xOffset .. xOffset + PixelsOf(n) - 1
      <3>1. q = r /\ c = xOffset + i
        BY <2>3
      <3> QED
        BY <3>1, <1>1
    <2> QED
      BY <2>1, <2>2, <2>3 DEF Strip
  <1>3. \A q \in 0 .. Rows - 1, c \in 0 .. Width - 1 : <<q, c>> \in Pixels
    BY DEF Pixels
  <1> QED
    BY <1>2, <1>3 DEF DrawTile, Painted

(* Which tile a dot draws, and where. *)
LEMMA TileOfDot ==
  ASSUME TypeOK, line < Rows, NEW d \in 1 .. LastDot, Background(d)
  PROVE  \/ d < ResetDot /\ DrawTile(line, d + 1)
         \/ d = ResetDot /\ xOffset' = 0 /\ UNCHANGED <<picture, fresh>>
         \/ d > ResetDot /\ d < PrefetchDot(0) /\ UNCHANGED canvas
         \/ d = PrefetchDot(0) /\ DrawTile(PrefetchRow(line), 0)
         \/ d = PrefetchDot(1) /\ DrawTile(PrefetchRow(line), 1)
  <1>1. 0 .. 1 = {0, 1}
    OBVIOUS
  <1> QED
    BY <1>1, Numbers DEF Background, SpriteDots, PrefetchDot, ResetDot

LEMMA RowsAndTiles ==
  ASSUME TypeOK, line < Rows
  PROVE  /\ line \in 0 .. Rows - 1 /\ PrefetchRow(line) \in 0 .. Rows - 1
         /\ \A d \in 1 .. ResetDot - 1 : d + 1 \in 0 .. Cols
         /\ 0 \in 0 .. Cols /\ 1 \in 0 .. Cols
  BY Numbers DEF TypeOK, PrefetchRow, ResetDot

LEMMA PixelBeyond ==
  ASSUME NEW r \in Int, NEW c \in Int, ~(c < Width)
  PROVE  PixelAt(r, c) = <<r + 1, c - Width>>
  BY DEF PixelAt

(* What drawing a sprite does to a pixel: the rows it reaches are its own  *)
(* and the start of the next.                                              *)
LEMMA SpriteDraws ==
  ASSUME TypeOK, line < Rows, NEW x \in SpriteX, NEW S \in SUBSET SpritePixels(x), DrawSprite(S)
  PROVE  /\ picture' \in [Pixels -> Marks] /\ UNCHANGED <<xOffset, fresh>>
         /\ sprites' \in 0 .. MaxSprites
         /\ \A q \in 0 .. Rows - 1, c \in 0 .. Width - 1 :
               \/ picture'[<<q, c>>] = picture[<<q, c>>]
               \/ q = line /\ picture'[<<q, c>>] = "sprite"
               \/ q = line + 1 /\ c < TileW - 1 /\ picture'[<<q, c>>] = "spill"
  <1>1. x \in 0 .. Width - 1 /\ line \in 0 .. Rows - 1 /\ Width \in Nat /\ TileW \in Nat
    BY Numbers DEF TypeOK
  <1>2. ASSUME NEW q \in 0 .. Rows - 1, NEW c \in 0 .. Width - 1
        PROVE  \/ picture'[<<q, c>>] = picture[<<q, c>>]
               \/ q = line /\ picture'[<<q, c>>] = "sprite"
               \/ q = line + 1 /\ c < TileW - 1 /\ picture'[<<q, c>>] = "spill"
    <2>1. <<q, c>> \in Pixels /\ <<q, c>>[1] = q
      BY DEF Pixels
    <2>2. picture'[<<q, c>>] = IF <<q, c>> \notin S THEN picture[<<q, c>>]
                               ELSE IF q = line THEN "sprite" ELSE "spill"
      BY <2>1 DEF DrawSprite
    <2>3. ASSUME <<q, c>> \in S, q # line PROVE q = line + 1 /\ c < TileW - 1
      <3>1. PICK i \in 0 .. TileW - 1 : <<q, c>> = PixelAt(line, x + i)
        BY <2>3 DEF SpritePixels
      <3>2. ~(x + i < Width)
        <4>1. x + i < Width => <<q, c>> = <<line, x + i>>
          BY <3>1 DEF PixelAt
        <4> QED
          BY <4>1, <2>3
      <3>3. <<q, c>> = <<line + 1, x + i - Width>>
        <4>1. PixelAt(line, x + i) = <<line + 1, x + i - Width>>
          BY <3>2, <1>1, PixelBeyond
        <4> QED
          BY <3>1, <4>1
      <3>4. q = line + 1 /\ c = x + i - Width
        BY <3>3
      <3> QED
        BY <3>4, <1>1
    <2> QED
      BY <2>2, <2>3
  <1>3. picture' \in [Pixels -> Marks]
    BY DEF DrawSprite, TypeOK, Marks
  <1>4. sprites' \in 0 .. MaxSprites
    BY PictureAssumption DEF DrawSprite, TypeOK
  <1> QED
    BY <1>2, <1>3, <1>4 DEF DrawSprite

(* What a dot does to the canvas: nothing, the background, or a sprite.    *)
LEMMA DotDraws ==
  ASSUME TypeOK, DrawDot
  PROVE  LET d == dot + 1
         IN  /\ line < Rows /\ d \in 1 .. LastDot /\ dot' = d /\ dot \in Nat
             /\ \/ /\ line > 0 /\ d > ResetDot /\ d < PrefetchDot(0)
                   /\ \E x \in SpriteX : \E S \in SUBSET SpritePixels(x) : DrawSprite(S)
                \/ showBg /\ Background(d) /\ UNCHANGED sprites
                \/ ~showBg /\ UNCHANGED <<canvas, sprites>>
  <1>1. dot \in Nat /\ LastDot \in Nat /\ PrefetchDot(0) \in Nat
    BY Numbers DEF TypeOK, LastDot, PrefetchDot
  <1>2. dot + 1 \in SpriteDots => dot + 1 > ResetDot /\ dot + 1 < PrefetchDot(0)
    BY <1>1, Numbers DEF SpriteDots, ResetDot, PrefetchDot
  <1> QED
    BY <1>1, <1>2 DEF DrawDot, MayDrawSprite

-----------------------------------------------------------------------------
LEMMA InitTypes == Init => TypeOK
  <1> SUFFICES ASSUME Init PROVE TypeOK
    OBVIOUS
  <1>1. picture \in [Pixels -> Marks] /\ shown \in [Pixels -> Marks]
    BY DEF Init, Marks
  <1>2. line \in 0 .. Rows /\ dot \in 0 .. LastDot
    BY Numbers DEF Init, LastDot, PrefetchDot
  <1>3. fineX \in FineXs /\ writes \in 0 .. MaxWrites /\ sprites \in 0 .. MaxSprites
    BY PictureAssumption DEF Init
  <1> QED
    BY <1>1, <1>2, <1>3 DEF Init, TypeOK

CanvasOK ==
  /\ xOffset \in 0 .. Width - 1 /\ picture \in [Pixels -> Marks]
  /\ fresh \subseteq Pixels /\ sprites \in 0 .. MaxSprites

LEMMA StepTypes == TypeOK /\ [Next]_vars => TypeOK'
  <1> SUFFICES ASSUME TypeOK, [Next]_vars PROVE TypeOK'
    OBVIOUS
  <1>1. CASE DrawDot
    <2>1. line' \in 0 .. Rows /\ dot' \in 0 .. LastDot
      BY <1>1, DotDraws DEF DrawDot, TypeOK
    <2>2. CanvasOK'
      <3>1. ASSUME NEW x \in SpriteX, NEW S \in SUBSET SpritePixels(x), DrawSprite(S), line < Rows
            PROVE  CanvasOK'
        BY <3>1, SpriteDraws DEF TypeOK, CanvasOK
      <3>2. ASSUME Background(dot + 1), UNCHANGED sprites, line < Rows, dot + 1 \in 1 .. LastDot
            PROVE  CanvasOK'
        <4>1. CanvasOK
          BY DEF TypeOK, CanvasOK
        <4>2. ASSUME NEW r \in 0 .. Rows - 1, NEW n \in 0 .. Cols, DrawTile(r, n)
              PROVE  CanvasOK'
          BY <4>1, <4>2, <3>2, TileType DEF CanvasOK
        <4>3. xOffset' = 0 /\ UNCHANGED <<picture, fresh>> => CanvasOK'
          BY <4>1, <3>2, Numbers DEF CanvasOK
        <4>4. UNCHANGED canvas => CanvasOK'
          BY <4>1, <3>2 DEF CanvasOK, canvas
        <4>5. /\ line \in 0 .. Rows - 1 /\ PrefetchRow(line) \in 0 .. Rows - 1
              /\ 0 \in 0 .. Cols /\ 1 \in 0 .. Cols
              /\ dot + 1 < ResetDot => dot + 1 + 1 \in 0 .. Cols
          BY <3>2, RowsAndTiles, Numbers DEF ResetDot
        <4> QED
          BY <4>2, <4>3, <4>4, <4>5, <3>2, TileOfDot
      <3>3. UNCHANGED <<canvas, sprites>> => CanvasOK'
        BY DEF CanvasOK, TypeOK, canvas
      <3> QED
        BY <1>1, <3>1, <3>2, <3>3, DotDraws
    <2> QED
      BY <2>1, <2>2, <1>1 DEF DrawDot, TypeOK, CanvasOK, guest
  <1>2. CASE NextLine
    <2>1. line' \in 0 .. Rows /\ dot' \in 0 .. LastDot
      BY <1>2, Numbers DEF NextLine, TypeOK, LastDot, PrefetchDot
    <2> QED
      BY <2>1, <1>2 DEF NextLine, TypeOK, guest, canvas, history
  <1>3. CASE SwapBuffer
    <2>1. line' \in 0 .. Rows /\ picture' \in [Pixels -> Marks]
      BY <1>3, Numbers DEF SwapBuffer, Marks
    <2> QED
      BY <2>1, <1>3 DEF SwapBuffer, TypeOK, guest
  <1>4. ASSUME NEW bg \in BOOLEAN, NEW spr \in BOOLEAN, WritePPUMASK(bg, spr) PROVE TypeOK'
    <2>1. writes' \in 0 .. MaxWrites
      BY <1>4, PictureAssumption DEF WritePPUMASK, TypeOK
    <2> QED
      BY <2>1, <1>4 DEF WritePPUMASK, TypeOK, canvas, history
  <1>5. ASSUME NEW x \in FineXs, WritePPUSCROLL(x) PROVE TypeOK'
    <2>1. writes' \in 0 .. MaxWrites
      BY <1>5, PictureAssumption DEF WritePPUSCROLL, TypeOK
    <2> QED
      BY <2>1, <1>5 DEF WritePPUSCROLL, TypeOK, canvas
  <1>6. CASE UNCHANGED vars
    BY <1>6 DEF vars, guest, canvas, history, TypeOK
  <1> QED
    BY <1>1, <1>2, <1>3, <1>4, <1>5, <1>6 DEF Next

(* Every variable keeps its range; no tile and no sprite is drawn outside  *)
(* the picture.                                                            *)
THEOREM TypeCorrect == Spec => []TypeOK
  <1> QED
    BY InitTypes, StepTypes, PTL DEF Spec

-----------------------------------------------------------------------------
(* No sprite beyond the right edge. *)

(* Pixels that ran over the edge are at the start of a row, one column     *)
(* less than a tile is wide.  From the reset on the offset is 0, so the    *)
(* first tile of the prefetch leaves it at least 1, whatever the fine X,   *)
(* and the second, which is drawn whole, covers the rest.                  *)
NoSpillBefore(n) == \A c \in 0 .. n - 1 : picture[<<line + 1, c>>] # "spill"

SpillAtStart ==
  \A q \in 0 .. Rows - 1, c \in 0 .. Width - 1 : picture[<<q, c>>] = "spill" => c < TileW - 1

SpillInv ==
  /\ SpillAtStart
  /\ steadyLine /\ line < Rows =>
       /\ dot >= ResetDot /\ dot < PrefetchDot(0) => xOffset = 0
       /\ dot = PrefetchDot(0) => /\ xOffset \in 1 .. TileW
                                  /\ line < Rows - 1 => NoSpillBefore(xOffset)
       /\ dot = PrefetchDot(1) /\ line < Rows - 1 => NoSpillBefore(TileW)

LEMMA SpillTile ==
  ASSUME TypeOK, SpillInv, line < Rows, NEW r \in 0 .. Rows - 1, NEW n \in 0 .. Cols, DrawTile(r, n)
  PROVE  SpillAtStart'
  <1>1. \A q \in 0 .. Rows - 1, c \in 0 .. Width - 1 : <<q, c>> \in Pixels
    BY DEF Pixels
  <1>2. \A p \in Pixels : picture'[p] = "bg" \/ picture'[p] = picture[p]
    BY TileType
  <1> QED
    BY <1>1, <1>2 DEF SpillInv, SpillAtStart

LEMMA SpillDot == TypeOK /\ SpillInv /\ DrawDot => SpillInv'
  <1> SUFFICES ASSUME TypeOK, SpillInv, DrawDot PROVE SpillInv'
    OBVIOUS
  <1> DEFINE d == dot + 1
  <1>1. /\ line < Rows /\ d \in 1 .. LastDot /\ dot' = d /\ dot \in Nat /\ line' = line
        /\ steadyLine' = IF d = ResetDot THEN showBg ELSE steadyLine /\ showBg
    BY DotDraws DEF DrawDot
  <1>2. /\ ResetDot \in Nat /\ PrefetchDot(0) \in Nat /\ LastDot = PrefetchDot(0) + 1
        /\ PrefetchDot(1) = LastDot /\ ResetDot < PrefetchDot(0)
    BY Numbers DEF ResetDot, PrefetchDot, LastDot
  <1>3. \A q \in 0 .. Rows - 1, c \in 0 .. Width - 1 : <<q, c>> \in Pixels
    BY DEF Pixels
  <1>4. /\ line \in 0 .. Rows - 1
        /\ line < Rows - 1 => line + 1 \in 0 .. Rows - 1 /\ PrefetchRow(line) = line + 1
    BY <1>1, Numbers DEF TypeOK, PrefetchRow
  <1>8. d # ResetDot /\ steadyLine' => steadyLine
    BY DEF DrawDot
  <1>9. d = dot + 1
    OBVIOUS
  <1> HIDE DEF d
  <1>5. ASSUME line > 0, d > ResetDot, d < PrefetchDot(0),
               NEW x \in SpriteX, NEW S \in SUBSET SpritePixels(x), DrawSprite(S)
        PROVE  SpillInv'
    <2>1. /\ xOffset' = xOffset
          /\ \A q \in 0 .. Rows - 1, c \in 0 .. Width - 1 :
               \/ picture'[<<q, c>>] = picture[<<q, c>>]
               \/ q = line /\ picture'[<<q, c>>] = "sprite"
               \/ q = line + 1 /\ c < TileW - 1 /\ picture'[<<q, c>>] = "spill"
      BY <1>1, <1>5, SpriteDraws
    <2>2. SpillAtStart'
      BY <2>1 DEF SpillInv, SpillAtStart
    <2>3. steadyLine' => steadyLine
      <3>1. d # ResetDot
        BY <1>2, <1>5
      <3> QED
        BY <3>1, <1>8
    <2>4. dot >= ResetDot /\ dot < PrefetchDot(0)
      BY <1>1, <1>2, <1>5 DEF d
    <2> QED
      BY <2>1, <2>2, <2>3, <2>4, <1>1, <1>2, <1>5 DEF SpillInv
  <1>6. ASSUME showBg, Background(d) PROVE SpillInv'
    <2>1. CASE d < ResetDot /\ DrawTile(line, d + 1)
      <3>1. line \in 0 .. Rows - 1 /\ d + 1 \in 0 .. Cols
        BY <1>1, <2>1, Numbers DEF TypeOK, ResetDot
      <3>2. SpillAtStart'
        BY <1>1, <2>1, <3>1, SpillTile
      <3> QED
        BY <3>2, <2>1, <1>1, <1>2 DEF SpillInv
    <2>2. CASE d = ResetDot /\ xOffset' = 0 /\ UNCHANGED <<picture, fresh>>
      BY <2>2, <1>1, <1>2 DEF SpillInv, SpillAtStart
    <2>3. CASE d > ResetDot /\ d < PrefetchDot(0) /\ UNCHANGED canvas
      <3>1. dot >= ResetDot /\ dot < PrefetchDot(0) /\ d # ResetDot
        BY <1>1, <1>2, <1>9, <2>3
      <3>2. steadyLine' => steadyLine
        BY <3>1, <1>8
      <3> QED
        BY <3>1, <3>2, <2>3, <1>1, <1>2 DEF SpillInv, SpillAtStart, canvas
    <2>4. CASE d = PrefetchDot(0) /\ DrawTile(PrefetchRow(line), 0)
      <3>1. SpillAtStart'
        BY <1>1, <2>4, RowsAndTiles, SpillTile
      <3>2. ASSUME steadyLine'
            PROVE  /\ xOffset' \in 1 .. TileW
                   /\ line < Rows - 1 => NoSpillBefore(xOffset)'
        <4>0. dot >= ResetDot /\ dot < PrefetchDot(0) /\ d # ResetDot
          BY <1>1, <1>2, <1>9, <2>4
        <4>1. xOffset = 0
          <5>1. steadyLine
            BY <3>2, <4>0, <1>8
          <5> QED
            BY <5>1, <4>0, <1>1 DEF SpillInv
        <4>2. PixelsOf(0) \in 1 .. TileW
          BY PixelsOfTile, Numbers DEF TypeOK
        <4>3. /\ xOffset + PixelsOf(0) < Width /\ xOffset + PixelsOf(0) <= Width
              /\ xOffset + PixelsOf(0) = PixelsOf(0)
          BY <4>1, <4>2, Numbers
        <4>4. xOffset' = PixelsOf(0)
          <5>1. xOffset' = Wrapped(xOffset + PixelsOf(0))
            BY <2>4 DEF DrawTile
          <5> QED
            BY <5>1, <4>3 DEF Wrapped
        <4>5. ASSUME line < Rows - 1, NEW c \in 0 .. PixelsOf(0) - 1
              PROVE  picture'[<<line + 1, c>>] = "bg"
          <5>1. PrefetchRow(line) = line + 1 /\ line + 1 \in 0 .. Rows - 1
            BY <4>5, <1>4
          <5>2. c \in 0 .. Width - 1 /\ c \in xOffset .. xOffset + PixelsOf(0) - 1 /\ 0 \in 0 .. Cols
            BY <4>1, <4>2, <4>5, Numbers
          <5>3. DrawTile(line + 1, 0)
            BY <5>1, <2>4
          <5>4. picture'[<<line + 1, c>>] = IF c \in xOffset .. xOffset + PixelsOf(0) - 1
                                              THEN "bg" ELSE picture[<<line + 1, c>>]
            BY <5>1, <5>2, <5>3, <4>3, TilePixels
          <5> QED
            BY <5>2, <5>4
        <4> QED
          BY <4>2, <4>4, <4>5, <1>1 DEF NoSpillBefore
      <3> QED
        BY <3>1, <3>2, <2>4, <1>1, <1>2 DEF SpillInv
    <2>5. CASE d = PrefetchDot(1) /\ DrawTile(PrefetchRow(line), 1)
      <3>1. SpillAtStart'
        BY <1>1, <2>5, RowsAndTiles, SpillTile
      <3>2. ASSUME steadyLine', line < Rows - 1, NEW c \in 0 .. TileW - 1
            PROVE  picture'[<<line + 1, c>>] # "spill"
        <4>0. dot = PrefetchDot(0) /\ d # ResetDot
          BY <1>1, <1>2, <1>9, <2>5
        <4>1. dot = PrefetchDot(0) /\ steadyLine
          BY <3>2, <4>0, <1>8
        <4>2. xOffset \in 1 .. TileW /\ NoSpillBefore(xOffset)
          BY <4>1, <3>2, <1>1 DEF SpillInv
        <4>3. PixelsOf(1) = TileW /\ 1 \in 0 .. Cols
          BY PixelsOfTile, Numbers
        <4>4. xOffset + PixelsOf(1) <= Width
          BY <4>2, <4>3, Numbers
        <4>5. PrefetchRow(line) = line + 1 /\ line + 1 \in 0 .. Rows - 1
          BY <3>2, <1>4
        <4>6. c \in 0 .. Width - 1
          BY Numbers
        <4>7. picture'[<<line + 1, c>>] = IF c \in xOffset .. xOffset + TileW - 1
                                            THEN "bg" ELSE picture[<<line + 1, c>>]
          BY <4>3, <4>4, <4>5, <4>6, <2>5, TilePixels
        <4>8. c \in xOffset .. xOffset + TileW - 1 \/ c \in 0 .. xOffset - 1
          BY <4>2, Numbers
        <4> QED
          BY <4>2, <4>7, <4>8 DEF NoSpillBefore
      <3> QED
        BY <3>1, <3>2, <2>5, <1>1, <1>2 DEF SpillInv, NoSpillBefore
    <2> QED
      BY <2>1, <2>2, <2>3, <2>4, <2>5, <1>1, <1>6, TileOfDot
  <1>7. ASSUME ~showBg, UNCHANGED canvas PROVE SpillInv'
    BY <1>1, <1>7 DEF SpillInv, SpillAtStart, canvas
  <1> QED
    BY <1>5, <1>6, <1>7, DotDraws DEF d

LEMMA SpillStep == TypeOK /\ SpillInv /\ [Next]_vars => SpillInv'
  <1> SUFFICES ASSUME TypeOK, SpillInv, [Next]_vars PROVE SpillInv'
    OBVIOUS
  <1> USE DEF SpillInv, SpillAtStart, NoSpillBefore
  <1>1. CASE DrawDot
    BY <1>1, SpillDot
  <1>2. CASE NextLine
    <2>1. ~(0 >= ResetDot) /\ 0 # PrefetchDot(0) /\ 0 # PrefetchDot(1)
      BY Numbers DEF ResetDot, PrefetchDot
    <2> QED
      BY <2>1, <1>2 DEF NextLine, canvas
  <1>3. CASE SwapBuffer
    <2>1. \A q \in 0 .. Rows - 1, c \in 0 .. Width - 1 : picture'[<<q, c>>] = "old"
      BY <1>3 DEF SwapBuffer, Pixels
    <2> QED
      BY <2>1, <1>3 DEF SwapBuffer
  <1>4. CASE UNCHANGED <<line, dot, canvas, steadyLine>>
    BY <1>4 DEF canvas
  <1> QED
    BY <1>1, <1>2, <1>3, <1>4 DEF Next, WritePPUMASK, WritePPUSCROLL, history, vars

(* The pixels of a sprite beyond the right edge never reach the screen     *)
(* where the background is shown to the end of the line, for a screen and  *)
(* tiles of any size (fetch_sprite, fetch_tile_pipeline).                  *)
THEOREM SpillCovered == Spec => []SpillIsCovered
  <1>1. Init => SpillInv
    <2>1. Init => \A q \in 0 .. Rows - 1, c \in 0 .. Width - 1 : picture[<<q, c>>] = "old"
      BY DEF Init, Pixels
    <2> QED
      BY <2>1 DEF Init, SpillInv, SpillAtStart
  <1>2. TypeOK /\ SpillInv => SpillIsCovered
    <2> SUFFICES ASSUME TypeOK, SpillInv, steadyLine, dot = LastDot, line < Rows - 1,
                        NEW c \in 0 .. Width - 1, picture[<<line + 1, c>>] = "spill"
                 PROVE  FALSE
      BY DEF SpillIsCovered
    <2>1. line < Rows /\ line + 1 \in 0 .. Rows - 1
      BY Numbers DEF TypeOK
    <2>2. c < TileW - 1
      BY <2>1 DEF SpillInv, SpillAtStart
    <2>3. c \in 0 .. TileW - 1
      BY <2>2, Numbers
    <2> QED
      BY <2>1, <2>3 DEF SpillInv, NoSpillBefore, LastDot
  <1> QED
    BY <1>1, <1>2, SpillStep, TypeCorrect, PTL DEF Spec

-----------------------------------------------------------------------------
(* The tiles of a steady frame fill it. *)

(* How far the tiles of a line have come at dot d with fine X scroll f,    *)
(* where they began on line 0, where the next pixel goes, and how far into *)
(* the next row the prefetch has drawn.                                    *)
Begin(f)       == (2 * TileW) - f
Reach(d, f)    == ((d + 2) * TileW) - f
Start(r, f)    == IF r = 0 THEN Begin(f) ELSE 0
RowEnd(d, f)   == IF d <= Cols - 2 THEN Reach(d, f) ELSE Width
Ahead(d, f)    == IF d < PrefetchDot(0) THEN 0
                  ELSE IF d = PrefetchDot(0) THEN TileW - f ELSE Begin(f)
OffsetAt(d, f) == IF d <= Cols - 2 THEN Wrapped(Reach(d, f)) ELSE Ahead(d, f)

DrawnIn(pic, fr, r, lo, hi) ==
  \A c \in lo .. hi - 1 : pic[<<r, c>>] \in {"bg", "sprite"} /\ <<r, c>> \in fr

RowsDrawn(pic, fr, l, d, f) ==
  /\ \A r \in 0 .. Rows - 1 : r < l => DrawnIn(pic, fr, r, Start(r, f), Width)
  /\ l < Rows => /\ DrawnIn(pic, fr, l, Start(l, f), RowEnd(d, f))
                 /\ DrawnIn(pic, fr, PrefetchRow(l), 0, Ahead(d, f))
  /\ l = Rows => DrawnIn(pic, fr, 0, 0, Begin(f))

(* The invariant: in a steady frame, and from the reset of the last line   *)
(* before one, the offset is where it should be, and in a steady frame the *)
(* rows are drawn as far as the dot.                                       *)
FrameInv ==
  /\ line = Rows => dot = 0
  /\ prepared => (line = Rows - 1 /\ dot >= ResetDot) \/ line = Rows
  /\ steady \/ prepared => xOffset = OffsetAt(dot, fineX)
  /\ steady => RowsDrawn(picture, fresh, line, dot, fineX)
  /\ PictureIsWhole

LEMMA Reaches ==
  ASSUME NEW f \in 0 .. TileW - 1
  PROVE  /\ Begin(f) \in TileW + 1 .. Width - 1 /\ Reach(0, f) = Begin(f)
         /\ \A d \in 0 .. Cols - 3 : /\ Reach(d + 1, f) = Reach(d, f) + TileW
                                     /\ Reach(d, f) \in 0 .. Width - 1
                                     /\ Reach(d, f) + TileW <= Width
         /\ Reach(Cols - 2, f) = Width - f
  <1>1. Begin(f) \in TileW + 1 .. Width - 1 /\ Reach(0, f) = Begin(f)
    BY Numbers DEF Begin, Reach
  <1>2. Reach(Cols - 2, f) = Width - f
    BY Numbers DEF Reach, Width
  <1>3. ASSUME NEW d \in 0 .. Cols - 3
        PROVE  /\ Reach(d + 1, f) = Reach(d, f) + TileW
               /\ Reach(d, f) \in 0 .. Width - 1
               /\ Reach(d, f) + TileW <= Width
    <2>1. d + 1 + 2 = d + 3 /\ d \in Nat
      BY <1>3, Numbers
    <2>2. (d + 3) * TileW = ((d + 2) * TileW) + TileW /\ (d + 2) * TileW = (d * TileW) + (2 * TileW)
      BY <2>1, Numbers
    <2>3. (d + 3) * TileW <= Cols * TileW
      <3> DEFINE k == Cols - (d + 3)
      <3>1. k \in Nat /\ Cols = k + (d + 3)
        BY <1>3, Numbers
      <3> HIDE DEF k
      <3>2. Cols * TileW = (k * TileW) + ((d + 3) * TileW)
        BY <3>1, <2>1, Numbers
      <3>3. k * TileW \in Nat /\ (d + 3) * TileW \in Nat
        BY <3>1, <2>1, Numbers
      <3> QED
        BY <3>2, <3>3
    <2>4. d * TileW \in Nat
      BY <2>1, Numbers
    <2> QED
      BY <2>1, <2>2, <2>3, <2>4, Numbers DEF Reach, Width
  <1> QED
    BY <1>1, <1>2, <1>3

(* A tile adds its strip to what is drawn. *)
LEMMA TileAdds ==
  ASSUME TypeOK, NEW r \in 0 .. Rows - 1, NEW n \in 0 .. Cols, DrawTile(r, n),
         xOffset + PixelsOf(n) <= Width,
         NEW q \in 0 .. Rows - 1, NEW lo \in Nat, NEW hi \in 0 .. Width
  PROVE  /\ DrawnIn(picture, fresh, q, lo, hi) => DrawnIn(picture', fresh', q, lo, hi)
         /\ DrawnIn(picture, fresh, r, lo, xOffset)
              => DrawnIn(picture', fresh', r, lo, xOffset + PixelsOf(n))
  <1>1. xOffset \in 0 .. Width - 1 /\ PixelsOf(n) \in 0 .. TileW /\ Width \in Nat /\ TileW \in Nat
    BY PixelsOfTile, Numbers DEF TypeOK
  <1>2. ASSUME NEW s \in 0 .. Rows - 1, NEW c \in 0 .. Width - 1
        PROVE  picture[<<s, c>>] \in {"bg", "sprite"} /\ <<s, c>> \in fresh
                    => picture'[<<s, c>>] \in {"bg", "sprite"} /\ <<s, c>> \in fresh'
    BY TilePixels
  <1>5. \A c \in 0 .. Width - 1 : c \in xOffset .. xOffset + PixelsOf(n) - 1
          => picture'[<<r, c>>] \in {"bg", "sprite"} /\ <<r, c>> \in fresh'
    BY TilePixels
  <1>3. DrawnIn(picture, fresh, q, lo, hi) => DrawnIn(picture', fresh', q, lo, hi)
    <2>1. \A c \in lo .. hi - 1 : c \in 0 .. Width - 1
      BY <1>1
    <2> QED
      BY <1>2, <2>1 DEF DrawnIn
  <1>4. ASSUME DrawnIn(picture, fresh, r, lo, xOffset)
        PROVE  DrawnIn(picture', fresh', r, lo, xOffset + PixelsOf(n))
    <2> DEFINE hi2 == xOffset + PixelsOf(n)
    <2>1. hi2 \in 0 .. Width /\ hi2 = xOffset + PixelsOf(n)
      BY <1>1
    <2> HIDE DEF hi2
    <2>2. ASSUME NEW c \in lo .. hi2 - 1
          PROVE  picture'[<<r, c>>] \in {"bg", "sprite"} /\ <<r, c>> \in fresh'
      <3>1. c \in 0 .. Width - 1
        BY <1>1, <2>1
      <3>2. CASE c \in lo .. xOffset - 1
        <4>1. picture[<<r, c>>] \in {"bg", "sprite"} /\ <<r, c>> \in fresh
          BY <1>4, <3>2 DEF DrawnIn
        <4> QED
          BY <1>2, <3>1, <4>1
      <3>3. CASE c \in xOffset .. hi2 - 1
        <4>1. c \in xOffset .. xOffset + PixelsOf(n) - 1
          BY <1>1, <2>1, <3>3
        <4> QED
          BY <1>5, <3>1, <4>1
      <3>4. c \in lo .. xOffset - 1 \/ c \in xOffset .. hi2 - 1
        BY <1>1, <2>1
      <3> QED
        BY <3>2, <3>3, <3>4
    <2>3. DrawnIn(picture', fresh', r, lo, hi2)
      BY <2>2, Zenon DEF DrawnIn
    <2> QED
      BY <2>1, <2>3
  <1> QED
    BY <1>3, <1>4

(* A dot draws its tile where the rows were left off, or leaves them.      *)
LEMMA FrameDot == TypeOK /\ FrameInv /\ DrawDot => FrameInv'
  <1> SUFFICES ASSUME TypeOK, FrameInv, DrawDot PROVE FrameInv'
    OBVIOUS
  <1> DEFINE d == dot + 1
             f == fineX
  <1>1. /\ line < Rows /\ d \in 1 .. LastDot /\ dot' = d /\ dot \in Nat /\ line' = line
        /\ fineX' = fineX /\ line \in 0 .. Rows - 1 /\ PrefetchRow(line) \in 0 .. Rows - 1
    BY DotDraws, RowsAndTiles DEF DrawDot, guest
  <1>2. /\ ResetDot = Cols /\ PrefetchDot(0) \in Nat /\ LastDot = PrefetchDot(0) + 1
        /\ PrefetchDot(1) = LastDot /\ ResetDot < PrefetchDot(0)
    BY Numbers DEF ResetDot, PrefetchDot, LastDot
  <1>3. (steady' => steady /\ showBg) /\ (prepared' => showBg)
    BY DEF DrawDot, TypeOK
  <1>4. prepared' => prepared \/ (d = ResetDot /\ line = Rows - 1)
    BY DEF DrawDot, TypeOK
  <1>5. d = dot + 1 /\ f = fineX /\ f \in 0 .. TileW - 1
    BY Numbers DEF TypeOK
  <1> HIDE DEF d, f
  <1>6. PictureIsWhole' /\ (line' = Rows => dot' = 0)
    BY <1>1, Numbers DEF DrawDot, FrameInv, PictureIsWhole
  <1>7. prepared' => line' = Rows - 1 /\ dot' >= ResetDot
    <2>1. CASE d = ResetDot /\ line = Rows - 1
      BY <2>1, <1>1, <1>2
    <2>2. CASE prepared
      <3>1. line = Rows - 1 /\ dot >= ResetDot
        BY <2>2, <1>1, Numbers DEF FrameInv
      <3> QED
        BY <3>1, <1>1, <1>2, <1>5, Numbers
    <2> QED
      BY <2>1, <2>2, <1>4
  <1>8. SUFFICES ASSUME steady' \/ prepared'
                 PROVE  /\ xOffset' = OffsetAt(d, f)
                        /\ steady' => RowsDrawn(picture', fresh', line, d, f)
    BY <1>1, <1>5, <1>6, <1>7 DEF FrameInv
  <1>9. d # ResetDot => (steady \/ prepared) /\ xOffset = OffsetAt(dot, f)
    BY <1>3, <1>4, <1>5, <1>8 DEF FrameInv
  <1>10. steady' => RowsDrawn(picture, fresh, line, dot, f)
    BY <1>3, <1>5 DEF FrameInv
  <1>11. /\ \A r \in 0 .. Rows - 1 : Start(r, f) \in Nat
         /\ Width \in 0 .. Width /\ 0 \in Nat /\ Begin(f) \in 0 .. Width
    BY <1>5, Reaches, Numbers DEF Start
  <1>12. CASE d < ResetDot /\ showBg /\ DrawTile(line, d + 1)
    <2>1. steady' /\ steady /\ RowsDrawn(picture, fresh, line, dot, f) /\ xOffset = OffsetAt(dot, f)
      <3>1. ~(dot' >= ResetDot) /\ d # ResetDot
        BY <1>1, <1>2, <1>5, <1>12, Numbers
      <3>2. steady' /\ d # ResetDot
        BY <3>1, <1>7, <1>8, Zenon
      <3> QED
        BY <3>2, <1>3, <1>9, <1>10
    <2>2. dot \in 0 .. Cols - 2 /\ d \in 1 .. Cols - 1 /\ d + 1 \in 0 .. Cols
      BY <1>1, <1>2, <1>5, <1>12, Numbers
    <2>3. xOffset + PixelsOf(d + 1) <= Width /\ xOffset' = OffsetAt(d, f)
          /\ (dot # Cols - 2 \/ f # 0 => xOffset = RowEnd(dot, f) /\ xOffset + PixelsOf(d + 1) = RowEnd(d, f))
          /\ (dot = Cols - 2 /\ f = 0 => RowEnd(dot, f) = RowEnd(d, f))
      <3>1. xOffset = Wrapped(Reach(dot, f)) /\ xOffset' = Wrapped(xOffset + PixelsOf(d + 1))
        BY <2>1, <2>2, <1>12, Numbers DEF OffsetAt, DrawTile
      <3>2. CASE dot \in 0 .. Cols - 3
        <4>1. xOffset = Reach(dot, f) /\ Reach(d, f) = Reach(dot, f) + TileW /\ Reach(d, f) <= Width
          <5>1. /\ Reach(dot + 1, f) = Reach(dot, f) + TileW /\ Reach(dot, f) \in 0 .. Width - 1
                /\ Reach(dot, f) + TileW <= Width
            BY <3>2, <1>5, Reaches
          <5> QED
            BY <5>1, <3>1, <1>5, Numbers DEF Wrapped
        <4>2. PixelsOf(d + 1) = TileW
          BY <3>2, <1>5, <2>2, PixelsOfTile, Numbers
        <4> QED
          BY <3>1, <3>2, <4>1, <4>2, <1>5, <2>2, Numbers DEF OffsetAt, RowEnd
      <3>3. CASE dot = Cols - 2
        <4>1. Reach(dot, f) = Width - f /\ d = Cols - 1 /\ d + 1 = Cols
          BY <3>3, <1>5, Reaches, Numbers
        <4>2. PixelsOf(d + 1) = f
          BY <4>1, <1>5, <2>2, PixelsOfTile, Numbers
        <4>3. OffsetAt(d, f) = 0 /\ RowEnd(d, f) = Width /\ RowEnd(dot, f) = Width - f
          BY <4>1, <1>2, <3>3, Numbers DEF OffsetAt, RowEnd, Ahead
        <4>4. CASE f = 0
          <5>1. xOffset = 0
            BY <3>1, <4>1, <4>4, Numbers DEF Wrapped
          <5> QED
            BY <5>1, <3>1, <4>2, <4>3, <4>4, <3>3, Numbers DEF Wrapped
        <4>5. CASE f # 0
          <5>1. xOffset = Width - f
            BY <3>1, <4>1, <4>5, <1>5, Numbers DEF Wrapped
          <5> QED
            BY <5>1, <3>1, <4>2, <4>3, <4>5, <1>5, <3>3, Numbers DEF Wrapped
        <4> QED
          BY <4>4, <4>5
      <3> QED
        BY <3>2, <3>3, <2>2, Numbers
    <2>4. Ahead(d, f) = 0 /\ Ahead(dot, f) = 0
      BY <2>2, <1>2, Numbers DEF Ahead
    <2>6. \A r \in 0 .. Rows - 1 : r < line => DrawnIn(picture', fresh', r, Start(r, f), Width)
      BY <2>1, <2>2, <2>3, <1>1, <1>11, <1>12, TileAdds DEF RowsDrawn
    <2>7. DrawnIn(picture', fresh', line, Start(line, f), RowEnd(d, f))
      <3>1. DrawnIn(picture, fresh, line, Start(line, f), RowEnd(dot, f))
        BY <2>1, <1>1 DEF RowsDrawn
      <3>2. CASE dot # Cols - 2 \/ f # 0
        <4>1. DrawnIn(picture, fresh, line, Start(line, f), xOffset)
          BY <3>1, <3>2, <2>3
        <4>2. DrawnIn(picture', fresh', line, Start(line, f), xOffset + PixelsOf(d + 1))
          BY <4>1, <2>2, <2>3, <1>1, <1>11, <1>12, TileAdds
        <4> QED
          BY <4>2, <3>2, <2>3
      <3>3. CASE dot = Cols - 2 /\ f = 0
        <4>1. RowEnd(d, f) = Width /\ RowEnd(dot, f) = Width /\ Width \in 0 .. Width
          BY <3>3, <1>5, <2>3, Numbers DEF RowEnd
        <4> QED
          BY <4>1, <3>1, <2>2, <2>3, <1>1, <1>11, <1>12, TileAdds
      <3> QED
        BY <3>2, <3>3
    <2>8. DrawnIn(picture', fresh', PrefetchRow(line), 0, Ahead(d, f))
      BY <2>4 DEF DrawnIn
    <2> QED
      BY <2>3, <2>6, <2>7, <2>8, <1>1 DEF RowsDrawn
  <1>13. ASSUME UNCHANGED <<picture, fresh>>, dot >= ResetDot - 1, d < PrefetchDot(0)
         PROVE  steady' => RowsDrawn(picture', fresh', line, d, f)
    <2>1. RowEnd(d, f) = Width /\ RowEnd(dot, f) = Width /\ Ahead(d, f) = 0 /\ Ahead(dot, f) = 0
      BY <1>1, <1>2, <1>5, <1>13, Numbers DEF RowEnd, Ahead
    <2> QED
      BY <2>1, <1>1, <1>10, <1>13 DEF RowsDrawn
  <1>14. CASE d = ResetDot /\ xOffset' = 0 /\ UNCHANGED <<picture, fresh>>
    <2>1. OffsetAt(d, f) = 0
      BY <1>2, <1>14, Numbers DEF OffsetAt, Ahead
    <2>2. dot >= ResetDot - 1 /\ d < PrefetchDot(0)
      BY <1>1, <1>2, <1>5, <1>14, Numbers
    <2> QED
      BY <2>1, <2>2, <1>13, <1>14
  <1>15. ASSUME d > ResetDot, d < PrefetchDot(0), xOffset' = xOffset
         PROVE  xOffset' = OffsetAt(d, f) /\ dot >= ResetDot - 1
    <2>1. dot >= ResetDot - 1 /\ d # ResetDot
      BY <1>1, <1>2, <1>5, <1>15, Numbers
    <2>2. OffsetAt(d, f) = 0 /\ OffsetAt(dot, f) = 0
      BY <1>1, <1>2, <1>5, <1>15, Numbers DEF OffsetAt, Ahead
    <2> QED
      BY <2>1, <2>2, <1>9, <1>15
  <1>16. CASE d > ResetDot /\ d < PrefetchDot(0) /\ UNCHANGED canvas
    BY <1>13, <1>15, <1>16 DEF canvas
  <1>17. ASSUME line > 0, d > ResetDot, d < PrefetchDot(0),
                NEW x \in SpriteX, NEW S \in SUBSET SpritePixels(x), DrawSprite(S)
         PROVE  /\ xOffset' = OffsetAt(d, f)
                /\ steady' => RowsDrawn(picture', fresh', line, d, f)
    <2>1. /\ UNCHANGED <<xOffset, fresh>>
          /\ \A q \in 0 .. Rows - 1, c \in 0 .. Width - 1 :
               \/ picture'[<<q, c>>] = picture[<<q, c>>]
               \/ q = line /\ picture'[<<q, c>>] = "sprite"
               \/ q = line + 1 /\ c < TileW - 1 /\ picture'[<<q, c>>] = "spill"
      BY <1>1, <1>17, SpriteDraws
    <2>2. xOffset' = OffsetAt(d, f) /\ dot >= ResetDot - 1
      BY <2>1, <1>15, <1>17
    <2>3. RowEnd(d, f) = Width /\ RowEnd(dot, f) = Width /\ Ahead(d, f) = 0
      BY <2>2, <1>1, <1>2, <1>5, <1>17, Numbers DEF RowEnd, Ahead
    <2>4. ASSUME NEW r \in 0 .. Rows - 1, r <= line, DrawnIn(picture, fresh, r, Start(r, f), Width)
          PROVE  DrawnIn(picture', fresh', r, Start(r, f), Width)
      <3>1. r # line + 1 /\ \A c \in Start(r, f) .. Width - 1 : c \in 0 .. Width - 1
        BY <2>4, <1>1, <1>11, Numbers
      <3> QED
        BY <3>1, <2>1, <2>4 DEF DrawnIn
    <2>5. DrawnIn(picture', fresh', PrefetchRow(line), 0, Ahead(d, f))
      BY <2>3 DEF DrawnIn
    <2>6. ASSUME steady', NEW r \in 0 .. Rows - 1, r <= line
          PROVE  DrawnIn(picture', fresh', r, Start(r, f), Width)
      <3>1. r < line \/ r = line
        BY <2>6, <1>1
      <3>2. DrawnIn(picture, fresh, r, Start(r, f), Width)
        BY <3>1, <2>3, <2>6, <1>1, <1>10 DEF RowsDrawn
      <3> QED
        BY <3>2, <2>4, <2>6
    <2>7. \A r \in 0 .. Rows - 1 : r < line => r <= line
      BY <1>1
    <2> QED
      BY <2>2, <2>3, <2>5, <2>6, <2>7, <1>1 DEF RowsDrawn
  (* The prefetch, tile n of it from column lo to column hi. *)
  <1>18. ASSUME NEW n \in 0 .. 1, d = PrefetchDot(n), DrawTile(PrefetchRow(line), n)
         PROVE  /\ xOffset' = OffsetAt(d, f)
                /\ steady' => RowsDrawn(picture', fresh', line, d, f)
    <2>1. n \in 0 .. Cols /\ d # ResetDot /\ xOffset = OffsetAt(dot, f)
      <3>1. n \in 0 .. Cols /\ d # ResetDot
        BY <1>2, <1>18, Numbers DEF PrefetchDot
      <3> QED
        BY <3>1, <1>9
    <2>2. /\ RowEnd(d, f) = Width /\ RowEnd(dot, f) = Width
          /\ xOffset = Ahead(dot, f) /\ Ahead(d, f) = Ahead(dot, f) + PixelsOf(n)
          /\ OffsetAt(d, f) = Ahead(d, f) /\ Ahead(d, f) \in 0 .. Width - 1
      <3>1. CASE n = 0
        <4>1. d = PrefetchDot(0) /\ dot = PrefetchDot(0) - 1 /\ dot >= Cols
          BY <3>1, <1>1, <1>2, <1>5, <1>18, Numbers
        <4>2. PixelsOf(n) = TileW - f
          BY <3>1, <2>1, <1>5, PixelsOfTile
        <4> QED
          BY <4>1, <4>2, <2>1, <1>2, <1>5, Numbers DEF RowEnd, Ahead, OffsetAt
      <3>2. CASE n = 1
        <4>1. d = PrefetchDot(0) + 1 /\ dot = PrefetchDot(0) /\ dot >= Cols
          BY <3>2, <1>1, <1>2, <1>5, <1>18, Numbers
        <4>2. PixelsOf(n) = TileW
          BY <3>2, <2>1, PixelsOfTile, Numbers
        <4>3. Begin(f) \in 0 .. Width - 1
          BY <1>5, Reaches, Numbers
        <4> QED
          BY <4>1, <4>2, <4>3, <2>1, <1>2, <1>5, Numbers DEF RowEnd, Ahead, OffsetAt, Begin
      <3> QED
        BY <3>1, <3>2
    <2>3. xOffset + PixelsOf(n) = Ahead(d, f) /\ xOffset + PixelsOf(n) <= Width
      BY <2>2, Numbers
    <2>4. xOffset' = OffsetAt(d, f)
      <3>1. xOffset' = Wrapped(Ahead(d, f))
        BY <2>3, <1>18 DEF DrawTile
      <3> QED
        BY <3>1, <2>2, Numbers DEF Wrapped
    <2>5. ASSUME steady' PROVE RowsDrawn(picture', fresh', line, d, f)
      <3>1. RowsDrawn(picture, fresh, line, dot, f)
        BY <2>5, <1>10
      <3>2. \A r \in 0 .. Rows - 1 : r < line => DrawnIn(picture', fresh', r, Start(r, f), Width)
        BY <3>1, <2>1, <2>3, <1>1, <1>11, <1>18, TileAdds DEF RowsDrawn
      <3>3. DrawnIn(picture', fresh', line, Start(line, f), Width)
        <4>1. DrawnIn(picture, fresh, line, Start(line, f), Width)
          BY <3>1, <2>2, <1>1 DEF RowsDrawn
        <4> QED
          BY <4>1, <2>1, <2>3, <1>1, <1>11, <1>18, TileAdds
      <3>4. DrawnIn(picture', fresh', PrefetchRow(line), 0, Ahead(d, f))
        <4>1. DrawnIn(picture, fresh, PrefetchRow(line), 0, xOffset)
          BY <3>1, <2>2, <1>1 DEF RowsDrawn
        <4>2. DrawnIn(picture', fresh', PrefetchRow(line), 0, xOffset + PixelsOf(n))
          BY <4>1, <2>1, <2>3, <1>1, <1>11, <1>18, TileAdds
        <4> QED
          BY <4>2, <2>3
      <3> QED
        BY <3>2, <3>3, <3>4, <2>2, <1>1 DEF RowsDrawn
    <2> QED
      BY <2>4, <2>5
  <1>19. ASSUME showBg, Background(d)
         PROVE  /\ xOffset' = OffsetAt(d, f)
                /\ steady' => RowsDrawn(picture', fresh', line, d, f)
    BY <1>1, <1>12, <1>14, <1>16, <1>18, <1>19, TileOfDot
  <1> QED
    BY <1>3, <1>8, <1>17, <1>19, DotDraws DEF d

LEMMA FrameStep == TypeOK /\ FrameInv /\ [Next]_vars => FrameInv'
  <1> SUFFICES ASSUME TypeOK, FrameInv, [Next]_vars PROVE FrameInv'
    OBVIOUS
  <1>1. CASE DrawDot
    BY <1>1, FrameDot
  <1> DEFINE f == fineX
  <1>2. /\ f \in 0 .. TileW - 1 /\ Begin(f) \in TileW + 1 .. Width - 1 /\ Reach(0, f) = Begin(f)
        /\ PrefetchDot(0) \in Nat /\ PrefetchDot(0) > Cols /\ LastDot = PrefetchDot(0) + 1
    BY Reaches, Numbers DEF TypeOK, PrefetchDot, LastDot
  <1>3. /\ RowEnd(0, f) = Begin(f) /\ OffsetAt(0, f) = Begin(f) /\ Ahead(0, f) = 0
        /\ RowEnd(LastDot, f) = Width /\ OffsetAt(LastDot, f) = Begin(f) /\ Ahead(LastDot, f) = Begin(f)
    BY <1>2, Numbers DEF RowEnd, OffsetAt, Ahead, Wrapped
  <1>4. CASE NextLine
    <2>1. /\ line < Rows /\ dot = LastDot /\ line' = line + 1 /\ dot' = 0 /\ line \in 0 .. Rows - 1
          /\ UNCHANGED <<fineX, xOffset, picture, fresh, steady, prepared, shown, wholeShown>>
      BY <1>4, Numbers DEF NextLine, TypeOK, guest, canvas, history
    <2>2. PictureIsWhole'
      BY <2>1 DEF FrameInv, PictureIsWhole
    <2>3. prepared' => line' = Rows
      BY <2>1, Numbers DEF FrameInv
    <2>4. steady' \/ prepared' => xOffset' = OffsetAt(dot', fineX')
      BY <2>1, <1>3 DEF FrameInv
    <2>5. ASSUME steady' PROVE RowsDrawn(picture, fresh, line + 1, 0, f)
      <3>1. RowsDrawn(picture, fresh, line, LastDot, f)
        BY <2>1, <2>5 DEF FrameInv
      <3>2. DrawnIn(picture, fresh, line, Start(line, f), Width)
        BY <3>1, <2>1, <1>3 DEF RowsDrawn
      <3>3. DrawnIn(picture, fresh, PrefetchRow(line), 0, Begin(f))
        BY <3>1, <2>1, <1>3 DEF RowsDrawn
      <3>4. ASSUME NEW r \in 0 .. Rows - 1, r < line + 1
            PROVE  DrawnIn(picture, fresh, r, Start(r, f), Width)
        <4>1. r < line \/ r = line
          BY <3>4, <2>1
        <4> QED
          BY <4>1, <3>1, <3>2 DEF RowsDrawn
      <3>5. line + 1 < Rows => /\ DrawnIn(picture, fresh, line + 1, Start(line + 1, f), RowEnd(0, f))
                               /\ DrawnIn(picture, fresh, PrefetchRow(line + 1), 0, Ahead(0, f))
        <4>1. line + 1 < Rows => PrefetchRow(line) = line + 1 /\ Start(line + 1, f) = 0
          BY <2>1 DEF PrefetchRow, Start
        <4>2. DrawnIn(picture, fresh, PrefetchRow(line + 1), 0, 0)
          BY DEF DrawnIn
        <4> QED
          BY <4>1, <4>2, <3>3, <1>3
      <3>6. line + 1 = Rows => DrawnIn(picture, fresh, 0, 0, Begin(f))
        <4>1. line + 1 = Rows => PrefetchRow(line) = 0
          BY <2>1 DEF PrefetchRow
        <4> QED
          BY <4>1, <3>3
      <3> QED
        BY <3>4, <3>5, <3>6 DEF RowsDrawn
    <2> QED
      BY <2>1, <2>2, <2>3, <2>4, <2>5 DEF FrameInv
  <1>5. CASE SwapBuffer
    <2>1. /\ line = Rows /\ dot = 0 /\ line' = 0 /\ dot' = 0 /\ shown' = picture
          /\ UNCHANGED <<fineX, xOffset>> /\ 0 < Rows
      BY <1>5, Numbers DEF SwapBuffer, guest, FrameInv
    <2>2. (steady' <=> prepared) /\ ~prepared' /\ (wholeShown' <=> steady)
      BY <1>5, Zenon DEF SwapBuffer
    <2>3. PictureIsWhole'
      <3> SUFFICES ASSUME steady, NEW r \in 0 .. Rows - 1, NEW c \in 0 .. Width - 1
                   PROVE  picture[<<r, c>>] \in {"bg", "sprite"}
        BY <2>1, <2>2 DEF PictureIsWhole, Pixels
      <3>1. /\ DrawnIn(picture, fresh, r, Start(r, f), Width)
            /\ DrawnIn(picture, fresh, 0, 0, Begin(f))
        <4>1. RowsDrawn(picture, fresh, Rows, 0, f)
          BY <2>1 DEF FrameInv
        <4>2. r < Rows
          BY Numbers
        <4> QED
          BY <4>1, <4>2 DEF RowsDrawn
      <3>2. CASE c \in Start(r, f) .. Width - 1
        BY <3>1, <3>2 DEF DrawnIn
      <3>3. CASE r = 0 /\ c \in 0 .. Begin(f) - 1
        BY <3>1, <3>3 DEF DrawnIn
      <3>4. c \in Start(r, f) .. Width - 1 \/ (r = 0 /\ c \in 0 .. Begin(f) - 1)
        BY <1>2, Numbers DEF Start
      <3> QED
        BY <3>2, <3>3, <3>4
    <2>4. steady' => xOffset' = OffsetAt(0, f)
      BY <2>1, <2>2 DEF FrameInv
    <2>5. RowsDrawn(picture', fresh', 0, 0, f)
      <3>1. /\ DrawnIn(picture', fresh', 0, Start(0, f), RowEnd(0, f))
            /\ DrawnIn(picture', fresh', PrefetchRow(0), 0, Ahead(0, f))
        BY <1>2, <1>3 DEF DrawnIn, Start
      <3> QED
        BY <3>1, <2>1 DEF RowsDrawn
    <2> QED
      BY <2>1, <2>2, <2>3, <2>4, <2>5 DEF FrameInv
  <1>6. CASE UNCHANGED <<line, dot, fineX, xOffset, picture, fresh, steady, prepared, shown, wholeShown>>
    BY <1>6 DEF FrameInv, PictureIsWhole
  <1>7. ASSUME NEW x \in FineXs, WritePPUSCROLL(x) PROVE FrameInv'
    <2>1. ~steady' /\ ~prepared' /\ UNCHANGED <<line, dot, shown, wholeShown>>
      BY <1>7 DEF WritePPUSCROLL
    <2> QED
      BY <2>1 DEF FrameInv, PictureIsWhole
  <1> QED
    BY <1>1, <1>4, <1>5, <1>6, <1>7 DEF Next, WritePPUMASK, canvas, history, guest, vars

LEMMA FrameHolds == Spec => []FrameInv
  <1>1. Init => FrameInv
    BY Numbers DEF Init, FrameInv, PictureIsWhole
  <1> QED
    BY <1>1, FrameStep, TypeCorrect, PTL DEF Spec

(* A picture whose background was shown throughout is all of its own       *)
(* frame, for a screen of any size and any fine X scroll: the tiles fill   *)
(* each row exactly, and row 0 is completed by the last line's prefetch.   *)
THEOREM PicturesAreWhole == Spec => []PictureIsWhole
  <1>1. FrameInv => PictureIsWhole
    BY DEF FrameInv
  <1> QED
    BY <1>1, FrameHolds, PTL

(* No tile is drawn in a row below the line, but for the prefetch. *)
RowsReached ==
  line < Rows => \A p \in fresh : p[1] <= line \/ (p[1] = line + 1 /\ dot >= PrefetchDot(0))

LEMMA StripInRow ==
  ASSUME TypeOK, NEW r \in 0 .. Rows - 1, NEW n \in 0 .. Cols, NEW p \in Strip(r, PixelsOf(n))
  PROVE  p[1] = r
  <1>1. PixelsOf(n) \in 0 .. TileW /\ xOffset \in 0 .. Width - 1
    BY PixelsOfTile DEF TypeOK
  <1>2. PICK i \in 0 .. PixelsOf(n) - 1 : p = PixelAt(r, Wrapped(xOffset + i))
    BY DEF Strip
  <1>3. Wrapped(xOffset + i) < Width
    BY <1>1, <1>2, Numbers DEF Wrapped
  <1> QED
    BY <1>2, <1>3 DEF PixelAt

LEMMA RowsReachedStep == TypeOK /\ RowsReached /\ [Next]_vars => RowsReached'
  <1> SUFFICES ASSUME TypeOK, RowsReached, [Next]_vars, line' < Rows, NEW p \in fresh'
               PROVE  p[1] <= line' \/ (p[1] = line' + 1 /\ dot' >= PrefetchDot(0))
    BY DEF RowsReached
  <1>1. CASE DrawDot
    <2>1. /\ line < Rows /\ dot + 1 \in 1 .. LastDot /\ dot' = dot + 1 /\ dot \in Nat /\ line' = line
          /\ line \in 0 .. Rows - 1 /\ PrefetchRow(line) \in 0 .. Rows - 1
      BY <1>1, DotDraws, RowsAndTiles DEF DrawDot
    <2>2. ASSUME p \in fresh PROVE p[1] <= line \/ (p[1] = line + 1 /\ dot' >= PrefetchDot(0))
      BY <2>1, <2>2, Numbers DEF RowsReached, PrefetchDot
    <2>3. ASSUME p \notin fresh, showBg, Background(dot + 1)
          PROVE  p[1] <= line \/ (p[1] = line + 1 /\ dot' >= PrefetchDot(0))
      <3>1. CASE dot + 1 < ResetDot /\ DrawTile(line, dot + 1 + 1)
        <4> DEFINE n == dot + 1 + 1
        <4>1. n \in 0 .. Cols
          BY <2>1, <3>1, Numbers DEF ResetDot
        <4>2. DrawTile(line, n)
          BY <3>1
        <4> HIDE DEF n
        <4>3. p \in Strip(line, PixelsOf(n))
          BY <2>3, <4>2 DEF DrawTile
        <4>4. p[1] = line
          BY <4>1, <4>3, <2>1, StripInRow
        <4> QED
          BY <4>4, <2>1
      <3>2. ASSUME NEW n \in 0 .. 1, dot + 1 = PrefetchDot(n), DrawTile(PrefetchRow(line), n)
            PROVE  p[1] <= line \/ (p[1] = line + 1 /\ dot' >= PrefetchDot(0))
        <4>1. p \in Strip(PrefetchRow(line), PixelsOf(n)) /\ n \in 0 .. Cols
          BY <2>3, <3>2, Numbers DEF DrawTile
        <4>2. p[1] = PrefetchRow(line)
          BY <4>1, <2>1, StripInRow
        <4> QED
          BY <4>2, <3>2, <2>1, Numbers DEF PrefetchRow, PrefetchDot
      <3>3. CASE UNCHANGED fresh
        BY <3>3, <2>3
      <3> QED
        BY <3>1, <3>2, <3>3, <2>1, <2>3, TileOfDot DEF canvas
    <2>4. ASSUME NEW x \in SpriteX, NEW S \in SUBSET SpritePixels(x), DrawSprite(S) PROVE p \in fresh
      BY <2>4 DEF DrawSprite
    <2>5. UNCHANGED <<canvas, sprites>> => p \in fresh
      BY DEF canvas
    <2> QED
      BY <1>1, <2>1, <2>2, <2>3, <2>4, <2>5, DotDraws
  <1>2. CASE NextLine
    <2>1. line < Rows /\ line \in Int /\ line' = line + 1 /\ p \in fresh
      BY <1>2, Numbers DEF NextLine, TypeOK, canvas
    <2>2. p[1] \in Int
      BY <2>1 DEF TypeOK, Pixels
    <2> QED
      BY <2>1, <2>2 DEF RowsReached
  <1>3. CASE SwapBuffer
    BY <1>3 DEF SwapBuffer
  <1>4. CASE UNCHANGED <<line, dot, fresh>>
    BY <1>4 DEF RowsReached
  <1> QED
    BY <1>1, <1>2, <1>3, <1>4 DEF Next, WritePPUMASK, WritePPUSCROLL, canvas, vars

(* In such a frame a sprite is compared, in its own row, with the          *)
(* background of that frame, although nothing clears _frame_buffer_bg, and *)
(* beyond the right edge with that of an earlier frame: where the          *)
(* requirement that all be of this frame fails, and only there.            *)
THEOREM OnlyBeyondEdge == Spec => []OldBeyondEdge
  <1>1. TypeOK /\ FrameInv /\ RowsReached => OldBeyondEdge
    <2> SUFFICES ASSUME TypeOK, FrameInv, RowsReached, steady, line \in 1 .. Rows - 1,
                        dot \in ResetDot .. PrefetchDot(0) - 1,
                        NEW x \in SpriteX, NEW p \in SpritePixels(x)
                 PROVE  p \in fresh <=> p[1] = line
      BY DEF OldBeyondEdge
    <2>1. /\ line < Rows /\ Start(line, fineX) = 0 /\ RowEnd(dot, fineX) = Width
          /\ ~(dot >= PrefetchDot(0))
      BY Numbers DEF Start, RowEnd, ResetDot, PrefetchDot
    <2>2. p \in Pixels
      BY DEF SpritePixels
    <2>3. PICK r \in 0 .. Rows - 1, c \in 0 .. Width - 1 : p = <<r, c>>
      BY <2>2 DEF Pixels
    <2>4. ASSUME r = line PROVE p \in fresh
      <3>1. DrawnIn(picture, fresh, line, 0, Width)
        BY <2>1 DEF FrameInv, RowsDrawn
      <3> QED
        BY <3>1, <2>3, <2>4 DEF DrawnIn
    <2>5. ASSUME r # line PROVE p \notin fresh
      <3>1. PICK i \in 0 .. TileW - 1 : p = PixelAt(line, x + i)
        BY DEF SpritePixels
      <3>2. r = line + 1
        <4>1. x + i < Width => p = <<line, x + i>>
          BY <3>1 DEF PixelAt
        <4>2. ~(x + i < Width)
          BY <4>1, <2>3, <2>5
        <4>3. line \in Int /\ x + i \in Int
          BY <3>1, Numbers
        <4>4. p = <<line + 1, (x + i) - Width>>
          BY <4>2, <4>3, <3>1, PixelBeyond, Zenon
        <4> QED
          BY <4>4, <2>3
      <3> QED
        BY <3>2, <2>1, <2>3 DEF RowsReached
    <2> QED
      BY <2>3, <2>4, <2>5
  <1>2. Init => RowsReached
    BY DEF Init, RowsReached
  <1> QED
    BY <1>1, <1>2, RowsReachedStep, FrameHolds, TypeCorrect, PTL DEF Spec

=============================================================================
