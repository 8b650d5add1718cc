-------------------------- MODULE PpuSpritesProofs --------------------------
(***************************************************************************)
(* Proofs, for any number of sprites, any buffer size and any screen, that *)
(* sprite evaluation never writes outside its buffer, and that on every    *)
(* line the guest program leaves alone it finds the right sprites, draws   *)
(* them from rows of their tiles, masks OAM reads just while it clears and *)
(* lets none but sprite 0 set the hit flag.                                *)
(***************************************************************************)
EXTENDS PpuSprites, SequenceTheorems, TLAPS

Slot == [id : Ids, y : SpriteY]

(* What a dot of the pipeline may do to the buffer: empty it, leave it, or *)
(* append one copy where there is room.                                    *)
LEMMA PipelineBuf ==
    ASSUME TypeOK, NEW l, NEW d \in 0 .. Dots - 1, NEW overlap \in BOOLEAN,
           PipelineOn(l, d, overlap)
    PROVE  \/ buf' = <<>>
           \/ buf' = buf
           \/ \E id \in Ids :
                 Len(buf) < ActiveMax /\ buf' = Append(buf, [id |-> id, y |-> oam[id]])
  <1>1. ASSUME NEW id \in Ids, CopyIfInRange(id)
        PROVE  \/ buf' = buf
               \/ Len(buf) < ActiveMax /\ buf' = Append(buf, [id |-> id, y |-> oam[id]])
    BY <1>1, SpriteAssumption DEF CopyIfInRange, IsFull, TypeOK
  <1> QED
    BY <1>1 DEF PipelineOn, StartLine, MaskOam, ReadY, Draw, pipeline

LEMMA PipelineType ==
    ASSUME TypeOK, NEW l, NEW d \in 0 .. Dots - 1, NEW overlap \in BOOLEAN,
           PipelineOn(l, d, overlap)
    PROVE  /\ posY' \in SpriteY /\ buf' \in Seq(Slot)
           /\ hasSprite0' \in BOOLEAN /\ overflow' \in BOOLEAN
           /\ sprite0Hit' \in BOOLEAN /\ maskOamRead' \in BOOLEAN
  <1> USE DEF TypeOK
  <1>1. buf' \in Seq(Slot)
    <2>1. buf \in Seq(Slot)
      BY DEF Slot
    <2>2. CASE buf' = <<>> \/ buf' = buf
      BY <2>1, <2>2, EmptySeq
    <2>3. ASSUME NEW id \in Ids, buf' = Append(buf, [id |-> id, y |-> oam[id]])
          PROVE  buf' \in Seq(Slot)
      <3>1. [id |-> id, y |-> oam[id]] \in Slot
        BY DEF Slot
      <3> QED
        BY <2>1, <2>3, <3>1
    <2> QED
      BY <2>2, <2>3, PipelineBuf
  <1>2. posY' \in SpriteY
    BY DEF PipelineOn, StartLine, MaskOam, ReadY, CopyIfInRange, Draw, pipeline
  <1>3. hasSprite0' \in BOOLEAN /\ overflow' \in BOOLEAN
    BY DEF PipelineOn, StartLine, MaskOam, ReadY, CopyIfInRange, Draw, pipeline
  <1>4. sprite0Hit' \in BOOLEAN /\ maskOamRead' \in BOOLEAN
    BY DEF PipelineOn, StartLine, MaskOam, ReadY, CopyIfInRange, Draw, pipeline
  <1> QED
    BY <1>1, <1>2, <1>3, <1>4

LEMMA TypeStep == TypeOK /\ [Next]_vars => TypeOK'
  <1> SUFFICES ASSUME TypeOK, [Next]_vars PROVE TypeOK'
    OBVIOUS
  <1> USE DEF TypeOK
  <1>1. ASSUME NEW overlap \in BOOLEAN, Tick(overlap) PROVE TypeOK'
    <2> DEFINE d == (dot + 1) % Dots
               l == NextLine(d)
    <2>1. d \in 0 .. Dots - 1 /\ l \in 0 .. Lines - 1
      BY SpriteAssumption DEF NextLine
    <2>2. dot' = d /\ line' = l /\ UNCHANGED guest
      BY <1>1 DEF Tick
    <2>3. steady' \in BOOLEAN
      BY <1>1 DEF Tick, RunsPipeline
    <2>4. CASE RunsPipeline(l)
      <3>1. PipelineOn(l, d, overlap)
        BY <1>1, <2>4 DEF Tick
      <3> QED
        BY <2>1, <2>2, <2>3, <3>1, PipelineType DEF guest, Slot
    <2>5. CASE ~RunsPipeline(l)
      <3>1. BlankLine(l, d)
        BY <1>1, <2>5 DEF Tick
      <3> QED
        BY <2>1, <2>2, <2>3, <3>1 DEF guest, BlankLine, pipeline
    <2> QED
      BY <2>4, <2>5
  <1>2. ASSUME NEW on \in BOOLEAN, ShowSprites(on) PROVE TypeOK'
    BY <1>2 DEF ShowSprites, pipeline
  <1>3. ASSUME NEW h \in Heights, SetHeight(h) PROVE TypeOK'
    BY <1>3 DEF SetHeight, pipeline
  <1>4. ASSUME NEW id \in Ids, NEW y \in SpriteY, WriteOAM(id, y) PROVE TypeOK'
    BY <1>4 DEF WriteOAM, pipeline
  <1>5. CASE UNCHANGED vars
    BY <1>5 DEF vars, guest, pipeline
  <1> QED
    BY <1>1, <1>2, <1>3, <1>4, <1>5 DEF Next

(* Every variable keeps its range, whatever the guest does.                *)
THEOREM TypeCorrect == Spec => []TypeOK
  <1>1. Init => TypeOK
    <2>1. 0 \in 0 .. Lines - 1 /\ 0 \in 0 .. Dots - 1
      BY SpriteAssumption
    <2> QED
      BY <2>1, EmptySeq DEF Init, TypeOK
  <1> QED
    BY <1>1, TypeStep, PTL DEF Spec

(* No copy lands outside _sprite_buf, whatever the guest switches or       *)
(* rewrites between two dots: the buffer is never longer than ActiveMax.   *)
THEOREM BufferIsBounded == Spec => []BufferBounded
  <1>1. Init => BufferBounded
    BY SpriteAssumption DEF Init, BufferBounded
  <1>2. TypeOK /\ BufferBounded /\ [Next]_vars => BufferBounded'
    <2> SUFFICES ASSUME TypeOK, BufferBounded, [Next]_vars PROVE BufferBounded'
      OBVIOUS
    <2>1. ASSUME NEW overlap \in BOOLEAN, Tick(overlap) PROVE BufferBounded'
      <3> DEFINE d == (dot + 1) % Dots
                 l == NextLine(d)
      <3>1. d \in 0 .. Dots - 1
        BY SpriteAssumption DEF TypeOK
      <3>2. CASE RunsPipeline(l)
        <4>1. PipelineOn(l, d, overlap)
          BY <2>1, <3>2 DEF Tick
        <4>2. CASE buf' = <<>> \/ buf' = buf
          BY <4>2, SpriteAssumption DEF BufferBounded
        <4>3. ASSUME NEW id \in Ids, Len(buf) < ActiveMax,
                     buf' = Append(buf, [id |-> id, y |-> oam[id]])
              PROVE  BufferBounded'
          <5>1. Len(buf) \in Nat /\ Len(buf') = Len(buf) + 1
            BY <4>3 DEF TypeOK
          <5> QED
            BY <4>3, <5>1, SpriteAssumption DEF BufferBounded
        <4> QED
          BY <3>1, <4>1, <4>2, <4>3, PipelineBuf
      <3>3. CASE ~RunsPipeline(l)
        BY <2>1, <3>3 DEF Tick, BlankLine, pipeline, BufferBounded
      <3> QED
        BY <3>2, <3>3
    <2>2. CASE UNCHANGED buf
      BY <2>2 DEF BufferBounded
    <2> QED
      BY <2>1, <2>2
         DEF Next, ShowSprites, SetHeight, WriteOAM, vars, pipeline
  <1> QED
    BY <1>1, <1>2, TypeCorrect, PTL DEF Spec

-----------------------------------------------------------------------------
(* The evaluation is right on the lines the guest leaves alone. *)

(* The result so far, with the overflow flag: on a steady line it began    *)
(* down at dot 0.                                                          *)
OverflowNoticed == overflow <=> \E id \in OnLine(Evaluated) : ~Copied(id)

ResultIsRight ==
    steady => /\ CopiesAreFound /\ CopiesInOrder /\ NoneMissed
              /\ Sprite0Noticed /\ OverflowNoticed

(* The inductive invariant: besides the result so far, a steady line runs  *)
(* the pipeline, and between the two dots of a sprite the Y coordinate     *)
(* that was read is still the one in OAM.                                  *)
EvalInv ==
    /\ ResultIsRight
    /\ steady => /\ RunsPipeline(line)
                 /\ \A id \in Ids : dot = ClearEnd + 2 * id => posY = oam[id]

(* A dot that copies no sprite changes neither the result nor what it is   *)
(* compared with.                                                          *)
LEMMA QuietDot ==
    ASSUME TypeOK, EvalInv, steady, steady',
           UNCHANGED <<line, guest, buf, hasSprite0, overflow>>,
           Evaluated' = Evaluated
    PROVE  ResultIsRight'
  <1>1. OnLine(Evaluated)' = OnLine(Evaluated)
    BY DEF OnLine, guest
  <1>2. \A id : Copied(id)' <=> Copied(id)
    BY DEF Copied
  <1>3. CopiesAreFound' /\ CopiesInOrder' /\ NoneMissed'
    BY <1>1, <1>2 DEF EvalInv, ResultIsRight, guest, CopiesAreFound, CopiesInOrder, NoneMissed
  <1>4. Sprite0Noticed' /\ OverflowNoticed'
    BY <1>1, <1>2 DEF EvalInv, ResultIsRight, Sprite0Noticed, OverflowNoticed
  <1> QED
    BY <1>3, <1>4 DEF ResultIsRight

(* The dot that decides about sprite k adds it to the sprites found if it  *)
(* covers the line, and to the buffer if there is room.                    *)
LEMMA CopyDot ==
    ASSUME TypeOK, BufferBounded, EvalInv, steady, steady', NEW k \in Ids,
           UNCHANGED <<line, guest>>, posY = oam[k], CopyIfInRange(k),
           Evaluated' = Evaluated \cup {k},
           \A id \in Evaluated : id < k
    PROVE  ResultIsRight'
  <1> DEFINE inRange == Covers(posY, height, line)
             new == [id |-> k, y |-> oam[k]]
             found == OnLine(Evaluated)
  <1>1. inRange <=> line - oam[k] \in 1 .. height
    BY SpriteAssumption DEF TypeOK, Covers
  <1>2. OnLine(Evaluated)' = IF inRange THEN found \cup {k} ELSE found
    BY <1>1 DEF OnLine, guest
  <1>3. /\ found \subseteq Ids /\ \A id \in found : id < k
        /\ ActiveMax \in Nat \ {0} /\ Len(buf) \in Nat /\ Len(buf) <= ActiveMax
        /\ Ids \subseteq Nat
    BY SpriteAssumption DEF OnLine, Evaluated, TypeOK, BufferBounded, Ids
  <1>4. CopiesAreFound /\ CopiesInOrder /\ NoneMissed /\ Sprite0Noticed /\ OverflowNoticed
    BY DEF EvalInv, ResultIsRight
  <1>5. oam' = oam
    BY DEF guest
  <1>6. Sprite0Noticed'
    BY <1>2, <1>3, <1>4 DEF CopyIfInRange, Sprite0Noticed
  <1>7. ~Copied(k)
    BY <1>3, <1>4 DEF Copied, CopiesAreFound
  <1>8. CASE ~(inRange /\ ~IsFull)
    <2>1. buf' = buf
      BY <1>8 DEF CopyIfInRange
    <2>2. \A id : Copied(id)' <=> Copied(id)
      BY <2>1 DEF Copied
    <2>3. CopiesAreFound' /\ CopiesInOrder'
      BY <1>2, <1>4, <1>5, <2>1 DEF CopiesAreFound, CopiesInOrder
    <2>4. CASE ~inRange
      <3>1. overflow' <=> overflow
        BY <2>4 DEF CopyIfInRange, TypeOK
      <3>2. OnLine(Evaluated)' = found
        BY <1>2, <2>4
      <3>3. NoneMissed'
        BY <1>4, <2>1, <2>2, <3>2 DEF NoneMissed
      <3>4. OverflowNoticed'
        BY <1>4, <2>2, <3>1, <3>2 DEF OverflowNoticed
      <3> QED
        BY <1>6, <2>3, <3>3, <3>4 DEF ResultIsRight
    <2>5. CASE inRange /\ IsFull
      <3>1. overflow' /\ Len(buf) = ActiveMax
        <4>1. overflow' = (overflow \/ (inRange /\ IsFull))
          BY DEF CopyIfInRange
        <4>2. Len(buf) = ActiveMax
          BY <1>3, <2>5 DEF IsFull
        <4> QED
          BY <2>5, <4>1, <4>2
      <3>2. buf[ActiveMax].id < k
        BY <1>3, <1>4, <3>1 DEF CopiesAreFound
      <3>3. NoneMissed'
        BY <1>2, <1>4, <2>1, <2>2, <2>5, <3>1, <3>2 DEF NoneMissed
      <3>4. OverflowNoticed'
        BY <1>2, <1>7, <2>2, <2>5, <3>1 DEF OverflowNoticed
      <3> QED
        BY <1>6, <2>3, <3>3, <3>4 DEF ResultIsRight
    <2> QED
      BY <1>8, <2>4, <2>5
  <1>9. CASE inRange /\ ~IsFull
    <2>1. buf' = Append(buf, new) /\ Len(buf) < ActiveMax
      BY <1>3, <1>9 DEF CopyIfInRange, IsFull
    <2>2. overflow' <=> overflow
      BY <1>9 DEF CopyIfInRange, TypeOK
    <2>3. /\ Len(buf') = Len(buf) + 1 /\ buf'[Len(buf) + 1] = new
          /\ \A i \in 1 .. Len(buf) : buf'[i] = buf[i]
      <3>1. buf \in Seq(Slot) /\ new \in Slot
        BY DEF TypeOK, Slot
      <3> QED
        BY <2>1, <3>1, AppendProperties
    <2>4. \A id \in Ids : Copied(id)' <=> Copied(id) \/ id = k
      BY <1>3, <2>3 DEF Copied
    <2>5. CopiesAreFound'
      <3>1. ASSUME NEW i \in 1 .. Len(buf')
            PROVE  buf'[i].id \in found \cup {k} /\ buf'[i].y = oam[buf'[i].id]
        <4>1. CASE i \in 1 .. Len(buf)
          BY <1>4, <2>3, <4>1 DEF CopiesAreFound
        <4>2. CASE i = Len(buf) + 1
          BY <2>3, <4>2
        <4> QED
          BY <1>3, <2>3, <4>1, <4>2
      <3> QED
        BY <1>2, <1>5, <1>9, <3>1 DEF CopiesAreFound
    <2>6. CopiesInOrder'
      <3>1. ASSUME NEW i \in 1 .. Len(buf'), NEW j \in 1 .. Len(buf'), i < j
            PROVE  buf'[i].id < buf'[j].id
        <4>1. i \in 1 .. Len(buf) /\ buf'[i] = buf[i]
          BY <1>3, <2>3, <3>1
        <4>2. CASE j \in 1 .. Len(buf)
          BY <1>4, <2>3, <3>1, <4>1, <4>2 DEF CopiesInOrder
        <4>3. CASE j = Len(buf) + 1
          <5>1. buf[i].id < k
            BY <1>3, <1>4, <4>1 DEF CopiesAreFound
          <5> QED
            BY <2>3, <4>1, <4>3, <5>1
        <4> QED
          BY <1>3, <2>3, <4>2, <4>3
      <3> QED
        BY <3>1 DEF CopiesInOrder
    <2>7. \A id \in found : Copied(id)
      BY <1>3, <1>4, <2>1 DEF NoneMissed
    <2>8. ASSUME NEW id \in found \cup {k} PROVE Copied(id)'
      BY <1>3, <2>4, <2>7
    <2>9. NoneMissed'
      <3>1. OnLine(Evaluated)' = found \cup {k}
        BY <1>2, <1>9
      <3> QED
        BY <2>8, <3>1 DEF NoneMissed
    <2>10. ~overflow'
      BY <1>4, <2>2, <2>7, Zenon DEF OverflowNoticed
    <2>11. OverflowNoticed'
      <3>1. OnLine(Evaluated)' = found \cup {k}
        BY <1>2, <1>9
      <3> QED
        BY <2>8, <2>10, <3>1, Zenon DEF OverflowNoticed
    <2> QED
      BY <1>6, <2>5, <2>6, <2>9, <2>11 DEF ResultIsRight
  <1> QED
    BY <1>8, <1>9

LEMMA EvalStep == TypeOK /\ BufferBounded /\ EvalInv /\ [Next]_vars => EvalInv'
  <1> SUFFICES ASSUME TypeOK, BufferBounded, EvalInv, [Next]_vars, steady'
               PROVE  EvalInv'
    BY DEF EvalInv, ResultIsRight
  <1>1. CASE UNCHANGED vars
    <2>1. Evaluated' = Evaluated /\ steady
      BY <1>1 DEF Evaluated, vars
    <2> QED
      BY <1>1, <2>1, QuietDot DEF EvalInv, vars, guest, pipeline, RunsPipeline
  <1>2. ASSUME NEW overlap \in BOOLEAN, Tick(overlap) PROVE EvalInv'
    <2> DEFINE d == (dot + 1) % Dots
               l == NextLine(d)
    <2>1. /\ dot' = d /\ line' = l /\ UNCHANGED guest
          /\ d \in 0 .. Dots - 1 /\ (d # 0 => d = dot + 1 /\ l = line)
      BY <1>2, SpriteAssumption DEF Tick, TypeOK, NextLine
    <2>2. RunsPipeline(l) /\ (d # 0 => steady)
      BY <1>2, <2>1 DEF Tick, EvalInv
    <2>3. PipelineOn(l, d, overlap)
      BY <1>2, <2>2 DEF Tick
    <2>4. RunsPipeline(line)'
      BY <2>1, <2>2 DEF RunsPipeline, guest
    <2>5. /\ Ids \subseteq Nat /\ ClearEnd \in Nat /\ ClearEnd > 1 /\ ClearEnd % 2 = 1
          /\ \A id \in Ids : ClearEnd + 2 * id + 1 < EvalEnd
          /\ \A id \in Ids : ClearEnd + 2 * id + 1 < ClearEnd + 2 * SpriteMax
          /\ EvalEnd < FetchEnd /\ EvalEnd \in Nat /\ FetchEnd \in Nat /\ SpriteMax \in Nat
      BY SpriteAssumption DEF Ids
    <2>6. CASE d = 0
      <3>1. StartLine
        <4>1. /\ d \notin 1 .. ClearEnd - 1
              /\ \A id \in Ids : d # ClearEnd + 2 * id /\ d # ClearEnd + 2 * id + 1
              /\ d \notin ClearEnd + 2 * SpriteMax .. EvalEnd - 1
              /\ d \notin EvalEnd .. FetchEnd - 1 /\ ~(d >= FetchEnd)
          BY <2>5, <2>6, SpriteAssumption
        <4> QED
          BY <2>3, <4>1 DEF PipelineOn
      <3>2. Evaluated' = {}
        <4>1. \A id \in Ids : ~(ClearEnd + 2 * id + 1 <= dot')
          BY <2>1, <2>5, <2>6
        <4> QED
          BY <4>1 DEF Evaluated
      <3>3. OnLine(Evaluated)' = {}
        BY <3>2 DEF OnLine
      <3>4. buf' = <<>> /\ hasSprite0' = FALSE /\ overflow' = FALSE /\ Len(buf') = 0
        BY <3>1, EmptySeq DEF StartLine
      <3>5. CopiesAreFound' /\ CopiesInOrder' /\ NoneMissed'
        BY <3>3, <3>4 DEF CopiesAreFound, CopiesInOrder, NoneMissed
      <3>6. Sprite0Noticed' /\ OverflowNoticed'
        BY <3>3, <3>4 DEF Sprite0Noticed, OverflowNoticed
      <3>7. \A id \in Ids : dot' # ClearEnd + 2 * id
        BY <2>1, <2>5, <2>6
      <3> QED
        BY <2>4, <3>5, <3>6, <3>7 DEF EvalInv, ResultIsRight
    <2>7. ASSUME NEW k \in Ids, d = ClearEnd + 2 * k + 1 PROVE EvalInv'
      <3>1. CopyIfInRange(k)
        <4>1. ASSUME NEW id \in Ids PROVE d # ClearEnd + 2 * id
          BY <2>5, <2>7
        <4>2. ASSUME NEW id \in Ids, d = ClearEnd + 2 * id + 1 PROVE id = k
          BY <2>5, <2>7, <4>2
        <4> QED
          BY <2>3, <2>5, <2>7, <4>1, <4>2 DEF PipelineOn
      <3>2. posY = oam[k] /\ steady
        BY <2>1, <2>2, <2>5, <2>7 DEF EvalInv, TypeOK
      <3>3. Evaluated' = Evaluated \cup {k} /\ \A id \in Evaluated : id < k
        <4>1. \A id \in Ids : /\ ClearEnd + 2 * id + 1 <= dot' <=> id <= k
                              /\ ClearEnd + 2 * id + 1 <= dot <=> id < k
          BY <2>1, <2>5, <2>7 DEF TypeOK
        <4>2. \A id \in Ids : ClearEnd + 2 * id + 1 <= dot'
                               <=> ClearEnd + 2 * id + 1 <= dot \/ id = k
          BY <2>5, <4>1
        <4>3. Evaluated' = Evaluated \cup {k}
          BY <4>2 DEF Evaluated
        <4> QED
          BY <4>1, <4>3 DEF Evaluated
      <3>4. line' = line
        BY <2>1, <2>5, <2>7
      <3>5. ResultIsRight'
        BY <2>1, <3>1, <3>2, <3>3, <3>4, CopyDot
      <3>6. \A id \in Ids : dot' # ClearEnd + 2 * id
        BY <2>1, <2>5, <2>7
      <3> QED
        BY <2>4, <3>5, <3>6 DEF EvalInv
    <2>8. ASSUME d # 0, \A k \in Ids : d # ClearEnd + 2 * k + 1 PROVE EvalInv'
      <3>1. UNCHANGED <<buf, hasSprite0, overflow>>
        BY <2>3, <2>8 DEF PipelineOn, MaskOam, ReadY, Draw, pipeline
      <3>2. Evaluated' = Evaluated
        <4>1. \A id \in Ids : ClearEnd + 2 * id + 1 <= dot' <=> ClearEnd + 2 * id + 1 <= dot
          BY <2>1, <2>5, <2>8 DEF TypeOK
        <4> QED
          BY <4>1 DEF Evaluated
      <3>3. ResultIsRight'
        BY <2>1, <2>2, <2>8, <3>1, <3>2, QuietDot
      <3>4. ASSUME NEW id \in Ids, d = ClearEnd + 2 * id PROVE posY' = oam'[id]
        <4>1. ASSUME NEW i \in Ids, d = ClearEnd + 2 * i PROVE i = id
          BY <2>5, <3>4, <4>1
        <4>2. ReadY(id)
          BY <2>3, <2>5, <2>8, <3>4, <4>1 DEF PipelineOn
        <4> QED
          BY <2>1, <4>2 DEF ReadY, guest
      <3> QED
        BY <2>1, <2>4, <3>3, <3>4 DEF EvalInv
    <2> QED
      BY <2>6, <2>7, <2>8
  <1> QED
    BY <1>1, <1>2 DEF Next, ShowSprites, SetHeight, WriteOAM

LEMMA EvalHolds == Spec => []EvalInv
  <1>1. Init => EvalInv
    BY DEF Init, EvalInv, ResultIsRight
  <1> QED
    BY <1>1, EvalStep, TypeCorrect, BufferIsBounded, PTL DEF Spec

(* On a line the guest leaves alone, evaluation finds exactly the sprites  *)
(* that cover it, the first ActiveMax of them in OAM order, and knows      *)
(* whether sprite 0 is one of them (fetch_sprite_pipeline).                *)
THEOREM EvaluationCorrect == Spec => []EvaluationIsRight
  <1>1. EvalInv => EvaluationIsRight
    BY DEF EvalInv, ResultIsRight, EvaluationIsRight
  <1> QED
    BY <1>1, EvalHolds, PTL

(* On such a line the overflow flag goes up at the dot that leaves a       *)
(* sprite out for the first time, and at no other (fetch_sprite_pipeline). *)
THEOREM OverflowCorrect == Spec => OverflowIsRight
  <1> DEFINE Rises == steady /\ steady' /\ ~overflow => (overflow' <=> LeftOut')
  <1>1. TypeOK' /\ EvalInv' => Rises
    BY DEF EvalInv, ResultIsRight, OverflowNoticed, LeftOut, TypeOK
  <1>2. OverflowIsRight <=> [][Rises]_vars
    BY DEF OverflowIsRight
  <1> HIDE DEF Rises
  <1> QED
    BY <1>1, <1>2, TypeCorrect, EvalHolds, PTL

-----------------------------------------------------------------------------
(* What follows from it for what is drawn. *)

(* On a line the guest leaves alone every sprite is drawn from a row of    *)
(* its own tile: it was copied because it covers the line (fetch_sprite).  *)
THEOREM RowsInTile == Spec => []RowInTile
  <1>1. TypeOK /\ EvalInv => RowInTile
    <2> SUFFICES ASSUME TypeOK, EvalInv, steady, NEW i \in 1 .. Len(buf)
                 PROVE  TileRow(i - 1) \in 0 .. height - 1
      BY DEF RowInTile
    <2> DEFINE d == line - buf[i].y - 1
    <2>1. (i - 1) + 1 = i
      OBVIOUS
    <2>2. buf[i].id \in OnLine(Evaluated) /\ buf[i].y = oam[buf[i].id]
      BY DEF EvalInv, ResultIsRight, CopiesAreFound
    <2>3. line - buf[i].y \in 1 .. height
      BY <2>2 DEF OnLine
    <2>4. height \in Nat /\ line \in Int /\ buf[i].y \in Int
      <3>1. buf[i].id \in Ids
        BY <2>2 DEF OnLine, Evaluated
      <3>2. oam[buf[i].id] \in SpriteY
        BY <3>1 DEF TypeOK
      <3>3. height \in Nat /\ line \in Int
        BY SpriteAssumption DEF TypeOK
      <3>4. oam[buf[i].id] \in Nat
        BY <3>2, SpriteAssumption
      <3> QED
        BY <3>3, <3>4, <2>2
    <2>5. d \in 0 .. height - 1
      BY <2>3, <2>4
    <2>6. TileRow(i - 1) = d % height
      BY <2>1, <2>5 DEF TileRow
    <2> HIDE DEF d
    <2> QED
      BY <2>4, <2>5, <2>6
  <1> QED
    BY <1>1, TypeCorrect, EvalHolds, PTL

(* On such a line OAM reads are masked at the dots that clear the          *)
(* secondary OAM and at no other: the first dot of the evaluation unmasks  *)
(* them, and whatever was left behind by an earlier line goes with it.     *)
THEOREM MaskInWindow == Spec => []MaskWindow
  <1>1. TypeOK /\ EvalInv /\ MaskWindow /\ [Next]_vars => MaskWindow'
    <2> SUFFICES ASSUME TypeOK, EvalInv, MaskWindow, [Next]_vars, steady', dot' > 0
                 PROVE  maskOamRead' <=> dot' < ClearEnd
      BY DEF MaskWindow
    <2>1. CASE UNCHANGED vars
      BY <2>1 DEF MaskWindow, vars, pipeline
    <2>2. ASSUME NEW overlap \in BOOLEAN, Tick(overlap) PROVE maskOamRead' <=> dot' < ClearEnd
      <3> DEFINE d == (dot + 1) % Dots
                 l == NextLine(d)
      <3>1. /\ dot' = d /\ line' = l /\ UNCHANGED guest
            /\ d \in 0 .. Dots - 1 /\ d # 0 /\ d = dot + 1 /\ l = line
        BY <2>2, SpriteAssumption DEF Tick, TypeOK, NextLine
      <3>2. RunsPipeline(l) /\ steady
        BY <2>2, <3>1 DEF Tick, EvalInv
      <3>3. PipelineOn(l, d, overlap)
        BY <2>2, <3>2 DEF Tick
      <3>4. CASE d < ClearEnd
        <4>1. /\ d \in 1 .. ClearEnd - 1 /\ ~(d >= FetchEnd)
              /\ d \notin ClearEnd + 2 * SpriteMax .. EvalEnd - 1
              /\ d \notin EvalEnd .. FetchEnd - 1
              /\ \A id \in Ids : d # ClearEnd + 2 * id /\ d # ClearEnd + 2 * id + 1
          BY <3>1, <3>4, SpriteAssumption DEF Ids
        <4>2. MaskOam
          BY <3>1, <3>3, <4>1 DEF PipelineOn
        <4> QED
          BY <3>1, <3>4, <4>2 DEF MaskOam
      <3>5. CASE ~(d < ClearEnd)
        <4> SUFFICES ASSUME maskOamRead' PROVE FALSE
          BY <3>1, <3>5
        <4>1. d \notin 1 .. ClearEnd - 1
          BY <3>1, <3>5, SpriteAssumption
        <4>2. maskOamRead' = maskOamRead
          BY <3>1, <3>3, <4>1 DEF PipelineOn, ReadY, CopyIfInRange, Draw, pipeline
        <4>3. d = ClearEnd
          BY <3>1, <3>2, <3>5, <4>2, SpriteAssumption DEF MaskWindow, TypeOK
        <4>4. 0 \in Ids /\ d = ClearEnd + 2 * 0 /\ d < EvalEnd /\ d < FetchEnd
              /\ d \notin ClearEnd + 2 * SpriteMax .. EvalEnd - 1
          BY <4>3, SpriteAssumption DEF Ids
        <4>5. \E id \in Ids : ReadY(id) \/ CopyIfInRange(id)
          BY <3>1, <3>3, <4>1, <4>4, SpriteAssumption DEF PipelineOn
        <4> QED
          BY <4>5 DEF ReadY, CopyIfInRange
      <3> QED
        BY <3>4, <3>5
    <2> QED
      BY <2>1, <2>2 DEF Next, ShowSprites, SetHeight, WriteOAM
  <1>2. Init => MaskWindow
    BY DEF Init, MaskWindow
  <1> QED
    BY <1>1, <1>2, TypeCorrect, EvalHolds, PTL DEF Spec

(* The first copy is of sprite 0 if _has_sprite_0 says so.                 *)
LEMMA Sprite0IsFirst ==
    ASSUME TypeOK, EvalInv, steady, hasSprite0, 0 < Len(buf)
    PROVE  buf[1].id = 0
  <1>1. 0 \in OnLine(Evaluated) /\ 0 \in Ids
    BY DEF EvalInv, ResultIsRight, Sprite0Noticed, OnLine, Evaluated
  <1>2. buf \in Seq(Slot)
    BY DEF TypeOK, Slot
  <1>3. \A i \in 1 .. Len(buf) : buf[i].id \in Nat
    <2>1. Ids \subseteq Nat
      BY SpriteAssumption DEF Ids
    <2>2. \A i \in 1 .. Len(buf) : buf[i] \in Slot
      BY <1>2
    <2> QED
      BY <2>1, <2>2 DEF Slot
  <1>4. Copied(0)
    <2>1. Len(buf) = ActiveMax => ActiveMax \in 1 .. Len(buf)
      BY <1>2, SpriteAssumption
    <2>2. ~(Len(buf) = ActiveMax /\ buf[ActiveMax].id < 0)
      BY <1>3, <2>1
    <2> QED
      BY <1>1, <2>2 DEF EvalInv, ResultIsRight, NoneMissed
  <1>5. PICK i \in 1 .. Len(buf) : buf[i].id = 0
    BY <1>4 DEF Copied
  <1>6. 1 \in 1 .. Len(buf)
    BY <1>2
  <1>7. ~(1 < i)
    <2>1. 1 < i => buf[1].id < buf[i].id
      BY <1>5, <1>6 DEF EvalInv, ResultIsRight, CopiesInOrder
    <2>2. buf[1].id \in Nat
      BY <1>3, <1>6
    <2> QED
      BY <2>1, <2>2, <1>5
  <1> QED
    BY <1>5, <1>7

(* On a line the guest leaves alone only sprite 0 sets the hit flag, and   *)
(* only the pre-render line clears it (fetch_sprite, step_to).             *)
THEOREM HitFlagCorrect == Spec => HitFlagIsRight
  <1>1. TypeOK /\ EvalInv /\ [Next]_vars =>
          [/\ steady /\ ~sprite0Hit /\ sprite0Hit' => buf[1].id = 0
           /\ sprite0Hit /\ ~sprite0Hit' => line' = Lines - 1 /\ dot' = 1]_vars
    <2> SUFFICES ASSUME TypeOK, EvalInv, Next
                 PROVE  /\ steady /\ ~sprite0Hit /\ sprite0Hit' => buf[1].id = 0
                        /\ sprite0Hit /\ ~sprite0Hit' => line' = Lines - 1 /\ dot' = 1
      OBVIOUS
    <2>1. CASE UNCHANGED sprite0Hit
      BY <2>1
    <2>2. ASSUME NEW overlap \in BOOLEAN, Tick(overlap), sprite0Hit' # sprite0Hit
          PROVE  /\ steady /\ ~sprite0Hit /\ sprite0Hit' => buf[1].id = 0
                 /\ sprite0Hit /\ ~sprite0Hit' => line' = Lines - 1 /\ dot' = 1
      <3> DEFINE d == (dot + 1) % Dots
                 l == NextLine(d)
      <3>1. CASE RunsPipeline(l)
        <4>1. PipelineOn(l, d, overlap)
          BY <2>2, <3>1 DEF Tick
        <4>2. PICK i \in {FetchSlot(d)} : d \in EvalEnd .. FetchEnd - 1 /\ IsFetch(d) /\ Draw(i, overlap)
          BY <2>2, <4>1 DEF PipelineOn, StartLine, MaskOam, ReadY, CopyIfInRange, pipeline
        <4>3. ~sprite0Hit /\ sprite0Hit' /\ hasSprite0 /\ i = 0 /\ i < Len(buf)
          BY <4>2, <2>2 DEF Draw, TypeOK
        <4>4. steady => buf[1].id = 0
          BY <4>3, Sprite0IsFirst
        <4> QED
          BY <4>3, <4>4
      <3>2. CASE ~RunsPipeline(l)
        <4>1. BlankLine(l, d) /\ line' = l /\ dot' = d
          BY <2>2, <3>2 DEF Tick
        <4>2. l = Lines - 1 /\ d = 1 /\ sprite0Hit' = FALSE
          BY <4>1, <2>2 DEF BlankLine, pipeline
        <4> QED
          BY <4>1, <4>2
      <3> QED
        BY <3>1, <3>2
    <2> QED
      BY <2>1, <2>2 DEF Next, ShowSprites, SetHeight, WriteOAM, pipeline
  <1> QED
    BY <1>1, TypeCorrect, EvalHolds, PTL DEF Spec, HitFlagIsRight

=============================================================================
