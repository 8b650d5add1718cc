--------------------------- MODULE PpuScrollProofs ---------------------------
(***************************************************************************)
(* What is proved of PpuScroll for every size of tile and screen and any   *)
(* number of accesses by the guest: its typing (v and t stay addresses     *)
(* through every carry), that the PPU leaves v to the data port while      *)
(* rendering is off, and that the picture comes from where t and the fine  *)
(* X scroll say, in column and in row, on every line but the first, and    *)
(* how far off the first one is.                                           *)
(*                                                                         *)
(* The picture rests on three invariants.  ColumnInv ties v to the number  *)
(* of tiles drawn and _x_offset to their pixels, RowInv ties v to the      *)
(* number of lines done, and LatchInv says that v has not moved since the  *)
(* accesses to the tile under way.  All else is counting: how many tiles   *)
(* are drawn when dot d is done (Drawn), and division by TileW.            *)
(***************************************************************************)
EXTENDS PpuScroll, TLAPS

(* The sizes, as the provers need them.                                    *)
LEMMA Sizes ==
    /\ TileW \in Nat \ {0} /\ TileH \in Nat \ {0} /\ Cols \in Nat \ {0} /\ Rows \in Nat \ {0}
    /\ RowCodes \in Nat \ {0} /\ LowByte \in Nat \ {0} /\ MaxWrites \in Nat
    /\ ScreenW \in Nat \ {0} /\ ScreenH \in Nat \ {0}
    /\ Lines \in Nat \ {0} /\ Dots \in Nat \ {0}
<1>1. /\ TileW \in Nat \ {0} /\ TileH \in Nat \ {0} /\ Cols \in Nat \ {0} /\ Rows \in Nat \ {0}
      /\ RowCodes \in Nat \ {0} /\ LowByte \in Nat \ {0} /\ MaxWrites \in Nat
    BY ScrollAssumption DEF ScrollAssumption
<1>2. \A m, n \in Nat \ {0} : m * n \in Nat \ {0}
    OBVIOUS
<1>3. ScreenW \in Nat \ {0} /\ ScreenH \in Nat \ {0}
    BY <1>1, <1>2 DEF ScreenW, ScreenH
<1>4. Lines \in Nat \ {0}
    BY <1>3, ScrollAssumption DEF ScrollAssumption
<1>5. 2 * TileW \in Nat
    BY <1>1
<1>6. Dots \in Nat \ {0}
    BY <1>5, ScrollAssumption DEF ScrollAssumption
<1> QED
    BY <1>1, <1>3, <1>4, <1>6

LEMMA Remainder == ASSUME NEW x \in Int, NEW n \in Nat \ {0} PROVE x % n \in 0 .. n - 1
OBVIOUS

LEMMA Quotient == ASSUME NEW x \in Nat, NEW n \in Nat \ {0} PROVE x \div n \in Nat
OBVIOUS

(* Whatever the sum, what is put back into v is an address.                *)
LEMMA AddressOfType == ASSUME NEW n \in Nat PROVE AddressOf(n) \in Address
<1>1. /\ Cols \in Nat \ {0} /\ RowCodes \in Nat \ {0} /\ TileH \in Nat \ {0}
    BY Sizes
<1>2. Cols * RowCodes \in Nat \ {0}
    BY <1>1
<1>3. 2 * Cols * RowCodes \in Nat \ {0} /\ 4 * Cols * RowCodes \in Nat \ {0}
    BY <1>1, <1>2
<1>4. /\ n \div Cols \in Nat /\ n \div (Cols * RowCodes) \in Nat
      /\ n \div (2 * Cols * RowCodes) \in Nat /\ n \div (4 * Cols * RowCodes) \in Nat
    BY <1>1, <1>2, <1>3, Quotient
<1>5. n % Cols \in 0 .. Cols - 1 /\ (n \div Cols) % RowCodes \in 0 .. RowCodes - 1
    BY <1>1, <1>4, Remainder
<1>6. (n \div (Cols * RowCodes)) % 2 \in 0 .. 1 /\ (n \div (2 * Cols * RowCodes)) % 2 \in 0 .. 1
    BY <1>4
<1>7. (n \div (4 * Cols * RowCodes)) % TileH \in 0 .. TileH - 1
    BY <1>1, <1>4, Remainder
<1> QED
    BY <1>5, <1>6, <1>7 DEF AddressOf, Address

LEMMA WordType == ASSUME NEW a \in Address PROVE Word(a) \in Nat
<1>1. Cols \in Nat /\ RowCodes \in Nat /\ TileH \in Nat
    BY Sizes
<1>2. a.col \in Nat /\ a.row \in Nat /\ a.ntx \in Nat /\ a.nty \in Nat /\ a.fine \in Nat
    BY <1>1 DEF Address
<1>3. \A m, n \in Nat : m * n \in Nat /\ m + n \in Nat
    OBVIOUS
<1>4. a.ntx + 2 * (a.nty + 2 * a.fine) \in Nat
    BY <1>2
<1>5. a.row + RowCodes * (a.ntx + 2 * (a.nty + 2 * a.fine)) \in Nat
    BY <1>1, <1>2, <1>3, <1>4
<1>6. a.col + Cols * (a.row + RowCodes * (a.ntx + 2 * (a.nty + 2 * a.fine))) \in Nat
    BY <1>1, <1>2, <1>3, <1>5
<1> QED
    BY <1>6 DEF Word

LEMMA ZeroType == Zero \in Address
BY AddressOfType DEF Zero

(* One field at a time, a legal value leaves an address.                   *)
LEMMA FieldTypes ==
    ASSUME NEW a \in Address
    PROVE  /\ \A x \in 0 .. TileH - 1 : [a EXCEPT !.fine = x] \in Address
           /\ \A x \in 0 .. 1 : [a EXCEPT !.nty = x] \in Address
           /\ \A x \in 0 .. 1 : [a EXCEPT !.ntx = x] \in Address
           /\ \A x \in 0 .. RowCodes - 1 : [a EXCEPT !.row = x] \in Address
           /\ \A x \in 0 .. Cols - 1 : [a EXCEPT !.col = x] \in Address
BY DEF Address

LEMMA NextColumnType == ASSUME NEW a \in Address PROVE NextColumn(a) \in Address
<1>1. Cols \in Nat \ {0} /\ 0 \in 0 .. Cols - 1
    BY Sizes
<1>2. CASE a.col = Cols - 1
    <2> DEFINE b == [a EXCEPT !.col = 0]
    <2>1. b \in Address
        BY <1>1, FieldTypes
    <2>2. NextColumn(a) = [b EXCEPT !.ntx = 1 - b.ntx]
        BY <1>2 DEF NextColumn, Address
    <2> HIDE DEF b
    <2>3. 1 - b.ntx \in 0 .. 1
        BY <2>1 DEF Address
    <2> QED
        BY <2>1, <2>2, <2>3, FieldTypes
<1>3. CASE a.col # Cols - 1
    BY <1>1, <1>3 DEF Address, NextColumn
<1> QED
    BY <1>2, <1>3

LEMMA NextRowType == ASSUME NEW a \in Address PROVE NextRow(a) \in Address
<1>1. /\ TileH \in Nat \ {0} /\ RowCodes \in Nat \ {0} /\ Cols \in Nat \ {0}
      /\ 0 \in 0 .. TileH - 1 /\ 0 \in 0 .. RowCodes - 1
    BY Sizes
<1>2. CASE a.fine # TileH - 1
    BY <1>1, <1>2 DEF Address, NextRow
<1>3. CASE a.fine = TileH - 1 /\ a.row = Rows - 1
    <2> DEFINE b == [a EXCEPT !.fine = 0]
               c == [b EXCEPT !.row = 0]
    <2>1. b \in Address
        BY <1>1, FieldTypes
    <2>2. c \in Address
        <3> HIDE DEF b
        <3> QED
            BY <1>1, <2>1, FieldTypes
    <2>3. NextRow(a) = [c EXCEPT !.nty = 1 - c.nty]
        BY <1>3 DEF NextRow, Address
    <2> HIDE DEF c
    <2>4. 1 - c.nty \in 0 .. 1
        BY <2>2 DEF Address
    <2> QED
        BY <2>2, <2>3, <2>4, FieldTypes
<1>4. CASE a.fine = TileH - 1 /\ a.row # Rows - 1
    <2>1. [a EXCEPT !.fine = 0] \in Address
        BY <1>1 DEF Address
    <2>2. Word([a EXCEPT !.fine = 0]) + Cols \in Nat
        BY <2>1, <1>1, WordType
    <2>3. NextRow(a) = AddressOf(Word([a EXCEPT !.fine = 0]) + Cols)
        BY <1>4 DEF NextRow
    <2> QED
        BY <2>2, <2>3, AddressOfType
<1> QED
    BY <1>2, <1>3, <1>4

-----------------------------------------------------------------------------
LEMMA InitTypes == Init => TypeOK
<1> SUFFICES ASSUME Init PROVE TypeOK
    OBVIOUS
<1>1. Zero \in Address
    BY ZeroType
<1>2. 0 \in 0 .. TileW - 1 /\ 0 \in 0 .. TileH - 1 /\ 0 \in 0 .. MaxWrites
    BY Sizes
<1>3. xOffset \in 0 .. ScreenW - 1
    BY Sizes DEF Init
<1>4. 0 \in 0 .. Lines - 1 /\ 0 \in 0 .. Dots - 1
    BY Sizes
<1>5. /\ line \in 0 .. Lines - 1 /\ dot \in 0 .. Dots - 1
      /\ fineX \in 0 .. TileW - 1 /\ scrollY \in Nat /\ plane0 \in 0 .. TileH - 1
      /\ writes \in 0 .. MaxWrites
    BY <1>2, <1>4 DEF Init
<1>6. v \in Address /\ t \in Address /\ index \in Address /\ palette \in Address
    BY <1>1 DEF Init
<1>7. ready \in BOOLEAN /\ showBg \in BOOLEAN /\ showSprites \in BOOLEAN /\ toggle \in BOOLEAN
      /\ steadyLine \in BOOLEAN /\ steadyFrame \in BOOLEAN /\ addrInc \in Increments \cup {1}
    BY Zenon DEF Init
<1> QED
    BY <1>3, <1>5, <1>6, <1>7, Zenon DEF TypeOK

-----------------------------------------------------------------------------
LEMMA GuestTypes == TypeOK /\ Guest => TypeOK'
<1> SUFFICES ASSUME TypeOK, Guest PROVE TypeOK'
    OBVIOUS
<1> USE DEF mask, scroll, tile, history, beam
<1>1. /\ v \in Address /\ t \in Address /\ writes \in 0 .. MaxWrites /\ MaxWrites \in Nat
    BY Sizes DEF TypeOK
<1>2. ASSUME GuestActs
      PROVE  /\ writes' \in 0 .. MaxWrites /\ UNCHANGED <<beam, ready, xOffset, tile>>
    BY <1>1, <1>2 DEF GuestActs
<1>3. ASSUME Disturb PROVE steadyLine' \in BOOLEAN /\ steadyFrame' \in BOOLEAN
    BY <1>3, Zenon DEF Disturb
<1>4. CASE \E x, y \in 0 .. 1, inc \in Increments : WritePPUCTRL(x, y, inc)
    <2>1. PICK x \in 0 .. 1, y \in 0 .. 1, inc \in Increments : WritePPUCTRL(x, y, inc)
        BY <1>4
    <2>2. t' \in Address
        <3>1. [t EXCEPT !.ntx = x] \in Address
            BY <1>1, FieldTypes
        <3>2. t' = [[t EXCEPT !.ntx = x] EXCEPT !.nty = y]
            BY <2>1 DEF WritePPUCTRL
        <3> QED
            BY <3>1, <3>2, FieldTypes
    <2>3. GuestActs /\ Disturb /\ addrInc' \in Increments \cup {1}
          /\ UNCHANGED <<mask, v, fineX, scrollY, toggle>>
        BY <2>1 DEF WritePPUCTRL
    <2> QED
        BY <1>2, <1>3, <2>2, <2>3, Zenon DEF TypeOK
<1>5. CASE \E bg, sprites \in BOOLEAN : WritePPUMASK(bg, sprites)
    <2>1. GuestActs /\ Disturb /\ showBg' \in BOOLEAN /\ showSprites' \in BOOLEAN
          /\ UNCHANGED <<v, scroll, addrInc>>
        BY <1>5, Zenon DEF WritePPUMASK
    <2> QED
        BY <1>2, <1>3, <2>1, Zenon DEF TypeOK
<1>6. CASE ReadPPUSTATUS
    <2>1. GuestActs /\ toggle' \in BOOLEAN
          /\ UNCHANGED <<mask, v, t, fineX, scrollY, addrInc, history>>
        BY <1>6, Zenon DEF ReadPPUSTATUS
    <2> QED
        BY <1>2, <2>1, Zenon DEF TypeOK
<1>7. CASE \E val \in ScrollBytes : WritePPUSCROLL(val)
    <2>1. PICK val \in ScrollBytes : WritePPUSCROLL(val)
        BY <1>7
    <2>2. val \in Nat /\ val \div TileW < Cols /\ val \div TileH < RowCodes
        BY ScrollAssumption DEF ScrollAssumption
    <2>3. TileW \in Nat \ {0} /\ TileH \in Nat \ {0} /\ Cols \in Nat \ {0} /\ RowCodes \in Nat \ {0}
        BY Sizes
    <2>4. val \div TileW \in 0 .. Cols - 1 /\ val \div TileH \in 0 .. RowCodes - 1
        BY <2>2, <2>3, Quotient
    <2>5. val % TileW \in 0 .. TileW - 1 /\ val % TileH \in 0 .. TileH - 1
        BY <2>2, <2>3, Remainder
    <2>6. t' \in Address
        <3>1. [t EXCEPT !.row = val \div TileH] \in Address /\ [t EXCEPT !.col = val \div TileW] \in Address
            BY <1>1, <2>4, FieldTypes
        <3>2. [[t EXCEPT !.row = val \div TileH] EXCEPT !.fine = val % TileH] \in Address
            BY <3>1, <2>5, FieldTypes
        <3>3. t' = [[t EXCEPT !.row = val \div TileH] EXCEPT !.fine = val % TileH]
              \/ t' = [t EXCEPT !.col = val \div TileW]
            BY <2>1 DEF WritePPUSCROLL
        <3> QED
            BY <3>1, <3>2, <3>3
    <2>7. fineX' \in 0 .. TileW - 1 /\ scrollY' \in Nat
        BY <2>1, <2>2, <2>5 DEF WritePPUSCROLL, TypeOK
    <2>8. GuestActs /\ Disturb /\ toggle' \in BOOLEAN /\ UNCHANGED <<mask, v, addrInc>>
        BY <2>1, Zenon DEF WritePPUSCROLL
    <2> QED
        BY <1>2, <1>3, <2>6, <2>7, <2>8, Zenon DEF TypeOK
<1>8. CASE \E high \in HighBytes, low \in LowBytes : WritePPUADDR(high, low)
    <2>1. PICK high \in HighBytes, low \in LowBytes : WritePPUADDR(high, low)
        BY <1>8
    <2>2. high \in Nat /\ low \in Nat /\ LowByte \in Nat \ {0} /\ Word(t) \in Nat
        BY <1>1, WordType, ScrollAssumption, Sizes DEF ScrollAssumption
    <2>3. Word(t) \div LowByte \in Nat /\ Word(t) % LowByte \in Nat
        BY <2>2, Quotient
    <2>4. \A m, n, k \in Nat : m * n + k \in Nat
        OBVIOUS
    <2>5. (Word(t) \div LowByte) * LowByte + low \in Nat /\ LowByte * high + (Word(t) % LowByte) \in Nat
        BY <2>2, <2>3, <2>4
    <2>6. t' \in Address
        <3>1. /\ AddressOf((Word(t) \div LowByte) * LowByte + low) \in Address
              /\ AddressOf(LowByte * high + (Word(t) % LowByte)) \in Address
            BY <2>5, AddressOfType
        <3> QED
            BY <2>1, <3>1 DEF WritePPUADDR
    <2>7. v' \in Address
        BY <2>1, <2>6, <1>1 DEF WritePPUADDR
    <2>8. GuestActs /\ Disturb /\ toggle' \in BOOLEAN /\ UNCHANGED <<mask, fineX, scrollY, addrInc>>
        BY <2>1, Zenon DEF WritePPUADDR
    <2> QED
        BY <1>2, <1>3, <2>6, <2>7, <2>8, Zenon DEF TypeOK
<1>9. CASE AccessPPUDATA
    <2>1. addrInc \in Nat /\ Word(v) \in Nat
        BY <1>1, WordType, ScrollAssumption DEF ScrollAssumption, TypeOK
    <2>2. v' \in Address
        BY <1>9, <2>1, AddressOfType DEF AccessPPUDATA
    <2>3. GuestActs /\ Disturb /\ UNCHANGED <<mask, scroll, addrInc>>
        BY <1>9 DEF AccessPPUDATA
    <2> QED
        BY <1>2, <1>3, <2>2, <2>3, Zenon DEF TypeOK
<1> QED
    BY <1>4, <1>5, <1>6, <1>7, <1>8, <1>9 DEF Guest

(* One dot of the pipeline.                                                *)
LEMMA PipelineTypes ==
    ASSUME TypeOK, NEW l \in Nat, NEW d \in Nat, Pipeline(l, d)
    PROVE  /\ v' \in Address /\ xOffset' \in 0 .. ScreenW - 1
           /\ index' \in Address /\ palette' \in Address /\ plane0' \in 0 .. TileH - 1
<1>1. /\ v \in Address /\ t \in Address /\ index \in Address /\ palette \in Address
      /\ plane0 \in 0 .. TileH - 1 /\ xOffset \in 0 .. ScreenW - 1
      /\ fineX \in 0 .. TileW - 1 /\ scrollY \in Nat
    BY DEF TypeOK
<1>2. TileW \in Nat \ {0} /\ TileH \in Nat \ {0} /\ ScreenW \in Nat \ {0} /\ ScreenH \in Nat \ {0}
      /\ Cols \in Nat \ {0}
    BY Sizes
<1>3. CASE FetchTile(l, d)
    <2>1. plane0' \in 0 .. TileH - 1
        <3>1. (l + 1) % ScreenH \in Nat
            BY <1>2
        <3>2. TargetLine(l, d) \in Nat
            BY <3>1 DEF TargetLine
        <3>3. TileRow(l, d) \in 0 .. TileH - 1
            <4>1. TargetLine(l, d) + scrollY \in Int
                BY <1>1, <3>2
            <4> QED
                BY <1>2, <4>1, Remainder DEF TileRow
        <3> QED
            BY <1>1, <1>3, <3>3 DEF FetchTile
    <2>2. xOffset' \in 0 .. ScreenW - 1
        <3>1. EndPixel(d) \in Int /\ FirstPixel(d) \in Int
            BY <1>1, <1>2 DEF EndPixel, FirstPixel
        <3>2. xOffset + EndPixel(d) - FirstPixel(d) \in Int
            BY <1>1, <1>2, <3>1
        <3>3. (xOffset + EndPixel(d) - FirstPixel(d)) % ScreenW \in 0 .. ScreenW - 1
            BY <1>2, <3>2, Remainder
        <3> QED
            BY <1>1, <1>3, <3>3 DEF FetchTile
    <2>3. v' \in Address
        <3>1. NextColumn(v) \in Address
            BY <1>1, NextColumnType
        <3>2. NextRow(v) \in Address /\ NextRow(NextColumn(v)) \in Address
            BY <1>1, <3>1, NextRowType
        <3> QED
            BY <1>1, <1>3, <3>1, <3>2 DEF FetchTile
    <2> QED
        BY <1>1, <1>3, <2>1, <2>2, <2>3 DEF FetchTile
<1>4. CASE HorizontalReset
    <2>1. t.col \in 0 .. Cols - 1 /\ t.ntx \in 0 .. 1
        BY <1>1 DEF Address
    <2>2. [v EXCEPT !.col = t.col] \in Address
        BY <1>1, <2>1, FieldTypes
    <2>3. [[v EXCEPT !.col = t.col] EXCEPT !.ntx = t.ntx] \in Address
        BY <2>1, <2>2, FieldTypes
    <2>4. v' = [[v EXCEPT !.col = t.col] EXCEPT !.ntx = t.ntx]
        BY <1>4 DEF HorizontalReset
    <2>5. xOffset' \in 0 .. ScreenW - 1
        BY <1>2, <1>4 DEF HorizontalReset
    <2> QED
        BY <1>1, <1>4, <2>3, <2>4, <2>5 DEF HorizontalReset, tile
<1>5. CASE UNCHANGED <<v, xOffset, tile>>
    BY <1>1, <1>5 DEF tile
<1> QED
    BY <1>3, <1>4, <1>5 DEF Pipeline

LEMMA TickTypes == TypeOK /\ Tick => TypeOK'
<1> SUFFICES ASSUME TypeOK, Tick PROVE TypeOK'
    OBVIOUS
<1> DEFINE d == (dot + 1) % Dots
           l == IF d = 0 THEN (line + 1) % Lines ELSE line
<1>1. Dots \in Nat \ {0} /\ Lines \in Nat \ {0}
    BY Sizes
<1>2. line \in 0 .. Lines - 1 /\ dot \in 0 .. Dots - 1
    BY DEF TypeOK
<1>3. d \in 0 .. Dots - 1
    BY <1>1, <1>2, Remainder
<1>4. l \in 0 .. Lines - 1
    <2>1. (line + 1) % Lines \in 0 .. Lines - 1
        BY <1>1, <1>2, Remainder
    <2> QED
        BY <2>1, <1>2
<1>5. dot' = d /\ line' = l
    BY DEF Tick
<1>6. Pipeline(l, d) \/ (v' = t /\ UNCHANGED <<xOffset, tile>>) \/ UNCHANGED <<v, xOffset, tile>>
    <2>1. LET on == showBg /\ l < ScreenH
          IN  \/ on /\ Pipeline(l, d)
              \/ ~on /\ TopOfFrame(l, d) /\ v' = t /\ UNCHANGED <<xOffset, tile>>
              \/ ~on /\ ~TopOfFrame(l, d) /\ UNCHANGED <<v, xOffset, tile>>
        BY DEF Tick
    <2> HIDE DEF d, l
    <2> QED
        BY <2>1
<1>7. steadyFrame' = steadyFrame \/ steadyFrame' = (showBg /\ ScrollIsSet)
    BY Zenon DEF Tick
<1>8. steadyLine' \in BOOLEAN
    BY Zenon DEF Tick
<1>9. ready' \in {ready, TRUE} /\ UNCHANGED <<mask, scroll, addrInc, writes>>
    BY DEF Tick
<1> HIDE DEF d, l
<1>10. /\ v' \in Address /\ xOffset' \in 0 .. ScreenW - 1
       /\ index' \in Address /\ palette' \in Address /\ plane0' \in 0 .. TileH - 1
    <2>1. l \in Nat /\ d \in Nat
        BY <1>1, <1>3, <1>4
    <2>2. CASE Pipeline(l, d)
        BY <2>1, <2>2, PipelineTypes
    <2>3. CASE v' = t /\ UNCHANGED <<xOffset, tile>>
        BY <2>3 DEF TypeOK, tile
    <2>4. CASE UNCHANGED <<v, xOffset, tile>>
        BY <2>4 DEF TypeOK, tile
    <2> QED
        BY <2>2, <2>3, <2>4, <1>6
<1>11. ready' \in BOOLEAN /\ steadyFrame' \in BOOLEAN
    BY <1>7, <1>9, Zenon DEF TypeOK
<1>12. line' \in 0 .. Lines - 1 /\ dot' \in 0 .. Dots - 1
    BY <1>3, <1>4, <1>5
<1> QED
    BY <1>8, <1>9, <1>10, <1>11, <1>12, Zenon DEF TypeOK, mask, scroll

(* v and t stay addresses of the four name tables through every carry, and *)
(* the place of the next pixel stays on the screen.                        *)
THEOREM TypeCorrect == Spec => []TypeOK
<1>1. Init => TypeOK
    BY InitTypes
<1>2. TypeOK /\ [Next]_vars => TypeOK'
    <2>1. TypeOK /\ UNCHANGED vars => TypeOK'
        BY DEF TypeOK, vars, beam, mask, scroll, tile, history
    <2> QED
        BY <2>1, TickTypes, GuestTypes DEF Next
<1> QED
    BY <1>1, <1>2, PTL DEF Spec

(* nes_ppu.cpp:528-529: with background and sprites off no dot moves v,    *)
(* through which the program is filling video memory: neither the          *)
(* pipeline nor the copy of t on the pre-render line.                      *)
THEOREM PortUndisturbed == Spec => DataPortUndisturbed
<1> DEFINE A == dot' # dot /\ ~showBg /\ ~showSprites => v' = v
<1>1. [Next]_vars => A
    <2>1. Tick => A
        BY DEF Tick, TopOfFrame
    <2>2. Guest => dot' = dot
        BY DEF Guest, WritePPUCTRL, WritePPUMASK, ReadPPUSTATUS, WritePPUSCROLL, WritePPUADDR,
               AccessPPUDATA, GuestActs, beam
    <2>3. UNCHANGED vars => dot' = dot
        BY DEF vars, beam
    <2> QED
        BY <2>1, <2>2, <2>3 DEF Next
<1>2. DataPortUndisturbed <=> [][A]_vars
    BY DEF DataPortUndisturbed
<1> HIDE DEF A
<1> QED
    BY <1>1, <1>2, PTL DEF Spec

-----------------------------------------------------------------------------
(* Counting in tiles. *)

LEMMA ProductOrder ==
    ASSUME NEW w \in Nat, NEW m \in Int, NEW n \in Int, m <= n
    PROVE  m * w <= n * w
<1>1. (n - m) * w >= 0
    OBVIOUS
<1>2. (n - m) * w = (n * w) - (m * w)
    OBVIOUS
<1>3. m * w \in Int /\ n * w \in Int
    OBVIOUS
<1> QED
    BY <1>1, <1>2, <1>3

LEMMA Decompose ==
    ASSUME NEW x \in Int, NEW n \in Nat \ {0}
    PROVE  x \div n \in Int /\ x % n \in 0 .. n - 1 /\ x = ((x \div n) * n) + (x % n)
OBVIOUS

(* The quotient and the remainder are the only ones there can be.          *)
LEMMA Division ==
    ASSUME NEW n \in Nat \ {0}, NEW q \in Int, NEW r \in 0 .. n - 1, NEW x \in Int, x = (q * n) + r
    PROVE  x \div n = q /\ x % n = r
<1> DEFINE d == x \div n
           m == x % n
<1>1. d \in Int /\ m \in 0 .. n - 1 /\ x = (d * n) + m
    BY Decompose
<1> HIDE DEF d, m
<1>2. d * n \in Int /\ q * n \in Int /\ (d + 1) * n = (d * n) + n /\ (q + 1) * n = (q * n) + n
    BY <1>1
<1>3. ~(d < q)
  <2> SUFFICES ASSUME d < q PROVE FALSE
      OBVIOUS
  <2>1. (d + 1) * n <= q * n
      BY <1>1, ProductOrder
  <2> QED
      BY <1>1, <1>2, <2>1
<1>4. ~(q < d)
  <2> SUFFICES ASSUME q < d PROVE FALSE
      OBVIOUS
  <2>1. (q + 1) * n <= d * n
      BY <1>1, ProductOrder
  <2> QED
      BY <1>1, <1>2, <2>1
<1>5. d = q
    BY <1>1, <1>3, <1>4
<1>6. m = r
    BY <1>1, <1>2, <1>5
<1> QED
    BY <1>5, <1>6 DEF d, m

LEMMA Quarters == Access \in Nat \ {0} /\ TileW = 4 * Access
BY Sizes, ScrollAssumption DEF ScrollAssumption, Access

LEMMA Screen ==
    /\ PrefetchAt \in Nat /\ ScreenW < PrefetchAt /\ PrefetchAt + (2 * TileW) < Dots
    /\ ScreenH + 1 < Lines /\ TileW <= ScreenW
<1>1. 1 * TileW <= Cols * TileW
    BY Sizes, ProductOrder
<1> QED
    BY <1>1, Sizes, ScrollAssumption DEF ScrollAssumption, ScreenW

(* After s dots spent on tiles, how many of them have made their draw,     *)
(* which is the last of four accesses.                                     *)
Tiles(s) == (s + Access) \div TileW

LEMMA TilesStep ==
    ASSUME NEW s \in Int
    PROVE  /\ s % TileW = 3 * Access => Tiles(s - 1) = s \div TileW /\ Tiles(s) = (s \div TileW) + 1
           /\ s % TileW # 3 * Access => Tiles(s) = Tiles(s - 1)
<1> DEFINE w == TileW
           q == s \div TileW
           p == s % TileW
<1>1. q \in Int /\ p \in 0 .. w - 1 /\ s = (q * w) + p /\ w \in Nat \ {0}
    BY Sizes, Decompose
<1>2. Access \in Nat \ {0} /\ w = 4 * Access
    BY Quarters
<1> HIDE DEF w, q, p
<1>3. (q + 1) * w = (q * w) + w /\ q * w \in Int
    BY <1>1
<1>4. CASE p < 3 * Access
  <2>1. s + Access = (q * w) + (p + Access) /\ (s - 1) + Access = (q * w) + (p - 1 + Access)
      BY <1>1, <1>2, <1>3
  <2>2. p + Access \in 0 .. w - 1 /\ p - 1 + Access \in 0 .. w - 1
      BY <1>1, <1>2, <1>4
  <2>3. (s + Access) \div w = q /\ ((s - 1) + Access) \div w = q
      BY <1>1, <1>2, <2>1, <2>2, Division
  <2> QED
      BY <1>4, <2>3, <1>2 DEF Tiles, w, p
<1>5. CASE p = 3 * Access
  <2>1. s + Access = ((q + 1) * w) + 0 /\ (s - 1) + Access = (q * w) + (w - 1)
      BY <1>1, <1>2, <1>3, <1>5
  <2>2. 0 \in 0 .. w - 1 /\ w - 1 \in 0 .. w - 1
      BY <1>1
  <2>3. (s + Access) \div w = q + 1
      BY <1>1, <1>2, <2>1, <2>2, Division
  <2>4. ((s - 1) + Access) \div w = q
      BY <1>1, <1>2, <2>1, <2>2, Division
  <2> QED
      BY <1>5, <2>3, <2>4 DEF Tiles, w, p, q
<1>6. CASE p > 3 * Access
  <2>1. /\ s + Access = ((q + 1) * w) + (p + Access - w)
        /\ (s - 1) + Access = ((q + 1) * w) + (p - 1 + Access - w)
      BY <1>1, <1>2, <1>3
  <2>2. p + Access - w \in 0 .. w - 1 /\ p - 1 + Access - w \in 0 .. w - 1 /\ q + 1 \in Int
      BY <1>1, <1>2, <1>6
  <2>3. (s + Access) \div w = q + 1
      BY <1>1, <1>2, <2>1, <2>2, Division
  <2>4. ((s - 1) + Access) \div w = q + 1
      BY <1>1, <1>2, <2>1, <2>2, Division
  <2> QED
      BY <1>6, <2>3, <2>4, <1>2, <1>1 DEF Tiles, w, p
<1>7. p \in Int /\ 3 * Access \in Int
    BY <1>1, <1>2
<1> QED
    BY <1>4, <1>5, <1>6, <1>7

(* Two tiles are drawn after 2 * TileW dots, none at the start.            *)
LEMMA FirstTiles == Tiles(-1) = 0 /\ Tiles((2 * TileW) - 1) = 2
<1>1. TileW \in Nat \ {0} /\ Access \in Nat \ {0} /\ TileW = 4 * Access
    BY Sizes, Quarters
<1> DEFINE w == TileW
           a == Access
<1>2. -1 + a = (0 * w) + (a - 1) /\ ((2 * w) - 1) + a = (2 * w) + (a - 1) /\ a - 1 \in 0 .. w - 1
    BY <1>1
<1> HIDE DEF w, a
<1>3. w \in Nat \ {0} /\ a \in Nat \ {0}
    BY <1>1 DEF w, a
<1>4. (-1 + a) \div w = 0
    BY <1>2, <1>3, Division
<1>5. (((2 * w) - 1) + a) \div w = 2
    BY <1>2, <1>3, Division
<1> QED
    BY <1>4, <1>5 DEF Tiles, w, a


-----------------------------------------------------------------------------
(* Counting in dots: the tiles drawn for a line when dot d is done, and    *)
(* the pixels they have filled, with f for the fine X scroll.              *)

Fetched(d) ==
    IF d > PrefetchAt + (2 * TileW) THEN 2
    ELSE IF d > ScreenW /\ d <= PrefetchAt THEN 0
    ELSE Tiles(Source(d))

TilesOfLine(f) == IF f > 0 THEN Cols + 1 ELSE Cols

Drawn(d, f) == IF Fetched(d) < TilesOfLine(f) THEN Fetched(d) ELSE TilesOfLine(f)

OffsetAfter(n, f) == IF n = 0 \/ n = TilesOfLine(f) THEN 0 ELSE (n * TileW) - f

(* A dot that fetches, and the one before it.                              *)
LEMMA FetchDots ==
    ASSUME NEW d \in Nat, Fetches(d)
    PROVE  /\ d >= 1 /\ d # ScreenW + 1 /\ d < Dots
           /\ Source(d) \in Nat
           /\ Prefetching(d) => d > ScreenW /\ Source(d) < 2 * TileW
           /\ ~Prefetching(d) => d <= ScreenW /\ Source(d) >= 2 * TileW
           /\ Fetched(d) = Tiles(Source(d)) /\ Fetched(d - 1) = Tiles(Source(d) - 1)
<1>1. /\ TileW \in Nat \ {0} /\ ScreenW \in Nat \ {0} /\ PrefetchAt \in Nat /\ Dots \in Nat
      /\ ScreenW < PrefetchAt /\ PrefetchAt + (2 * TileW) < Dots
    BY Sizes, Screen
<1>2. CASE d \in 1 .. ScreenW
  <2>1. ~Prefetching(d) /\ ~Prefetching(d - 1)
      BY <1>1, <1>2 DEF Prefetching
  <2>2. Source(d) = d - 1 + (2 * TileW) /\ Source(d - 1) = Source(d) - 1
      BY <2>1, <1>1, <1>2 DEF Source
  <2>3. Fetched(d) = Tiles(Source(d)) /\ Fetched(d - 1) = Tiles(Source(d - 1))
      BY <1>1, <1>2 DEF Fetched
  <2> QED
      BY <2>1, <2>2, <2>3, <1>1, <1>2
<1>3. CASE d \in PrefetchAt + 1 .. PrefetchAt + (2 * TileW)
  <2>1. Prefetching(d) /\ Source(d) = d - (PrefetchAt + 1)
      BY <1>1, <1>3 DEF Prefetching, Source
  <2>2. Fetched(d) = Tiles(Source(d))
      BY <1>1, <1>3 DEF Fetched
  <2>3. Fetched(d - 1) = Tiles(Source(d) - 1)
    <3>1. CASE d = PrefetchAt + 1
      <4>1. Fetched(d - 1) = 0
          BY <1>1, <3>1 DEF Fetched
      <4>2. Source(d) - 1 = -1
          BY <1>1, <2>1, <3>1
      <4> QED
          BY <4>1, <4>2, FirstTiles
    <3>2. CASE d # PrefetchAt + 1
      <4>1. Prefetching(d - 1) /\ Source(d - 1) = Source(d) - 1
          BY <1>1, <1>3, <2>1, <3>2 DEF Prefetching, Source
      <4>2. Fetched(d - 1) = Tiles(Source(d - 1))
          BY <1>1, <1>3, <3>2 DEF Fetched
      <4> QED
          BY <4>1, <4>2
    <3> QED
        BY <3>1, <3>2
  <2> QED
      BY <2>1, <2>2, <2>3, <1>1, <1>3
<1> QED
    BY <1>2, <1>3 DEF Fetches

LEMMA IdleDots ==
    /\ Fetched(0) = 2 /\ Fetched(Dots - 1) = 2 /\ Fetched(ScreenW + 1) = 0
    /\ ~Fetches(0) /\ 0 # ScreenW + 1
    /\ \A d \in Nat : d < Dots /\ d >= 1 /\ ~Fetches(d) /\ d # ScreenW + 1
                         => Fetched(d) = Fetched(d - 1) /\ (d > ScreenW <=> d - 1 > ScreenW) /\ d # ScreenW
<1>1. /\ TileW \in Nat \ {0} /\ ScreenW \in Nat \ {0} /\ PrefetchAt \in Nat /\ Dots \in Nat
      /\ ScreenW < PrefetchAt /\ PrefetchAt + (2 * TileW) < Dots
    BY Sizes, Screen
<1>2. Fetched(0) = 2
  <2>1. Source(0) = (2 * TileW) - 1
      BY <1>1 DEF Source, Prefetching
  <2> QED
      BY <2>1, <1>1, FirstTiles DEF Fetched
<1>3. Fetched(PrefetchAt + (2 * TileW)) = 2
  <2> DEFINE e == PrefetchAt + (2 * TileW)
  <2>1. Source(e) = (2 * TileW) - 1
      BY <1>1 DEF Source, Prefetching
  <2>2. Fetched(e) = Tiles(Source(e))
      BY <1>1 DEF Fetched
  <2> QED
      BY <2>1, <2>2, FirstTiles
<1>4. Fetched(Dots - 1) = 2
  <2>1. CASE Dots - 1 = PrefetchAt + (2 * TileW)
      BY <2>1, <1>3
  <2>2. CASE Dots - 1 # PrefetchAt + (2 * TileW)
      BY <2>2, <1>1 DEF Fetched
  <2> QED
      BY <2>1, <2>2
<1>5. Fetched(ScreenW + 1) = 0 /\ ~Fetches(0) /\ 0 # ScreenW + 1
    BY <1>1 DEF Fetched, Fetches
<1>6. ASSUME NEW d \in Nat, d < Dots, d >= 1, ~Fetches(d), d # ScreenW + 1
      PROVE  Fetched(d) = Fetched(d - 1) /\ (d > ScreenW <=> d - 1 > ScreenW) /\ d # ScreenW
  <2>1. d \in ScreenW + 2 .. PrefetchAt \/ d > PrefetchAt + (2 * TileW)
      BY <1>1, <1>6 DEF Fetches
  <2>2. CASE d \in ScreenW + 2 .. PrefetchAt
      BY <2>2, <1>1 DEF Fetched
  <2>3. CASE d = PrefetchAt + (2 * TileW) + 1
    <3>1. d - 1 = PrefetchAt + (2 * TileW)
        BY <2>3, <1>1
    <3>2. Fetched(d) = 2
        BY <2>3, <1>1 DEF Fetched
    <3> QED
        BY <3>1, <3>2, <2>3, <1>1, <1>3
  <2>4. CASE d > PrefetchAt + (2 * TileW) + 1
      BY <2>4, <1>1 DEF Fetched
  <2> QED
      BY <2>1, <2>2, <2>3, <2>4, <1>1
<1> QED
    BY <1>2, <1>4, <1>5, <1>6

LEMMA TileNumbers ==
    ASSUME NEW d \in Nat, Fetches(d)
    PROVE  /\ TileNo(d) \in Nat /\ Fetched(d) \in Nat /\ Fetched(d - 1) \in Nat
           /\ AccessIs(3, d) => Fetched(d - 1) = TileNo(d) /\ Fetched(d) = TileNo(d) + 1
           /\ ~AccessIs(3, d) => Fetched(d) = Fetched(d - 1)
           /\ ~Prefetching(d) => TileNo(d) >= 2
<1>1. Source(d) \in Nat /\ TileW \in Nat \ {0} /\ Access \in Nat \ {0}
    BY FetchDots, Sizes, Quarters
<1>2. TileNo(d) \in Nat
    BY <1>1, Quotient DEF TileNo
<1>3. /\ AccessIs(3, d) => Fetched(d - 1) = TileNo(d) /\ Fetched(d) = TileNo(d) + 1
      /\ ~AccessIs(3, d) => Fetched(d) = Fetched(d - 1)
    BY <1>1, FetchDots, TilesStep DEF AccessIs, TileNo
<1>4. Fetched(d) \in Nat
  <2>1. Source(d) + Access \in Nat
      BY <1>1
  <2> QED
      BY <1>1, <2>1, FetchDots, Quotient DEF Tiles
<1>5. Fetched(d - 1) \in Nat
    BY <1>2, <1>3, <1>4
<1>6. ~Prefetching(d) => TileNo(d) >= 2
  <2> SUFFICES ASSUME ~Prefetching(d), TileNo(d) < 2 PROVE FALSE
      BY <1>2
  <2> DEFINE q == Source(d) \div TileW
             p == Source(d) % TileW
  <2>1. q \in Int /\ p \in 0 .. TileW - 1 /\ Source(d) = (q * TileW) + p
    <3>1. Source(d) \in Int
        BY <1>1
    <3> QED
        BY <1>1, <3>1, Decompose
  <2>2. Source(d) >= 2 * TileW
      BY FetchDots
  <2>3. q < 2
      BY DEF TileNo
  <2> HIDE DEF q, p
  <2>4. q * TileW <= 1 * TileW
    <3>1. q <= 1 /\ 1 \in Int /\ TileW \in Nat
        BY <1>1, <2>1, <2>3
    <3> QED
        BY <2>1, <3>1, ProductOrder
  <2>5. q * TileW \in Int
      BY <1>1, <2>1
  <2> QED
      BY <1>1, <2>1, <2>2, <2>4, <2>5
<1> QED
    BY <1>2, <1>3, <1>4, <1>5, <1>6

(* A draw is of the tile after those drawn, and there is always room for   *)
(* it on the line.                                                         *)
LEMMA DrawnStep ==
    ASSUME TypeOK, NEW d \in Nat, Fetches(d)
    PROVE  /\ Draws(d) => /\ TileNo(d) < TilesOfLine(fineX) /\ TileNo(d) \in Nat
                          /\ Drawn(d - 1, fineX) = TileNo(d) /\ Drawn(d, fineX) = TileNo(d) + 1
           /\ ~Draws(d) => Drawn(d, fineX) = Drawn(d - 1, fineX)
<1>1. Cols \in Nat \ {0} /\ fineX \in Nat
    BY Sizes DEF TypeOK
<1>2. TilesOfLine(fineX) \in Nat \ {0} /\ (Wanted(TileNo(d)) <=> TileNo(d) < TilesOfLine(fineX))
    BY <1>1, TileNumbers DEF TilesOfLine, Wanted
<1> QED
    BY <1>2, TileNumbers DEF Draws, Drawn

LEMMA DrawnType ==
    ASSUME TypeOK
    PROVE  /\ TilesOfLine(fineX) \in Nat \ {0} /\ Drawn(0, fineX) \in Nat
           /\ Drawn(ScreenW + 1, fineX) = 0
           /\ Drawn(0, fineX) = Drawn(Dots - 1, fineX)
           /\ TilesOfLine(fineX) > 2 => Drawn(0, fineX) = 2
<1>1. Cols \in Nat \ {0} /\ fineX \in Nat
    BY Sizes DEF TypeOK
<1>2. TilesOfLine(fineX) \in Nat \ {0}
    BY <1>1 DEF TilesOfLine
<1> QED
    BY <1>2, IdleDots DEF Drawn

(* The offset of the next tile after each: the first tile is less by the   *)
(* fine X scroll, the last is that much of a tile, and wraps to 0.         *)
LEMMA OffsetStep ==
    ASSUME TypeOK, NEW d \in Nat, TileNo(d) \in Nat, TileNo(d) < TilesOfLine(fineX)
    PROVE  (OffsetAfter(TileNo(d), fineX) + EndPixel(d) - FirstPixel(d)) % ScreenW
               = OffsetAfter(TileNo(d) + 1, fineX)
<1> DEFINE n == TileNo(d)
           f == fineX
           w == TileW
           x == OffsetAfter(n, f) + EndPixel(d) - FirstPixel(d)
<1>1. /\ Cols \in Nat \ {0} /\ w \in Nat \ {0} /\ f \in 0 .. w - 1 /\ n \in Nat
      /\ ScreenW = Cols * w /\ ScreenW \in Nat \ {0}
    BY Sizes DEF TypeOK, ScreenW
<1>2. n <= Cols /\ (n = Cols => f > 0)
    BY <1>1 DEF TilesOfLine
<1>3. (n + 1) * w = (n * w) + w /\ n * w \in Nat /\ w <= (n + 1) * w
    BY <1>1
<1>4. x = IF n = Cols THEN ScreenW ELSE ((n + 1) * w) - f
  <2>1. CASE n = 0
    <3>1. OffsetAfter(n, f) = 0 /\ FirstPixel(d) = f /\ EndPixel(d) = w
        BY <2>1, <1>1 DEF OffsetAfter, FirstPixel, EndPixel
    <3> HIDE DEF n, f
    <3> QED
        BY <2>1, <3>1, <1>1, <1>3
  <2>2. CASE n # 0 /\ n = Cols
    <3>1. OffsetAfter(n, f) = (n * w) - f /\ FirstPixel(d) = 0 /\ EndPixel(d) = f
        BY <2>2, <1>1, <1>2 DEF OffsetAfter, FirstPixel, EndPixel, TilesOfLine
    <3> HIDE DEF n, f
    <3> QED
        BY <2>2, <3>1, <1>1, <1>3
  <2>3. CASE n # 0 /\ n # Cols
    <3>1. OffsetAfter(n, f) = (n * w) - f /\ FirstPixel(d) = 0 /\ EndPixel(d) = w
        BY <2>3, <1>1, <1>2 DEF OffsetAfter, FirstPixel, EndPixel, TilesOfLine
    <3> HIDE DEF n, f
    <3> QED
        BY <2>3, <3>1, <1>1, <1>3
  <2> QED
      BY <2>1, <2>2, <2>3
<1> HIDE DEF x
<1>5. CASE n = Cols \/ (n + 1 = Cols /\ f = 0)
  <2>1. x = (1 * ScreenW) + 0 /\ n + 1 = TilesOfLine(f)
      BY <1>1, <1>2, <1>4, <1>5 DEF TilesOfLine
  <2>2. x % ScreenW = 0
    <3>1. 0 \in 0 .. ScreenW - 1 /\ 1 \in Int /\ x \in Int
        BY <1>1, <2>1
    <3> QED
        BY <1>1, <2>1, <3>1, Division
  <2> QED
      BY <2>1, <2>2 DEF OffsetAfter, x
<1>6. CASE n # Cols /\ ~(n + 1 = Cols /\ f = 0)
  <2>1. n + 1 # TilesOfLine(f) /\ n + 1 # 0
      BY <1>1, <1>2, <1>6 DEF TilesOfLine
  <2>2. (n + 1) * w <= Cols * w
      BY <1>1, <1>2, <1>6, ProductOrder
  <2>3. f = 0 => (n + 1) * w < Cols * w
    <3> SUFFICES ASSUME f = 0 PROVE (n + 1) * w < Cols * w
        OBVIOUS
    <3>1. (n + 2) * w <= Cols * w
        BY <1>1, <1>2, <1>6, ProductOrder
    <3>2. (n + 2) * w = ((n + 1) * w) + w
        BY <1>1
    <3> QED
        BY <1>1, <1>3, <3>1, <3>2
  <2>4. x \in 0 .. ScreenW - 1
      BY <1>1, <1>2, <1>3, <1>4, <1>6, <2>2, <2>3
  <2>5. x % ScreenW = x
      BY <1>1, <2>4
  <2>6. OffsetAfter(n + 1, f) = ((n + 1) * w) - f
      BY <2>1 DEF OffsetAfter
  <2> QED
      BY <1>4, <1>6, <2>5, <2>6 DEF x
<1> QED
    BY <1>5, <1>6


-----------------------------------------------------------------------------
(* An address as a place in the world, and how the two steps of v move it. *)

TileCol(a) == (a.ntx * Cols) + a.col

PixelRow(a) == WorldY(a) + a.fine

(* x is y, or that once round the world.                                   *)
Around(y, m) == {y, y - m}

LEMMA AroundStep ==
    ASSUME NEW m \in Nat, NEW y \in Int, y < (2 * m) - 1,
           NEW x \in 0 .. m - 1, x \in Around(y, m)
    PROVE  (IF x = m - 1 THEN 0 ELSE x + 1) \in Around(y + 1, m)
BY DEF Around

LEMMA ColumnStep ==
    ASSUME NEW a \in Address
    PROVE  /\ TileCol(a) \in 0 .. (2 * Cols) - 1
           /\ TileCol(NextColumn(a)) = IF TileCol(a) = (2 * Cols) - 1 THEN 0 ELSE TileCol(a) + 1
           /\ NextColumn(a).row = a.row /\ NextColumn(a).nty = a.nty /\ NextColumn(a).fine = a.fine
<1> DEFINE b == NextColumn(a)
<1>1. Cols \in Nat \ {0} /\ a.col \in 0 .. Cols - 1 /\ a.ntx \in 0 .. 1
    BY Sizes DEF Address
<1>2. /\ a.col = Cols - 1 => b.col = 0 /\ b.ntx = 1 - a.ntx
      /\ a.col # Cols - 1 => b.col = a.col + 1 /\ b.ntx = a.ntx
      /\ b.row = a.row /\ b.nty = a.nty /\ b.fine = a.fine
    BY DEF NextColumn, Address
<1> HIDE DEF b
<1>3. a.ntx = 0 \/ a.ntx = 1
    BY <1>1
<1>4. TileCol(a) = IF a.ntx = 0 THEN a.col ELSE Cols + a.col
    BY <1>1, <1>3 DEF TileCol
<1>5. b.ntx \in 0 .. 1 /\ b.col \in 0 .. Cols - 1
    BY <1>1, <1>2, <1>3
<1>6. TileCol(b) = IF b.ntx = 0 THEN b.col ELSE Cols + b.col
  <2>1. b.ntx = 0 \/ b.ntx = 1
      BY <1>5
  <2> QED
      BY <1>1, <1>5, <2>1 DEF TileCol
<1>7. TileCol(a) \in 0 .. (2 * Cols) - 1
    BY <1>1, <1>3, <1>4
<1>8. TileCol(b) = IF TileCol(a) = (2 * Cols) - 1 THEN 0 ELSE TileCol(a) + 1
  <2>1. CASE a.col = Cols - 1
      BY <1>1, <1>2, <1>3, <1>4, <1>6, <2>1
  <2>2. CASE a.col # Cols - 1
      BY <1>1, <1>2, <1>3, <1>4, <1>6, <2>2
  <2> QED
      BY <2>1, <2>2
<1> QED
    BY <1>2, <1>7, <1>8 DEF b

(* An address survives being made a word.                                  *)
LEMMA WordRound ==
    ASSUME NEW a \in Address
    PROVE  AddressOf(Word(a)) = a
<1> DEFINE C == Cols
           R == RowCodes
           M == Cols * RowCodes
           r3 == a.nty + 2 * a.fine
           r2 == a.ntx + 2 * r3
           r1 == a.row + R * r2
           low == a.col + C * a.row
           n == Word(a)
<1>1. /\ C \in Nat \ {0} /\ R \in Nat \ {0} /\ TileH \in Nat \ {0}
      /\ a.col \in 0 .. C - 1 /\ a.row \in 0 .. R - 1
      /\ a.ntx \in 0 .. 1 /\ a.nty \in 0 .. 1 /\ a.fine \in 0 .. TileH - 1
    BY Sizes DEF Address
<1>2. r3 \in Nat /\ r2 \in Nat
    BY <1>1
<1>3. M \in Nat \ {0} /\ M = C * R
    BY <1>1
<1>4. low \in 0 .. M - 1
  <2>1. (a.row + 1) * C <= R * C
    <3>1. a.row + 1 \in Int /\ R \in Int /\ C \in Nat /\ a.row + 1 <= R
        BY <1>1
    <3> QED
        BY <3>1, ProductOrder
  <2>2. (a.row + 1) * C = (C * a.row) + C /\ R * C = M /\ C * a.row \in Nat
      BY <1>1
  <2> QED
      BY <1>1, <1>3, <2>1, <2>2
<1>5. n = (r1 * C) + a.col /\ r1 = (r2 * R) + a.row /\ r1 \in Nat
  <2>1. r1 = (r2 * R) + a.row /\ r1 \in Nat
    <3> HIDE DEF r2
    <3> QED
        BY <1>1, <1>2
  <2>2. n = a.col + C * r1
      BY DEF Word
  <2> HIDE DEF r1, n
  <2> QED
      BY <1>1, <2>1, <2>2
<1>6. n = (r2 * M) + low
  <2> HIDE DEF r1, r2, n
  <2>1. r1 * C = (r2 * M) + (C * a.row)
    <3>1. ((r2 * R) + a.row) * C = ((r2 * R) * C) + (a.row * C)
        BY <1>1, <1>2
    <3>2. (r2 * R) * C = r2 * M
        BY <1>1, <1>2
    <3> QED
        BY <1>1, <1>5, <3>1, <3>2
  <2>2. r2 * M \in Int /\ C * a.row \in Int
      BY <1>1, <1>2, <1>3
  <2> QED
      BY <1>1, <1>5, <2>1, <2>2
<1> HIDE DEF low, M, r1, n
<1>7. /\ 2 * M \in Nat \ {0} /\ 4 * M \in Nat \ {0}
      /\ n = (r3 * (2 * M)) + (low + (a.ntx * M))
      /\ n = (a.fine * (4 * M)) + (low + ((a.ntx + 2 * a.nty) * M))
      /\ low + (a.ntx * M) \in 0 .. (2 * M) - 1
      /\ low + ((a.ntx + 2 * a.nty) * M) \in 0 .. (4 * M) - 1
  <2>1. (a.ntx = 0 \/ a.ntx = 1) /\ (a.nty = 0 \/ a.nty = 1)
      BY <1>1
  <2>2. r2 * M = (r3 * (2 * M)) + (a.ntx * M)
    <3> HIDE DEF r3
    <3> QED
        BY <1>1, <1>2, <1>3
  <2>3. r3 * (2 * M) = (a.fine * (4 * M)) + (2 * (a.nty * M))
      BY <1>1, <1>3
  <2>4. (a.ntx + 2 * a.nty) * M = (a.ntx * M) + (2 * (a.nty * M))
      BY <1>1, <1>3
  <2>5. /\ a.ntx * M = (IF a.ntx = 0 THEN 0 ELSE M) /\ a.nty * M = (IF a.nty = 0 THEN 0 ELSE M)
      BY <1>3, <2>1
  <2>6. r3 * (2 * M) \in Int /\ a.fine * (4 * M) \in Int
      BY <1>1, <1>2, <1>3
  <2> HIDE DEF r3, r2
  <2> QED
      BY <1>3, <1>4, <1>6, <2>1, <2>2, <2>3, <2>4, <2>5, <2>6
<1>8. n \div C = r1 /\ n % C = a.col
  <2>1. n \in Int /\ r1 \in Int /\ C \in Nat \ {0} /\ a.col \in 0 .. C - 1 /\ n = (r1 * C) + a.col
      BY <1>1, <1>5
  <2> HIDE DEF C
  <2> QED
      BY <2>1, Division
<1>9. r1 \div R = r2 /\ r1 % R = a.row
  <2>1. r1 \in Int /\ r2 \in Int /\ R \in Nat \ {0} /\ a.row \in 0 .. R - 1 /\ r1 = (r2 * R) + a.row
      BY <1>1, <1>2, <1>5
  <2> HIDE DEF R, r2
  <2> QED
      BY <2>1, Division
<1>10. n \in Int
    BY <1>1, <1>5
<1>11. n \div M = r2
  <2> HIDE DEF r2
  <2> QED
      BY <1>2, <1>3, <1>4, <1>6, <1>10, Division
<1>12. n \div (2 * M) = r3
  <2> DEFINE N == 2 * M
             k == low + (a.ntx * M)
  <2>1. N \in Nat \ {0} /\ k \in 0 .. N - 1 /\ n = (r3 * N) + k
      BY <1>7
  <2> HIDE DEF N, k, r3
  <2>2. n \div N = r3
      BY <1>2, <1>10, <2>1, Division
  <2> QED
      BY <2>2 DEF N
<1>13. n \div (4 * M) = a.fine
  <2> DEFINE N == 4 * M
             k == low + ((a.ntx + 2 * a.nty) * M)
  <2>1. N \in Nat \ {0} /\ k \in 0 .. N - 1 /\ n = (a.fine * N) + k /\ a.fine \in Int
      BY <1>1, <1>7
  <2> HIDE DEF N, k
  <2>2. n \div N = a.fine
      BY <1>10, <2>1, Division
  <2> QED
      BY <2>2 DEF N
<1>14. r2 % 2 = a.ntx /\ r3 % 2 = a.nty /\ a.fine % TileH = a.fine
  <2>1. r3 % 2 = a.nty /\ a.fine % TileH = a.fine
      BY <1>1
  <2>2. r2 % 2 = a.ntx
    <3> HIDE DEF r3
    <3> QED
        BY <1>1, <1>2
  <2> QED
      BY <2>1, <2>2
<1>15. 2 * Cols * RowCodes = 2 * M /\ 4 * Cols * RowCodes = 4 * M
    BY <1>1 DEF M
<1>16. AddressOf(n) = [col |-> a.col, row |-> a.row, ntx |-> a.ntx, nty |-> a.nty, fine |-> a.fine]
  <2> HIDE DEF r2, r3
  <2>1. (n \div Cols) % RowCodes = a.row
      BY <1>8, <1>9
  <2>2. (n \div (Cols * RowCodes)) % 2 = a.ntx
      BY <1>11, <1>14 DEF M
  <2>3. (n \div (2 * Cols * RowCodes)) % 2 = a.nty /\ (n \div (4 * Cols * RowCodes)) % TileH = a.fine
      BY <1>12, <1>13, <1>14, <1>15
  <2> QED
      BY <1>8, <2>1, <2>2, <2>3 DEF AddressOf
<1> QED
    BY <1>16 DEF n, Address

(* Above the attribute tables, NextRow goes down the world by one pixel.   *)
LEMMA RowStep ==
    ASSUME NEW a \in Address, a.row < Rows
    PROVE  /\ PixelRow(a) \in 0 .. (2 * ScreenH) - 1
           /\ PixelRow(NextRow(a)) = IF PixelRow(a) = (2 * ScreenH) - 1 THEN 0 ELSE PixelRow(a) + 1
           /\ NextRow(a).col = a.col /\ NextRow(a).ntx = a.ntx /\ NextRow(a).row < Rows
<1> DEFINE b == NextRow(a)
           h == TileH
           H == ScreenH
           k == (a.nty * Rows) + a.row
<1>1. /\ h \in Nat \ {0} /\ Rows \in Nat \ {0} /\ H \in Nat \ {0} /\ H = Rows * h /\ Cols \in Nat \ {0}
      /\ RowCodes \in Nat \ {0} /\ RowCodes >= Rows
      /\ a.row \in 0 .. Rows - 1 /\ a.nty \in 0 .. 1 /\ a.fine \in 0 .. h - 1
    BY Sizes, ScrollAssumption DEF Address, ScreenH, ScrollAssumption
<1>2. a.nty = 0 \/ a.nty = 1
    BY <1>1
<1>3. PixelRow(a) = (k * h) + a.fine /\ k = (IF a.nty = 0 THEN a.row ELSE Rows + a.row)
    BY <1>1, <1>2 DEF PixelRow, WorldY
<1>4. k \in 0 .. (2 * Rows) - 1
    BY <1>1, <1>2, <1>3
<1> HIDE DEF k, h, H
<1>5. k * h \in Nat /\ (k + 1) * h = (k * h) + h /\ (2 * Rows) * h = 2 * H
    BY <1>1, <1>4
<1>6. (k + 1) * h <= 2 * H
  <2>1. k + 1 \in Int /\ 2 * Rows \in Int /\ k + 1 <= 2 * Rows /\ h \in Nat
      BY <1>1, <1>4
  <2> QED
      BY <1>5, <2>1, ProductOrder
<1>7. PixelRow(a) \in 0 .. (2 * H) - 1
    BY <1>1, <1>3, <1>5, <1>6
<1>8. CASE a.fine # h - 1
  <2>1. b.fine = a.fine + 1 /\ b.row = a.row /\ b.nty = a.nty /\ b.col = a.col /\ b.ntx = a.ntx
      BY <1>8 DEF NextRow, Address, h
  <2>2. PixelRow(b) = (k * h) + (a.fine + 1)
      BY <2>1, <1>3 DEF PixelRow, WorldY, k, h
  <2> HIDE DEF b
  <2>3. PixelRow(a) # (2 * H) - 1 /\ PixelRow(b) = PixelRow(a) + 1
      BY <1>1, <1>3, <1>5, <1>6, <1>8, <2>2
  <2> QED
      BY <1>1, <1>7, <2>1, <2>3 DEF b, H
<1>9. CASE a.fine = h - 1 /\ a.row = Rows - 1
  <2>1. b.fine = 0 /\ b.row = 0 /\ b.nty = 1 - a.nty /\ b.col = a.col /\ b.ntx = a.ntx
      BY <1>9 DEF NextRow, Address, h
  <2> HIDE DEF b
  <2>2. PixelRow(b) = IF a.nty = 0 THEN H ELSE 0
    <3>1. b.nty * Rows = (IF a.nty = 0 THEN Rows ELSE 0)
        BY <1>1, <1>2, <2>1
    <3>2. (b.nty * Rows) + b.row = (IF a.nty = 0 THEN Rows ELSE 0)
        BY <1>1, <2>1, <3>1
    <3>3. WorldY(b) = IF a.nty = 0 THEN H ELSE 0
        BY <1>1, <3>2 DEF WorldY, h
    <3> QED
        BY <1>1, <2>1, <3>3 DEF PixelRow
  <2>3. PixelRow(a) = IF a.nty = 0 THEN H - 1 ELSE (2 * H) - 1
    <3>1. CASE a.nty = 0
      <4>1. k + 1 = Rows
          BY <1>1, <1>3, <1>9, <3>1
      <4> QED
          BY <1>1, <1>3, <1>5, <1>9, <3>1, <4>1
    <3>2. CASE a.nty = 1
      <4>1. k + 1 = 2 * Rows
          BY <1>1, <1>3, <1>9, <3>2
      <4> QED
          BY <1>1, <1>3, <1>5, <1>9, <3>2, <4>1
    <3> QED
        BY <1>2, <3>1, <3>2
  <2>4. PixelRow(b) = IF PixelRow(a) = (2 * H) - 1 THEN 0 ELSE PixelRow(a) + 1
      BY <1>1, <1>2, <2>2, <2>3
  <2> QED
      BY <1>1, <1>7, <2>1, <2>4 DEF b, H
<1>10. CASE a.fine = h - 1 /\ a.row # Rows - 1
  <2> DEFINE z == [a EXCEPT !.fine = 0]
             c == [z EXCEPT !.row = z.row + 1]
  <2>1. z \in Address
    <3>1. 0 \in 0 .. TileH - 1
        BY Sizes
    <3> QED
        BY <3>1, FieldTypes
  <2>2. z.row = a.row /\ z.fine = 0 /\ z.col = a.col /\ z.ntx = a.ntx /\ z.nty = a.nty
      BY DEF Address
  <2>3. b = AddressOf(Word(z) + Cols)
      BY <1>10 DEF NextRow, h
  <2> HIDE DEF z
  <2>4. z.row + 1 \in 0 .. RowCodes - 1
      BY <1>1, <1>10, <2>2
  <2>5. c \in Address
      BY <2>1, <2>4, FieldTypes
  <2>6. c.row = a.row + 1 /\ c.fine = 0 /\ c.col = a.col /\ c.ntx = a.ntx /\ c.nty = a.nty
      BY <2>1, <2>2 DEF Address
  <2>7. Word(c) = Word(z) + Cols
    <3> DEFINE q == RowCodes * (a.ntx + 2 * (a.nty + 2 * 0))
    <3>1. q \in Int /\ a.col \in Int
        BY <1>1 DEF Address
    <3>2. Word(c) = a.col + Cols * ((a.row + 1) + q) /\ Word(z) = a.col + Cols * (a.row + q)
        BY <2>2, <2>6 DEF Word
    <3> HIDE DEF q, c
    <3>3. Cols * ((a.row + 1) + q) = (Cols * (a.row + q)) + Cols /\ Cols * (a.row + q) \in Int
        BY <1>1, <3>1
    <3> QED
        BY <1>1, <3>1, <3>2, <3>3
  <2>8. b = c
      BY <2>3, <2>5, <2>7, WordRound
  <2> HIDE DEF c, b
  <2>9. PixelRow(b) = (k + 1) * h
    <3>1. (b.nty * Rows) + b.row = k + 1
        BY <1>1, <1>2, <2>6, <2>8 DEF k
    <3> QED
      <4>1. WorldY(b) = (k + 1) * h
          BY <3>1 DEF WorldY, h
      <4>2. (k + 1) * h \in Int
          BY <1>1, <1>5
      <4>3. PixelRow(b) = WorldY(b) + 0
          BY <2>6, <2>8 DEF PixelRow
      <4> QED
          BY <4>1, <4>2, <4>3
  <2>10. k + 1 # 2 * Rows
    <3>1. k = IF a.nty = 0 THEN a.row ELSE Rows + a.row
        BY <1>3
    <3>2. Rows \in Nat \ {0} /\ a.row \in 0 .. Rows - 1 /\ a.row # Rows - 1
        BY <1>1, <1>10
    <3> QED
        BY <3>1, <3>2
  <2>11. (k + 2) * h <= 2 * H /\ (k + 2) * h = ((k + 1) * h) + h
    <3>1. k + 2 \in Int /\ 2 * Rows \in Int /\ k + 2 <= 2 * Rows /\ h \in Nat
        BY <1>1, <1>4, <2>10
    <3>2. (k + 2) * h = ((k + 1) * h) + h
        BY <1>1, <1>4
    <3> QED
        BY <1>5, <3>1, <3>2, ProductOrder
  <2>12. PixelRow(a) = ((k + 1) * h) - 1
      BY <1>1, <1>3, <1>5, <1>10
  <2>13. PixelRow(a) # (2 * H) - 1 /\ PixelRow(b) = PixelRow(a) + 1
      BY <1>1, <1>5, <2>9, <2>11, <2>12
  <2> QED
      BY <1>1, <1>7, <1>10, <2>6, <2>8, <2>13 DEF b, H
<1> QED
    BY <1>8, <1>9, <1>10 DEF h


-----------------------------------------------------------------------------
(* The invariants.  What the four accesses to a tile have in common is     *)
(* that v stands still between them.                                       *)

Phase(d) == Source(d) % TileW

LEMMA PhaseBefore ==
    ASSUME NEW d \in Nat, Fetches(d)
    PROVE  /\ Phase(d) \in 0 .. TileW - 1
           /\ Phase(d) # 0 => /\ Fetches(d - 1) /\ Phase(d - 1) = Phase(d) - 1
                              /\ Prefetching(d - 1) <=> Prefetching(d)
           /\ d = ScreenW => Phase(d) >= 3 * Access
<1>1. /\ TileW \in Nat \ {0} /\ ScreenW \in Nat \ {0} /\ PrefetchAt \in Nat /\ ScreenW < PrefetchAt
      /\ Cols \in Nat \ {0} /\ Access \in Nat \ {0} /\ TileW = 4 * Access /\ ScreenW = Cols * TileW
    BY Sizes, Screen, Quarters DEF ScreenW
<1> DEFINE w == TileW
           q == Source(d) \div w
           p == Source(d) % w
<1>2. Source(d) \in Int
    BY FetchDots
<1>3. q \in Int /\ p \in 0 .. w - 1 /\ Source(d) = (q * w) + p
    BY <1>1, <1>2, Decompose
<1> HIDE DEF w, q, p
<1>4. 0 \in 0 .. w - 1 /\ w \in Nat \ {0} /\ w - 1 \in 0 .. w - 1
    BY <1>1 DEF w
<1>5. p # 0 => /\ Fetches(d - 1) /\ Source(d - 1) = Source(d) - 1
               /\ Prefetching(d - 1) <=> Prefetching(d)
  <2> SUFFICES ASSUME p # 0
               PROVE  /\ Fetches(d - 1) /\ Source(d - 1) = Source(d) - 1
                      /\ Prefetching(d - 1) <=> Prefetching(d)
      OBVIOUS
  <2>1. d # 1
    <3> SUFFICES ASSUME d = 1 PROVE FALSE
        OBVIOUS
    <3>1. Source(d) = (2 * w) + 0
        BY <1>1 DEF Source, Prefetching, w
    <3>2. 2 \in Int
        OBVIOUS
    <3>3. Source(d) % w = 0
        BY <1>2, <1>4, <3>1, <3>2, Division
    <3> QED
        BY <3>3 DEF p
  <2>2. d # PrefetchAt + 1
    <3> SUFFICES ASSUME d = PrefetchAt + 1 PROVE FALSE
        OBVIOUS
    <3>1. Source(d) = (0 * w) + 0
        BY <1>1, <1>4 DEF Source, Prefetching
    <3>2. Source(d) % w = 0
        BY <1>2, <1>4, <3>1, Division
    <3> QED
        BY <3>2 DEF p
  <2>3. CASE d \in 1 .. ScreenW
      BY <1>1, <2>1, <2>3 DEF Fetches, Source, Prefetching
  <2>4. CASE d \in PrefetchAt + 1 .. PrefetchAt + (2 * TileW)
      BY <1>1, <2>2, <2>4 DEF Fetches, Source, Prefetching
  <2> QED
      BY <2>3, <2>4 DEF Fetches
<1>6. p # 0 => Source(d - 1) % w = p - 1
  <2> SUFFICES ASSUME p # 0 PROVE Source(d - 1) % w = p - 1
      OBVIOUS
  <2> DEFINE x == Source(d - 1)
             r == p - 1
  <2>1. q * w \in Int
      BY <1>3, <1>4
  <2>2. x = (q * w) + r /\ r \in 0 .. w - 1 /\ x \in Int
      BY <1>3, <1>4, <1>5, <2>1
  <2> HIDE DEF x, r
  <2>3. x % w = r
      BY <1>3, <1>4, <2>2, Division
  <2> QED
      BY <2>3 DEF x, r
<1>7. d = ScreenW => p >= 3 * Access
  <2> SUFFICES ASSUME d = ScreenW PROVE p >= 3 * Access
      OBVIOUS
  <2>1. Source(d) = ScreenW - 1 + (2 * w)
      BY <1>1 DEF Source, Prefetching, w
  <2>2. (Cols + 1) * w = ScreenW + w
      BY <1>1 DEF w
  <2> DEFINE k == Cols + 1
             r == w - 1
  <2>3. Source(d) = (k * w) + r /\ k \in Int /\ r \in 0 .. w - 1
      BY <1>1, <1>4, <2>1, <2>2
  <2>4. r >= 3 * Access
      BY <1>1 DEF w
  <2> HIDE DEF k, r
  <2>5. Source(d) % w = r
      BY <1>2, <1>4, <2>3, Division
  <2> QED
      BY <2>4, <2>5 DEF p
<1> QED
    BY <1>3, <1>5, <1>6, <1>7 DEF Phase, p, w

(* The first line is served late: the two tiles it prefetched are fetched  *)
(* again, because the copy of t on the pre-render line took v back.        *)
Late(l, d, f) == IF l = 0 /\ d <= ScreenW THEN Drawn(0, f) ELSE 0

(* The column v should have reached after dot d of line l.                 *)
Reached(l, d, f, a) == (TileCol(a) + Drawn(d, f)) - Late(l, d, f)

(* On a line that began with a horizontal reset, v and _x_offset have      *)
(* advanced together: v by the tiles drawn, _x_offset by their pixels.     *)
ColumnInv ==
    steadyLine =>
        /\ showBg
        /\ line < ScreenH /\ dot # ScreenW =>
               TileCol(v) \in Around(Reached(line, dot, fineX, t), 2 * Cols)
        /\ xOffset = OffsetAfter(Drawn(IF line < ScreenH THEN dot ELSE 0, fineX), fineX)
        /\ line = Lines - 1 => v = t

(* In a frame that began with a scroll position, v has gone down one pixel *)
(* for each line that is done.                                             *)
RowsDone(l, d) == l + (IF d >= ScreenW THEN 1 ELSE 0)

RowInv ==
    steadyFrame =>
        /\ showBg /\ ScrollIsSet
        /\ line < ScreenH => /\ v.row < Rows
                             /\ PixelRow(v) \in Around(PixelRow(t) + RowsDone(line, dot), 2 * ScreenH)
        /\ line = Lines - 1 => v = t

(* Between the accesses to a tile, what was latched was latched at v.      *)
LatchInv ==
    (steadyLine \/ steadyFrame) /\ line < ScreenH /\ Fetches(dot) /\ Phase(dot) < 3 * Access =>
        /\ index = v
        /\ Phase(dot) >= Access => palette = v
        /\ Phase(dot) >= 2 * Access => plane0 = TileRow(line, dot)

ScrollInv == ColumnInv /\ RowInv /\ LatchInv

LEMMA InitScroll == Init => ScrollInv
BY DEF Init, ScrollInv, ColumnInv, RowInv, LatchInv

(* An access by the guest ends a steady line and a steady frame, unless it *)
(* is one that leaves everything of the picture alone.                     *)
LEMMA GuestScroll == ScrollInv /\ Guest => ScrollInv'
<1> SUFFICES ASSUME ScrollInv, Guest PROVE ScrollInv'
    OBVIOUS
<1>1. CASE steadyLine' = FALSE /\ steadyFrame' = FALSE
    BY <1>1 DEF ScrollInv, ColumnInv, RowInv, LatchInv
<1>2. CASE ReadPPUSTATUS
  <2>1. UNCHANGED <<line, dot, showBg, v, t, fineX, scrollY, xOffset, index, palette, plane0,
                    steadyLine, steadyFrame>>
      BY <1>2 DEF ReadPPUSTATUS, GuestActs, beam, mask, tile, history
  <2> QED
      BY <2>1 DEF ScrollInv, ColumnInv, RowInv, LatchInv, ScrollIsSet, TileRow
<1>3. ReadPPUSTATUS \/ (steadyLine' = FALSE /\ steadyFrame' = FALSE)
    BY Zenon DEF Guest, WritePPUCTRL, WritePPUMASK, WritePPUSCROLL, WritePPUADDR, AccessPPUDATA, Disturb
<1> QED
    BY <1>1, <1>2, <1>3

-----------------------------------------------------------------------------
(* One dot, with the beam it moves to.                                     *)

TickTo(l, d) ==
    /\ line' = l /\ dot' = d
    /\ \/ d = dot + 1 /\ l = line
       \/ d = 0 /\ dot = Dots - 1 /\ line < Lines - 1 /\ l = line + 1
       \/ d = 0 /\ dot = Dots - 1 /\ line = Lines - 1 /\ l = 0
    /\ showBg /\ l < ScreenH => Pipeline(l, d)
    /\ ~(showBg /\ l < ScreenH) => /\ UNCHANGED <<xOffset, tile>>
                                   /\ v' = IF TopOfFrame(l, d) THEN t ELSE v
    /\ steadyLine' <=> steadyLine \/ (showBg /\ l < ScreenH /\ d = ScreenW + 1)
    /\ steadyFrame' <=> IF TopOfFrame(l, d) THEN showBg /\ ScrollIsSet ELSE steadyFrame
    /\ UNCHANGED <<t, fineX, scrollY, showBg>>

LEMMA TickBeam ==
    ASSUME TypeOK, Tick
    PROVE  \E l \in Nat, d \in Nat : l < Lines /\ d < Dots /\ TickTo(l, d)
<1> DEFINE d == (dot + 1) % Dots
           l == IF d = 0 THEN (line + 1) % Lines ELSE line
<1>1. Dots \in Nat \ {0} /\ Lines \in Nat \ {0} /\ line \in 0 .. Lines - 1 /\ dot \in 0 .. Dots - 1
    BY Sizes DEF TypeOK
<1>2. d = IF dot = Dots - 1 THEN 0 ELSE dot + 1
    BY <1>1
<1>3. (line + 1) % Lines = IF line = Lines - 1 THEN 0 ELSE line + 1
    BY <1>1
<1>4. line' = l /\ dot' = d /\ UNCHANGED <<mask, scroll>>
    BY DEF Tick
<1>5. LET on == showBg /\ l < ScreenH
      IN  /\ \/ on /\ Pipeline(l, d)
             \/ ~on /\ TopOfFrame(l, d) /\ v' = t /\ UNCHANGED <<xOffset, tile>>
             \/ ~on /\ ~TopOfFrame(l, d) /\ UNCHANGED <<v, xOffset, tile>>
          /\ steadyLine' = (steadyLine \/ (on /\ d = ScreenW + 1))
          /\ steadyFrame' = IF TopOfFrame(l, d) THEN showBg /\ ScrollIsSet ELSE steadyFrame
    BY DEF Tick
<1>6. l = IF d = 0 THEN (IF line = Lines - 1 THEN 0 ELSE line + 1) ELSE line
    BY <1>3
<1> HIDE DEF d, l
<1>7. d \in Nat /\ d < Dots /\ l \in Nat /\ l < Lines
    BY <1>1, <1>2, <1>6
<1>8. \/ d = dot + 1 /\ l = line
      \/ d = 0 /\ dot = Dots - 1 /\ line < Lines - 1 /\ l = line + 1
      \/ d = 0 /\ dot = Dots - 1 /\ line = Lines - 1 /\ l = 0
    BY <1>1, <1>2, <1>6
<1>9. UNCHANGED <<t, fineX, scrollY, showBg>>
    BY <1>4 DEF mask, scroll
<1>10. /\ showBg /\ l < ScreenH => Pipeline(l, d)
       /\ ~(showBg /\ l < ScreenH) => /\ UNCHANGED <<xOffset, tile>>
                                      /\ v' = IF TopOfFrame(l, d) THEN t ELSE v
  <2>1. CASE (showBg /\ l < ScreenH) /\ Pipeline(l, d)
      BY <2>1, Zenon
  <2>2. CASE ~(showBg /\ l < ScreenH) /\ TopOfFrame(l, d) /\ v' = t /\ UNCHANGED <<xOffset, tile>>
      BY <2>2, Zenon
  <2>3. CASE ~(showBg /\ l < ScreenH) /\ ~TopOfFrame(l, d) /\ UNCHANGED <<v, xOffset, tile>>
    <3>1. v' = v /\ UNCHANGED <<xOffset, tile>>
        BY <2>3
    <3> QED
        BY <2>3, <3>1, Zenon
  <2> QED
      BY <1>5, <2>1, <2>2, <2>3, Zenon
<1>11. /\ steadyLine' <=> steadyLine \/ (showBg /\ l < ScreenH /\ d = ScreenW + 1)
       /\ steadyFrame' <=> IF TopOfFrame(l, d) THEN showBg /\ ScrollIsSet ELSE steadyFrame
    BY <1>5, Zenon
<1>12. TickTo(l, d)
    BY <1>4, <1>8, <1>9, <1>10, <1>11, Zenon DEF TickTo
<1> QED
    BY <1>7, <1>12


(* What a dot does to v that matters to the columns: nothing but the draw. *)
LEMMA DotColumn ==
    ASSUME TypeOK, NEW l \in Nat, NEW d \in Nat, Fetches(d), FetchTile(l, d)
    PROVE  /\ d # ScreenW => v' = IF Draws(d) THEN NextColumn(v) ELSE v
           /\ d = ScreenW => v' = NextRow(IF Draws(d) THEN NextColumn(v) ELSE v)
BY Zenon DEF FetchTile

LEMMA ReachedStep ==
    ASSUME TypeOK, NEW l \in Nat, NEW d \in Nat, Fetches(d)
    PROVE  /\ Reached(l, d - 1, fineX, t) \in Int /\ Reached(l, d, fineX, t) \in Int
           /\ Draws(d) => /\ Reached(l, d, fineX, t) = Reached(l, d - 1, fineX, t) + 1
                          /\ Reached(l, d - 1, fineX, t) < (2 * (2 * Cols)) - 1
           /\ ~Draws(d) => Reached(l, d, fineX, t) = Reached(l, d - 1, fineX, t)
<1> DEFINE z == Late(l, d, fineX)
           n == Drawn(d, fineX)
           m == Drawn(d - 1, fineX)
           c == TileCol(t)
<1>1. Cols \in Nat \ {0} /\ t \in Address /\ fineX \in Nat
    BY Sizes DEF TypeOK
<1>2. c \in 0 .. (2 * Cols) - 1
    BY <1>1, ColumnStep
<1>3. Late(l, d - 1, fineX) = z
  <2>1. ScreenW \in Nat /\ d # ScreenW + 1
      BY FetchDots, Sizes
  <2>2. d <= ScreenW <=> d - 1 <= ScreenW
      BY <2>1
  <2> QED
      BY <2>2 DEF Late
<1>4. z \in Nat
    BY DrawnType DEF Late
<1>5. n \in Nat /\ m \in Nat
    BY DrawnType, TileNumbers DEF Drawn
<1>6. Draws(d) => n = m + 1 /\ m < TilesOfLine(fineX)
    BY DrawnStep
<1>7. ~Draws(d) => n = m
    BY DrawnStep
<1>8. TilesOfLine(fineX) \in Nat /\ TilesOfLine(fineX) <= Cols + 1
    BY <1>1 DEF TilesOfLine
<1>9. Reached(l, d - 1, fineX, t) = (c + m) - z /\ Reached(l, d, fineX, t) = (c + n) - z
    BY <1>3 DEF Reached
<1> HIDE DEF z, n, m, c
<1> QED
    BY <1>1, <1>2, <1>4, <1>5, <1>6, <1>7, <1>8, <1>9

(* Drawing moves v and the column it should be at together.                *)
LEMMA ColumnFollows ==
    ASSUME TypeOK, NEW l \in Nat, NEW d \in Nat, Fetches(d), FetchTile(l, d), d # ScreenW,
           TileCol(v) \in Around(Reached(l, d - 1, fineX, t), 2 * Cols)
    PROVE  TileCol(v') \in Around(Reached(l, d, fineX, t), 2 * Cols)
<1> DEFINE m == 2 * Cols
           y == Reached(l, d - 1, fineX, t)
           x == TileCol(v)
<1>1. v \in Address /\ m \in Nat
    BY Sizes DEF TypeOK
<1>2. y \in Int /\ (Draws(d) => Reached(l, d, fineX, t) = y + 1 /\ y < (2 * m) - 1)
      /\ (~Draws(d) => Reached(l, d, fineX, t) = y)
    BY ReachedStep
<1>3. x \in 0 .. m - 1 /\ TileCol(NextColumn(v)) = IF x = m - 1 THEN 0 ELSE x + 1
    BY <1>1, ColumnStep
<1>4. x \in Around(y, m)
    OBVIOUS
<1>5. v' = IF Draws(d) THEN NextColumn(v) ELSE v
    BY DotColumn
<1> HIDE DEF m, y, x
<1>6. CASE Draws(d)
  <2>1. (IF x = m - 1 THEN 0 ELSE x + 1) \in Around(y + 1, m)
      BY <1>1, <1>2, <1>3, <1>4, <1>6, AroundStep
  <2>2. TileCol(v') = IF x = m - 1 THEN 0 ELSE x + 1
      BY <1>3, <1>5, <1>6
  <2> QED
      BY <1>2, <1>6, <2>1, <2>2 DEF m
<1>7. CASE ~Draws(d)
    BY <1>2, <1>4, <1>5, <1>7 DEF m, x
<1> QED
    BY <1>6, <1>7

LEMMA OffsetFollows ==
    ASSUME TypeOK, NEW l \in Nat, NEW d \in Nat, Fetches(d), FetchTile(l, d),
           xOffset = OffsetAfter(Drawn(d - 1, fineX), fineX)
    PROVE  xOffset' = OffsetAfter(Drawn(d, fineX), fineX)
<1>1. xOffset' = IF Draws(d) THEN (xOffset + EndPixel(d) - FirstPixel(d)) % ScreenW ELSE xOffset
    BY DEF FetchTile
<1>2. CASE Draws(d)
  <2>1. /\ Drawn(d - 1, fineX) = TileNo(d) /\ Drawn(d, fineX) = TileNo(d) + 1
        /\ TileNo(d) \in Nat /\ TileNo(d) < TilesOfLine(fineX)
      BY <1>2, DrawnStep
  <2>2. xOffset = OffsetAfter(TileNo(d), fineX)
      BY <2>1
  <2>3. (OffsetAfter(TileNo(d), fineX) + EndPixel(d) - FirstPixel(d)) % ScreenW
            = OffsetAfter(TileNo(d) + 1, fineX)
      BY <2>1, OffsetStep
  <2> QED
      BY <1>1, <1>2, <2>1, <2>2, <2>3
<1>3. CASE ~Draws(d)
    BY <1>1, <1>3, DrawnStep
<1> QED
    BY <1>2, <1>3

(* A dot that neither fetches nor resets.                                  *)
LEMMA IdleReached ==
    ASSUME TypeOK, NEW l \in Nat, NEW d \in Nat, d < Dots, d >= 1, ~Fetches(d), d # ScreenW + 1
    PROVE  /\ Drawn(d, fineX) = Drawn(d - 1, fineX) /\ d - 1 # ScreenW /\ d # ScreenW
           /\ Reached(l, d, fineX, t) = Reached(l, d - 1, fineX, t)
<1>1. Fetched(d) = Fetched(d - 1) /\ (d > ScreenW <=> d - 1 > ScreenW) /\ d # ScreenW
    BY IdleDots
<1>2. ScreenW \in Nat
    BY Sizes
<1>3. d <= ScreenW <=> d - 1 <= ScreenW
    BY <1>1, <1>2
<1>4. Late(l, d, fineX) = Late(l, d - 1, fineX) /\ Drawn(d, fineX) = Drawn(d - 1, fineX)
    BY <1>1, <1>3 DEF Late, Drawn
<1> QED
    BY <1>1, <1>2, <1>4 DEF Reached

(* Around the end of a line.                                               *)
LEMMA EdgeReached ==
    ASSUME TypeOK
    PROVE  /\ \A l \in Nat : Reached(l, Dots - 1, fineX, t) = TileCol(t) + Drawn(0, fineX)
           /\ \A l \in Nat : l > 0 => Reached(l, 0, fineX, t) = TileCol(t) + Drawn(0, fineX)
           /\ Reached(0, 0, fineX, t) = TileCol(t)
           /\ \A l \in Nat : Reached(l, ScreenW + 1, fineX, t) = TileCol(t)
           /\ Dots - 1 # ScreenW /\ 0 # ScreenW
<1>1. ScreenW \in Nat \ {0} /\ Dots \in Nat /\ Dots - 1 > ScreenW /\ Cols \in Nat /\ t \in Address
  <2>1. TileW \in Nat /\ ScreenW \in Nat \ {0} /\ PrefetchAt \in Nat /\ Dots \in Nat
      BY Sizes, Screen
  <2> QED
      BY <2>1, Sizes, Screen DEF TypeOK
<1>2. TileCol(t) \in Int
    BY <1>1, ColumnStep
<1>3. /\ \A l \in Nat : Late(l, Dots - 1, fineX) = 0 /\ Late(l, ScreenW + 1, fineX) = 0
      /\ \A l \in Nat : l > 0 => Late(l, 0, fineX) = 0
      /\ Late(0, 0, fineX) = Drawn(0, fineX)
    BY <1>1 DEF Late
<1>4. /\ Drawn(0, fineX) \in Nat /\ Drawn(ScreenW + 1, fineX) = 0
      /\ Drawn(Dots - 1, fineX) = Drawn(0, fineX)
    BY DrawnType
<1> QED
    BY <1>1, <1>2, <1>3, <1>4 DEF Reached


(* The column and the offset survive every dot.                            *)
LEMMA ColumnTick == TypeOK /\ ColumnInv /\ Tick => ColumnInv'
<1> SUFFICES ASSUME TypeOK, ColumnInv, Tick, steadyLine' PROVE ColumnInv'
    BY DEF ColumnInv
<1>1. PICK l \in Nat, d \in Nat : l < Lines /\ d < Dots /\ TickTo(l, d)
    BY TickBeam
<1>2. line' = l /\ dot' = d /\ UNCHANGED <<t, fineX, showBg>>
    BY <1>1 DEF TickTo
<1>3. /\ ScreenW \in Nat \ {0} /\ ScreenH \in Nat \ {0} /\ ScreenH + 1 < Lines /\ Lines \in Nat
      /\ Dots \in Nat /\ line \in Nat /\ dot \in Nat
    BY Sizes, Screen DEF TypeOK
<1>4. SUFFICES /\ showBg
               /\ l < ScreenH /\ d # ScreenW => TileCol(v') \in Around(Reached(l, d, fineX, t), 2 * Cols)
               /\ xOffset' = OffsetAfter(Drawn(IF l < ScreenH THEN d ELSE 0, fineX), fineX)
               /\ l = Lines - 1 => v' = t
    BY <1>2 DEF ColumnInv
<1>5. CASE showBg /\ l < ScreenH /\ d = ScreenW + 1
  <2>1. HorizontalReset
      BY <1>1, <1>5, FetchDots DEF TickTo, Pipeline
  <2>2. v' = [v EXCEPT !.col = t.col, !.ntx = t.ntx] /\ xOffset' = 0
      BY <2>1 DEF HorizontalReset
  <2>3. TileCol(v') = TileCol(t)
      BY <2>2 DEF TileCol, TypeOK, Address
  <2>4. Reached(l, d, fineX, t) = TileCol(t)
      BY <1>5, EdgeReached
  <2>5. Drawn(d, fineX) = 0
      BY <1>5, DrawnType
  <2>6. xOffset' = OffsetAfter(Drawn(d, fineX), fineX)
      BY <2>2, <2>5 DEF OffsetAfter
  <2> QED
      BY <1>3, <1>5, <2>3, <2>4, <2>6 DEF Around
<1>6. CASE ~(showBg /\ l < ScreenH /\ d = ScreenW + 1)
  <2>1. steadyLine
      BY <1>1, <1>6, Zenon DEF TickTo
  <2>2. /\ showBg
        /\ line < ScreenH /\ dot # ScreenW => TileCol(v) \in Around(Reached(line, dot, fineX, t), 2 * Cols)
        /\ xOffset = OffsetAfter(Drawn(IF line < ScreenH THEN dot ELSE 0, fineX), fineX)
        /\ line = Lines - 1 => v = t
      BY <2>1 DEF ColumnInv
  <2>3. CASE l < ScreenH /\ Fetches(d)
    <3>1. d - 1 = dot /\ l = line /\ d >= 1 /\ d # ScreenW + 1
        BY <1>1, <1>3, <2>3, FetchDots DEF TickTo
    <3>2. FetchTile(l, d)
        BY <1>1, <2>2, <2>3, <3>1 DEF TickTo, Pipeline
    <3>3. dot # ScreenW
        BY <1>3, <3>1
    <3>4. xOffset' = OffsetAfter(Drawn(d, fineX), fineX)
      <4>1. xOffset = OffsetAfter(Drawn(d - 1, fineX), fineX)
          BY <2>2, <2>3, <3>1
      <4> QED
          BY <2>3, <3>2, <4>1, OffsetFollows
    <3>5. d # ScreenW => TileCol(v') \in Around(Reached(l, d, fineX, t), 2 * Cols)
      <4>1. TileCol(v) \in Around(Reached(l, d - 1, fineX, t), 2 * Cols)
          BY <2>2, <2>3, <3>1, <3>3
      <4> QED
          BY <2>3, <3>2, <4>1, ColumnFollows
    <3> QED
        BY <1>3, <2>2, <2>3, <3>4, <3>5
  <2>4. CASE l < ScreenH /\ ~Fetches(d)
    <3>1. v' = v /\ xOffset' = xOffset
      <4>1. Pipeline(l, d) /\ d # ScreenW + 1
          BY <1>1, <1>6, <2>2, <2>4 DEF TickTo
      <4> QED
          BY <2>4, <4>1 DEF Pipeline
    <3>2. CASE d = dot + 1 /\ l = line
      <4>1. d >= 1 /\ d - 1 = dot /\ d # ScreenW + 1
          BY <1>3, <1>6, <2>2, <2>4, <3>2
      <4>2. /\ Drawn(d, fineX) = Drawn(dot, fineX) /\ dot # ScreenW
            /\ Reached(l, d, fineX, t) = Reached(l, dot, fineX, t)
          BY <1>1, <2>4, <4>1, IdleReached
      <4> QED
          BY <1>3, <2>2, <2>4, <3>1, <3>2, <4>2
    <3>3. CASE d = 0 /\ dot = Dots - 1 /\ line < Lines - 1 /\ l = line + 1
      <4>1. line < ScreenH /\ l > 0
          BY <1>3, <2>4, <3>3
      <4>2. Reached(l, d, fineX, t) = Reached(line, dot, fineX, t) /\ dot # ScreenW
          BY <1>3, <3>3, <4>1, EdgeReached
      <4>3. Drawn(d, fineX) = Drawn(dot, fineX)
          BY <3>3, DrawnType
      <4> QED
          BY <1>3, <2>2, <2>4, <3>1, <4>1, <4>2, <4>3
    <3>4. CASE d = 0 /\ dot = Dots - 1 /\ line = Lines - 1 /\ l = 0
      <4>1. v' = t /\ ~(line < ScreenH)
          BY <1>3, <2>2, <3>1, <3>4
      <4>2. Reached(l, d, fineX, t) = TileCol(v')
          BY <3>4, <4>1, EdgeReached
      <4> QED
          BY <1>3, <2>2, <2>4, <3>1, <3>4, <4>1, <4>2 DEF Around
    <3> QED
        BY <1>1, <3>2, <3>3, <3>4 DEF TickTo
  <2>5. CASE ~(l < ScreenH)
    <3>1. xOffset' = xOffset /\ v' = IF TopOfFrame(l, d) THEN t ELSE v
        BY <1>1, <2>5 DEF TickTo
    <3>2. CASE d = dot + 1 /\ l = line
      <4>1. v' = t \/ v' = v
          BY <3>1
      <4> QED
          BY <2>2, <2>5, <3>1, <3>2, <4>1
    <3>3. CASE d = 0 /\ dot = Dots - 1 /\ line < Lines - 1 /\ l = line + 1
      <4>1. l = Lines - 1 => v' = t
          BY <2>2, <3>1, <3>3 DEF TopOfFrame
      <4>2. Drawn(0, fineX) = Drawn(dot, fineX)
          BY <3>3, DrawnType
      <4> QED
          BY <2>2, <2>5, <3>1, <4>1, <4>2
    <3>4. CASE d = 0 /\ dot = Dots - 1 /\ line = Lines - 1 /\ l = 0
        BY <1>3, <2>5, <3>4
    <3> QED
        BY <1>1, <3>2, <3>3, <3>4 DEF TickTo
  <2> QED
      BY <2>3, <2>4, <2>5
<1> QED
    BY <1>5, <1>6


(* While the accesses to a tile are under way, nothing else happens.       *)
LEMMA LatchTick == TypeOK /\ ColumnInv /\ RowInv /\ LatchInv /\ Tick => LatchInv'
<1> SUFFICES ASSUME TypeOK, ColumnInv, RowInv, LatchInv, Tick, (steadyLine \/ steadyFrame)',
                    line' < ScreenH, Fetches(dot'), Phase(dot') < 3 * Access
             PROVE  /\ index' = v'
                    /\ Phase(dot') >= Access => palette' = v'
                    /\ Phase(dot') >= 2 * Access => plane0' = TileRow(line, dot)'
    BY DEF LatchInv
<1>1. PICK l \in Nat, d \in Nat : l < Lines /\ d < Dots /\ TickTo(l, d)
    BY TickBeam
<1>2. line' = l /\ dot' = d /\ scrollY' = scrollY
    BY <1>1 DEF TickTo
<1>3. /\ Access \in Nat \ {0} /\ TileW = 4 * Access /\ ScreenH \in Nat /\ ScreenH + 1 < Lines
      /\ Lines \in Nat /\ dot \in Nat
    BY Quarters, Screen, Sizes DEF TypeOK
<1>4. l < ScreenH /\ Fetches(d) /\ Phase(d) < 3 * Access
    BY <1>2
<1>5. d >= 1 /\ d # ScreenW + 1 /\ l = line /\ d - 1 = dot
    BY <1>1, <1>3, <1>4, FetchDots DEF TickTo
<1>6. steadyLine \/ steadyFrame
  <2>1. ~TopOfFrame(l, d)
      BY <1>3, <1>4 DEF TopOfFrame
  <2> QED
      BY <1>1, <1>5, <2>1, Zenon DEF TickTo
<1>7. showBg
    BY <1>6, Zenon DEF ColumnInv, RowInv
<1>8. FetchTile(l, d)
    BY <1>1, <1>4, <1>5, <1>7 DEF TickTo, Pipeline
<1>9. Phase(d) \in 0 .. TileW - 1
    BY <1>4, PhaseBefore
<1>10. v' = v
  <2>1. ~Draws(d)
      BY <1>3, <1>4, <1>9 DEF Draws, AccessIs, Phase
  <2>2. d # ScreenW
      BY <1>3, <1>4, <1>9, PhaseBefore
  <2> QED
      BY <1>4, <1>8, <2>1, <2>2, DotColumn
<1>11. /\ index' = IF Phase(d) = 0 THEN v ELSE index
       /\ palette' = IF Phase(d) = Access THEN v ELSE palette
       /\ plane0' = IF Phase(d) = 2 * Access THEN TileRow(l, d) ELSE plane0
  <2>1. 0 * Access = 0 /\ 1 * Access = Access
      BY <1>3
  <2> QED
      BY <1>8, <2>1 DEF FetchTile, AccessIs, Phase
<1>12. (TileRow(line, dot))' = TileRow(l, d)
    BY <1>2 DEF TileRow, TargetLine
<1>13. CASE Phase(d) = 0
    BY <1>2, <1>3, <1>9, <1>10, <1>11, <1>13
<1>14. CASE Phase(d) # 0
  <2>1. Fetches(dot) /\ Phase(dot) = Phase(d) - 1 /\ (Prefetching(dot) <=> Prefetching(d))
      BY <1>4, <1>5, <1>14, PhaseBefore
  <2>2. TileRow(line, dot) = TileRow(l, d)
      BY <1>5, <2>1 DEF TileRow, TargetLine
  <2>3. /\ index = v
        /\ Phase(dot) >= Access => palette = v
        /\ Phase(dot) >= 2 * Access => plane0 = TileRow(l, d)
    <3>1. line < ScreenH /\ Phase(dot) < 3 * Access
        BY <1>3, <1>4, <1>5, <1>9, <2>1
    <3> QED
        BY <1>6, <2>1, <2>2, <3>1 DEF LatchInv
  <2>4. index' = v'
      BY <1>10, <1>11, <2>3
  <2>5. Phase(d) >= Access => palette' = v'
      BY <1>3, <1>9, <1>10, <1>11, <2>1, <2>3
  <2>6. Phase(d) >= 2 * Access => plane0' = TileRow(l, d)
      BY <1>3, <1>9, <1>11, <2>1, <2>3
  <2> QED
      BY <1>2, <1>12, <2>4, <2>5, <2>6
<1> QED
    BY <1>13, <1>14

-----------------------------------------------------------------------------
(* The rows.                                                               *)
LEMMA PlaceType == ASSUME NEW a \in Address, a.row < Rows PROVE PixelRow(a) \in 0 .. (2 * ScreenH) - 1
BY RowStep

(* Only the row fields matter to the row.                                  *)
LEMMA SameRow ==
    ASSUME NEW a, NEW b, a.row = b.row, a.nty = b.nty, a.fine = b.fine
    PROVE  PixelRow(a) = PixelRow(b)
BY DEF PixelRow, WorldY

(* A fetch leaves the row alone, and the one at the end of the picture     *)
(* line takes it down by a pixel.                                          *)
LEMMA RowFollows ==
    ASSUME TypeOK, t.row < Rows, v.row < Rows,
           NEW l \in Nat, l < ScreenH, NEW d \in Nat, Fetches(d), FetchTile(l, d),
           PixelRow(v) \in Around(PixelRow(t) + RowsDone(l, d - 1), 2 * ScreenH)
    PROVE  /\ v'.row < Rows
           /\ PixelRow(v') \in Around(PixelRow(t) + RowsDone(l, d), 2 * ScreenH)
<1> DEFINE a == IF Draws(d) THEN NextColumn(v) ELSE v
           m == 2 * ScreenH
           y == PixelRow(t) + RowsDone(l, d - 1)
<1>1. v \in Address /\ t \in Address /\ ScreenH \in Nat \ {0} /\ ScreenW \in Nat \ {0} /\ m \in Nat
    BY Sizes DEF TypeOK
<1>2. a \in Address /\ a.row < Rows /\ PixelRow(a) = PixelRow(v)
  <2>1. /\ NextColumn(v) \in Address /\ NextColumn(v).row = v.row
        /\ NextColumn(v).nty = v.nty /\ NextColumn(v).fine = v.fine
      BY <1>1, NextColumnType, ColumnStep
  <2>2. PixelRow(NextColumn(v)) = PixelRow(v)
      BY <2>1, SameRow
  <2> QED
      BY <1>1, <2>1, <2>2
<1>3. PixelRow(t) \in 0 .. m - 1 /\ PixelRow(a) \in 0 .. m - 1
    BY <1>1, <1>2, PlaceType
<1>4. PixelRow(a) \in Around(y, m)
    BY <1>2
<1>5. v' = IF d = ScreenW THEN NextRow(a) ELSE a
    BY DotColumn
<1> HIDE DEF a
<1>6. CASE d # ScreenW
  <2>1. RowsDone(l, d) = RowsDone(l, d - 1)
    <3>1. d >= ScreenW <=> d - 1 >= ScreenW
        BY <1>1, <1>6
    <3> QED
        BY <3>1 DEF RowsDone
  <2> QED
      BY <1>2, <1>4, <1>5, <1>6, <2>1
<1>7. CASE d = ScreenW
  <2>1. RowsDone(l, d) = l + 1 /\ RowsDone(l, d - 1) = l
      BY <1>1, <1>7 DEF RowsDone
  <2>2. y \in Int /\ y < (2 * m) - 1 /\ PixelRow(t) + RowsDone(l, d) = y + 1
      BY <1>1, <1>3, <2>1
  <2> DEFINE x == PixelRow(a)
  <2>3. x \in 0 .. m - 1 /\ x \in Around(y, m)
      BY <1>3, <1>4
  <2>4. v'.row < Rows /\ PixelRow(v') = IF x = m - 1 THEN 0 ELSE x + 1
      BY <1>2, <1>5, <1>7, RowStep
  <2> HIDE DEF x, m, y
  <2>5. (IF x = m - 1 THEN 0 ELSE x + 1) \in Around(y + 1, m)
      BY <1>1, <2>2, <2>3, AroundStep
  <2> QED
      BY <2>2, <2>4, <2>5 DEF m
<1> QED
    BY <1>6, <1>7

LEMMA RowTick == TypeOK /\ RowInv /\ Tick => RowInv'
<1> SUFFICES ASSUME TypeOK, RowInv, Tick, steadyFrame' PROVE RowInv'
    BY DEF RowInv
<1>1. PICK l \in Nat, d \in Nat : l < Lines /\ d < Dots /\ TickTo(l, d)
    BY TickBeam
<1>2. line' = l /\ dot' = d /\ UNCHANGED <<t, scrollY, showBg>>
    BY <1>1 DEF TickTo
<1>3. /\ ScreenW \in Nat \ {0} /\ ScreenH \in Nat \ {0} /\ ScreenH + 1 < Lines /\ Lines \in Nat
      /\ Dots \in Nat /\ line \in Nat /\ dot \in Nat /\ PrefetchAt \in Nat /\ TileW \in Nat
      /\ ScreenW < PrefetchAt /\ PrefetchAt + (2 * TileW) < Dots /\ t \in Address
    BY Sizes, Screen DEF TypeOK
<1>4. Dots - 1 >= ScreenW
    BY <1>3
<1>5. SUFFICES /\ showBg /\ ScrollIsSet
               /\ l < ScreenH => /\ v'.row < Rows
                                 /\ PixelRow(v') \in Around(PixelRow(t) + RowsDone(l, d), 2 * ScreenH)
               /\ l = Lines - 1 => v' = t
    BY <1>2 DEF RowInv, ScrollIsSet
<1>6. CASE TopOfFrame(l, d)
  <2>1. showBg /\ ScrollIsSet /\ l = Lines - 1
      BY <1>1, <1>6, Zenon DEF TickTo, TopOfFrame
  <2>2. ~(l < ScreenH)
      BY <1>3, <2>1
  <2>3. v' = t
      BY <1>1, <1>6, <2>2 DEF TickTo
  <2> QED
      BY <2>1, <2>2, <2>3
<1>7. CASE ~TopOfFrame(l, d)
  <2>1. steadyFrame
      BY <1>1, <1>7, Zenon DEF TickTo
  <2>2. /\ showBg /\ ScrollIsSet
        /\ line < ScreenH => /\ v.row < Rows
                             /\ PixelRow(v) \in Around(PixelRow(t) + RowsDone(line, dot), 2 * ScreenH)
        /\ line = Lines - 1 => v = t
      BY <2>1 DEF RowInv
  <2>3. t.row < Rows
      BY <2>2 DEF ScrollIsSet
  <2>4. CASE l < ScreenH /\ Fetches(d)
    <3>1. d - 1 = dot /\ l = line /\ d >= 1 /\ d # ScreenW + 1
        BY <1>1, <1>3, <2>4, FetchDots DEF TickTo
    <3>2. FetchTile(l, d)
        BY <1>1, <2>2, <2>4, <3>1 DEF TickTo, Pipeline
    <3>3. v.row < Rows /\ PixelRow(v) \in Around(PixelRow(t) + RowsDone(l, d - 1), 2 * ScreenH)
        BY <2>2, <2>4, <3>1
    <3>4. v'.row < Rows /\ PixelRow(v') \in Around(PixelRow(t) + RowsDone(l, d), 2 * ScreenH)
        BY <2>3, <2>4, <3>2, <3>3, RowFollows
    <3> QED
        BY <1>3, <2>2, <2>4, <3>4
  <2>5. CASE l < ScreenH /\ ~Fetches(d)
    <3>1. v'.row = v.row /\ PixelRow(v') = PixelRow(v)
      <4>1. v' = v \/ v' = [v EXCEPT !.col = t.col, !.ntx = t.ntx]
          BY <1>1, <2>2, <2>5 DEF TickTo, Pipeline, HorizontalReset
      <4>2. v'.row = v.row /\ v'.nty = v.nty /\ v'.fine = v.fine
          BY <4>1 DEF TypeOK, Address
      <4> QED
          BY <4>2, SameRow
    <3>2. CASE d = dot + 1 /\ l = line
      <4>1. d # ScreenW
          BY <1>3, <2>5 DEF Fetches
      <4>2. RowsDone(l, d) = RowsDone(line, dot)
          BY <1>3, <3>2, <4>1 DEF RowsDone
      <4> QED
          BY <1>3, <2>2, <2>5, <3>1, <3>2, <4>2
    <3>3. CASE d = 0 /\ dot = Dots - 1 /\ line < Lines - 1 /\ l = line + 1
      <4>1. RowsDone(l, d) = RowsDone(line, dot) /\ line < ScreenH
          BY <1>3, <1>4, <2>5, <3>3 DEF RowsDone
      <4> QED
          BY <1>3, <2>2, <2>5, <3>1, <3>3, <4>1
    <3>4. CASE d = 0 /\ dot = Dots - 1 /\ line = Lines - 1 /\ l = 0
      <4>1. v = t /\ RowsDone(l, d) = 0
          BY <1>3, <2>2, <3>4 DEF RowsDone
      <4>2. PixelRow(t) + 0 = PixelRow(t)
          BY <1>3, <2>3, PlaceType
      <4> QED
          BY <1>3, <2>2, <2>3, <2>5, <3>1, <3>4, <4>1, <4>2 DEF Around
    <3> QED
        BY <1>1, <3>2, <3>3, <3>4 DEF TickTo
  <2>6. CASE ~(l < ScreenH)
    <3>1. v' = v
        BY <1>1, <1>7, <2>6 DEF TickTo
    <3>2. l = Lines - 1 => line = Lines - 1
        BY <1>1, <1>3, <1>7, <2>2 DEF TickTo, TopOfFrame
    <3> QED
        BY <2>2, <2>6, <3>1, <3>2
  <2> QED
      BY <2>4, <2>5, <2>6
<1> QED
    BY <1>6, <1>7

LEMMA ScrollStep == TypeOK /\ ScrollInv /\ [Next]_vars => ScrollInv'
<1>1. ScrollInv /\ UNCHANGED vars => ScrollInv'
  <2> SUFFICES ASSUME ScrollInv, UNCHANGED vars PROVE ScrollInv'
      OBVIOUS
  <2>1. UNCHANGED <<line, dot, showBg, v, t, fineX, scrollY, xOffset, index, palette, plane0,
                    steadyLine, steadyFrame>>
      BY DEF vars, beam, mask, scroll, tile, history
  <2> QED
      BY <2>1 DEF ScrollInv, ColumnInv, RowInv, LatchInv, ScrollIsSet, TileRow
<1>2. TypeOK /\ ScrollInv /\ Tick => ScrollInv'
    BY ColumnTick, RowTick, LatchTick DEF ScrollInv
<1> QED
    BY <1>1, <1>2, GuestScroll DEF Next


LEMMA ScrollIsRight == Spec => [](TypeOK /\ ScrollInv)
<1>1. Init => TypeOK /\ ScrollInv
    BY InitTypes, InitScroll
<1>2. (TypeOK /\ ScrollInv) /\ [Next]_vars => (TypeOK /\ ScrollInv)'
  <2>1. TypeOK /\ UNCHANGED vars => TypeOK'
      BY DEF TypeOK, vars, beam, mask, scroll, tile, history
  <2>2. TypeOK /\ [Next]_vars => TypeOK'
      BY <2>1, TickTypes, GuestTypes DEF Next
  <2> QED
      BY <2>2, ScrollStep
<1> QED
    BY <1>1, <1>2, PTL DEF Spec

(* A step that draws is a dot, and what it draws was latched where v is.   *)
Drawing(d) ==
    /\ d = dot + 1 /\ Fetches(d) /\ Draws(d) /\ line < ScreenH
    /\ index = v /\ palette = v /\ plane0 = TileRow(line, d)

LEMMA DrawsLatched ==
    ASSUME TypeOK, ScrollInv, [Next]_vars, steadyLine \/ steadyFrame, NEW k \in Nat, DrawsFor(k)
    PROVE  dot' \in Nat /\ Drawing(dot') /\ TargetLine(line, dot') = k
<1>1. dot' # dot /\ line' < ScreenH /\ Fetches(dot') /\ Draws(dot') /\ TargetLine(line', dot') = k
    BY DEF DrawsFor
<1>2. Tick
  <2>1. Guest => dot' = dot
      BY DEF Guest, WritePPUCTRL, WritePPUMASK, ReadPPUSTATUS, WritePPUSCROLL, WritePPUADDR,
             AccessPPUDATA, GuestActs, beam
  <2>2. UNCHANGED vars => dot' = dot
      BY DEF vars, beam
  <2> QED
      BY <1>1, <2>1, <2>2 DEF Next
<1>3. PICK l \in Nat, d \in Nat : l < Lines /\ d < Dots /\ TickTo(l, d)
    BY <1>2, TickBeam
<1>4. line' = l /\ dot' = d
    BY <1>3 DEF TickTo
<1>5. dot \in Nat /\ Access \in Nat \ {0} /\ TileW = 4 * Access
    BY Sizes, Quarters DEF TypeOK
<1>6. d = dot + 1 /\ l = line
    BY <1>1, <1>3, <1>4, FetchDots DEF TickTo
<1>7. Phase(d) = 3 * Access
    BY <1>1, <1>4 DEF Draws, AccessIs, Phase
<1>8. Fetches(dot) /\ Phase(dot) = (3 * Access) - 1 /\ (Prefetching(dot) <=> Prefetching(d))
  <2>1. d - 1 = dot /\ Phase(d) # 0
      BY <1>5, <1>6, <1>7
  <2> QED
      BY <1>1, <1>4, <1>7, <2>1, PhaseBefore
<1>9. index = v /\ palette = v /\ plane0 = TileRow(line, dot)
  <2>1. Phase(dot) < 3 * Access /\ Phase(dot) >= Access /\ Phase(dot) >= 2 * Access
      BY <1>5, <1>8
  <2> QED
      BY <1>1, <1>4, <1>6, <1>8, <2>1 DEF ScrollInv, LatchInv
<1>10. TileRow(line, dot) = TileRow(line, d)
    BY <1>8 DEF TileRow, TargetLine
<1> QED
    BY <1>1, <1>4, <1>6, <1>9, <1>10 DEF Drawing

(* Where a tile comes from and where it goes, apart by as many tiles as    *)
(* the line is late, and perhaps once round the world.                     *)
ColumnError(d) == WorldX(index) + FirstPixel(d) - (WorldX(t) + fineX + xOffset)

LEMMA ColumnOff ==
    ASSUME TypeOK, ScrollInv, steadyLine, NEW d \in Nat, Drawing(d)
    PROVE  /\ Late(line, dot, fineX) \in Nat
           /\ ColumnError(d) + (Late(line, dot, fineX) * TileW) \in {0, -(2 * ScreenW)}
<1> DEFINE n == TileNo(d)
           z == Late(line, dot, fineX)
           c == TileCol(t)
           b == TileCol(v)
           w == TileW
           f == fineX
<1>1. /\ w \in Nat \ {0} /\ Cols \in Nat \ {0} /\ ScreenW = Cols * w /\ v \in Address /\ t \in Address
      /\ f \in Nat /\ dot \in Nat /\ index = v /\ d = dot + 1 /\ d - 1 = dot
    BY Sizes DEF TypeOK, ScreenW, Drawing
<1>2. Fetches(d) /\ Draws(d) /\ line < ScreenH /\ dot # ScreenW
    BY <1>1, FetchDots DEF Drawing
<1>3. b \in Around(Reached(line, dot, fineX, t), 2 * Cols) /\ xOffset = OffsetAfter(Drawn(dot, fineX), fineX)
    BY <1>2 DEF ScrollInv, ColumnInv
<1>4. Drawn(dot, fineX) = n /\ n < TilesOfLine(fineX) /\ n \in Nat
    BY <1>1, <1>2, DrawnStep
<1>5. z \in Nat
    BY DrawnType DEF Late
<1>6. b \in Int /\ c \in Int
    BY <1>1, ColumnStep
<1>7. b = (c + n) - z \/ b = ((c + n) - z) - (2 * Cols)
    BY <1>3, <1>4 DEF Around, Reached
<1>8. FirstPixel(d) - (f + xOffset) = -(n * w)
  <2>1. CASE n = 0
    <3>1. FirstPixel(d) = f /\ xOffset = 0 /\ n * w = 0
        BY <2>1, <1>1, <1>3, <1>4 DEF FirstPixel, OffsetAfter
    <3> QED
        BY <3>1, <1>1
  <2>2. CASE n # 0
    <3>1. FirstPixel(d) = 0 /\ xOffset = (n * w) - f /\ n # TilesOfLine(fineX)
      <4>1. n # TilesOfLine(fineX)
          BY <1>4, DrawnType
      <4> QED
          BY <2>2, <1>3, <1>4, <4>1 DEF FirstPixel, OffsetAfter
    <3> HIDE DEF n
    <3>2. n * w \in Int
        BY <1>1, <1>4
    <3> QED
        BY <3>1, <3>2, <1>1
  <2> QED
      BY <2>1, <2>2
<1>9. FirstPixel(d) \in Int /\ xOffset \in Int
    BY <1>1, Sizes DEF FirstPixel, TypeOK
<1>10. WorldX(index) = b * w /\ WorldX(t) = c * w
    BY <1>1 DEF WorldX, TileCol
<1> HIDE DEF n, z, c, b, w, f
<1>11. b * w \in Int /\ c * w \in Int /\ n * w \in Int /\ z * w \in Int
    BY <1>1, <1>4, <1>5, <1>6
<1>12. ColumnError(d) = ((b * w) - (c * w)) - (n * w)
    BY <1>1, <1>8, <1>9, <1>10, <1>11 DEF ColumnError, f
<1>13. (2 * Cols) * w = 2 * ScreenW /\ ScreenW \in Int
    BY <1>1
<1>14. ColumnError(d) + (z * w) = 0 \/ ColumnError(d) + (z * w) = -(2 * ScreenW)
  <2>1. CASE b = (c + n) - z
    <3>1. b * w = ((c * w) + (n * w)) - (z * w)
        BY <1>1, <1>4, <1>5, <1>6, <2>1
    <3> QED
        BY <1>11, <1>12, <3>1
  <2>2. CASE b = ((c + n) - z) - (2 * Cols)
    <3>1. b * w = (((c * w) + (n * w)) - (z * w)) - ((2 * Cols) * w)
        BY <1>1, <1>4, <1>5, <1>6, <2>2
    <3> QED
        BY <1>11, <1>12, <1>13, <3>1
  <2> QED
      BY <1>7, <2>1, <2>2
<1> QED
    BY <1>5, <1>14 DEF z, w

LEMMA RoundIsZero == ASSUME NEW n \in Nat \ {0} PROVE 0 % n = 0 /\ (-n) % n = 0
<1>1. 0 = (0 * n) + 0 /\ -n = ((-1) * n) + 0 /\ -n \in Int /\ 0 \in 0 .. n - 1 /\ -1 \in Int
    OBVIOUS
<1> DEFINE m == -n
           q == -1
<1>2. m = (q * n) + 0 /\ m \in Int /\ q \in Int
    BY <1>1
<1> HIDE DEF m, q
<1>3. m % n = 0
    BY <1>1, <1>2, Division
<1> QED
    BY <1>3 DEF m

(* ColumnIsRight: whatever the scroll position, on every line but the      *)
(* first each tile is drawn over the column of the world it comes from,    *)
(* with the palette of the same tile (fetch_tile and the horizontal reset  *)
(* of fetch_tile_pipeline), for every size of tile and screen.             *)
THEOREM ColumnsCorrect == Spec => ColumnIsRight
<1> DEFINE A == \A l \in 1 .. ScreenH - 1 :
                   steadyLine /\ DrawsFor(l) => ColumnMatches /\ palette = index
<1>1. TypeOK /\ ScrollInv /\ [Next]_vars => A
  <2> SUFFICES ASSUME TypeOK, ScrollInv, [Next]_vars, NEW l \in 1 .. ScreenH - 1, steadyLine, DrawsFor(l)
               PROVE  ColumnMatches /\ palette = index
      OBVIOUS
  <2> DEFINE d == dot'
  <2>1. d \in Nat /\ Drawing(d) /\ TargetLine(line, d) = l
      BY DrawsLatched
  <2>2. ColumnMatches <=> ColumnError(d) % (2 * ScreenW) = 0
      BY DEF ColumnMatches, ColumnError
  <2> HIDE DEF d
  <2>3. /\ ScreenW \in Nat \ {0} /\ 2 * ScreenW \in Nat \ {0} /\ PrefetchAt \in Nat /\ ScreenW < PrefetchAt
        /\ dot \in Nat /\ TileW \in Nat /\ d = dot + 1
      BY <2>1, Sizes, Screen DEF TypeOK, Drawing
  <2>4. Late(line, dot, fineX) = 0
      BY <2>1, <2>3 DEF Late, TargetLine, Prefetching
  <2>5. ColumnError(d) \in {0, -(2 * ScreenW)}
    <3>1. ColumnError(d) \in Int
      <4>1. /\ WorldX(index) \in Int /\ WorldX(t) \in Int /\ FirstPixel(d) \in Int
            /\ fineX \in Int /\ xOffset \in Int
        <5>1. index \in Address /\ t \in Address
            BY DEF TypeOK
        <5>2. TileCol(index) \in Int /\ TileCol(t) \in Int
            BY <5>1, <2>3, ColumnStep, Sizes
        <5>3. WorldX(index) = TileCol(index) * TileW /\ WorldX(t) = TileCol(t) * TileW
            BY DEF WorldX, TileCol
        <5> QED
            BY <5>2, <5>3, Sizes DEF FirstPixel, TypeOK
      <4> QED
          BY <4>1 DEF ColumnError
    <3>2. ColumnError(d) + (0 * TileW) \in {0, -(2 * ScreenW)}
        BY <2>1, <2>4, ColumnOff
    <3> QED
        BY <2>3, <3>1, <3>2
  <2>6. ColumnError(d) % (2 * ScreenW) = 0
      BY <2>3, <2>5, RoundIsZero
  <2> QED
      BY <2>1, <2>2, <2>6 DEF Drawing
<1>2. ColumnIsRight <=> [][A]_vars
    BY DEF ColumnIsRight
<1> HIDE DEF A
<1> QED
    BY <1>1, <1>2, ScrollIsRight, PTL DEF Spec

(* What FirstLineToo asks for fails, and this is by how much: the tiles of *)
(* the first line that are not prefetched come from two columns to the     *)
(* left of where they are drawn, whatever the scroll, and on every screen  *)
(* of two tiles or more, because the two prefetched tiles are fetched      *)
(* again (nes_ppu.cpp:146 and :152, against :523-529).                     *)
FirstLineBehind ==
    [][steadyLine /\ DrawsFor(0) /\ ~Prefetching(dot') /\ Cols > 1 =>
          (ColumnError(dot') + (2 * TileW)) % (2 * ScreenW) = 0]_vars

THEOREM FirstLineTwoBehind == Spec => FirstLineBehind
<1> DEFINE A == steadyLine /\ DrawsFor(0) /\ ~Prefetching(dot') /\ Cols > 1 =>
                   (ColumnError(dot') + (2 * TileW)) % (2 * ScreenW) = 0
<1>1. TypeOK /\ ScrollInv /\ [Next]_vars => A
  <2> SUFFICES ASSUME TypeOK, ScrollInv, [Next]_vars, steadyLine, DrawsFor(0), ~Prefetching(dot'), Cols > 1
               PROVE  (ColumnError(dot') + (2 * TileW)) % (2 * ScreenW) = 0
      OBVIOUS
  <2> DEFINE d == dot'
  <2>1. d \in Nat /\ Drawing(d) /\ TargetLine(line, d) = 0
      BY DrawsLatched
  <2>2. ~Prefetching(d)
      OBVIOUS
  <2> HIDE DEF d
  <2>3. ScreenW \in Nat \ {0} /\ 2 * ScreenW \in Nat \ {0} /\ Cols \in Nat /\ dot \in Nat /\ fineX \in Nat
      BY Sizes DEF TypeOK
  <2>4. line = 0 /\ d <= ScreenW /\ d = dot + 1
      BY <2>1, <2>2, FetchDots DEF TargetLine, Drawing
  <2>5. Drawn(0, fineX) = 2
    <3>1. TilesOfLine(fineX) >= 2 /\ TilesOfLine(fineX) \in Nat
        BY <2>3 DEF TilesOfLine
    <3>2. Fetched(0) = 2
        BY IdleDots
    <3> QED
        BY <3>1, <3>2 DEF Drawn
  <2>6. Late(line, dot, fineX) = 2
      BY <2>3, <2>4, <2>5 DEF Late
  <2>7. ColumnError(d) + (2 * TileW) \in {0, -(2 * ScreenW)}
      BY <2>1, <2>6, ColumnOff
  <2>8. (ColumnError(d) + (2 * TileW)) % (2 * ScreenW) = 0
    <3> DEFINE e == ColumnError(d) + (2 * TileW)
    <3>1. e \in {0, -(2 * ScreenW)}
        BY <2>7
    <3> HIDE DEF e
    <3>2. e % (2 * ScreenW) = 0
        BY <2>3, <3>1, RoundIsZero
    <3> QED
        BY <3>2 DEF e
  <2> QED
      BY <2>8 DEF d
<1>2. FirstLineBehind <=> [][A]_vars
    BY DEF FirstLineBehind
<1> HIDE DEF A
<1> QED
    BY <1>1, <1>2, ScrollIsRight, PTL DEF Spec

-----------------------------------------------------------------------------
(* The line of the world that line k of the screen shows.                  *)
RowError(k) == WorldY(index) + plane0 - (WorldY(t) + t.fine + k)

(* _scroll_y and v agree about the row inside the tile.                    *)
LEMMA SameFine ==
    ASSUME NEW a \in Address, NEW b \in Address, NEW k \in Nat, NEW s \in Nat,
           s = (b.row * TileH) + b.fine,
           PixelRow(a) \in Around(PixelRow(b) + k, 2 * ScreenH)
    PROVE  (k + s) % TileH = a.fine
<1> DEFINE h == TileH
           A == (a.nty * Rows) + a.row
           B == b.nty * Rows
<1>1. /\ h \in Nat \ {0} /\ Rows \in Nat \ {0} /\ ScreenH = Rows * h
      /\ a.row \in Nat /\ b.row \in Nat /\ b.fine \in 0 .. h - 1 /\ a.fine \in 0 .. h - 1
      /\ a.nty \in 0 .. 1 /\ b.nty \in 0 .. 1
    BY Sizes DEF Address, ScreenH
<1>2. A \in Int /\ B \in Int
    BY <1>1
<1>3. PixelRow(a) = (A * h) + a.fine /\ PixelRow(b) = ((B + b.row) * h) + b.fine
    BY DEF PixelRow, WorldY
<1>4. s = (b.row * h) + b.fine
    OBVIOUS
<1> HIDE DEF A, B, h
<1>5. (B + b.row) * h = (B * h) + (b.row * h) /\ B * h \in Int /\ b.row * h \in Int /\ A * h \in Int
    BY <1>1, <1>2
<1>6. (2 * Rows) * h = 2 * ScreenH /\ ScreenH \in Int
    BY <1>1
<1>7. PixelRow(b) + k = (B * h) + (k + s)
    BY <1>1, <1>3, <1>4, <1>5
<1>8. \E q \in Int : k + s = (q * h) + a.fine
  <2> DEFINE ah == A * h
             bh == B * h
             rh == (2 * Rows) * h
             ks == k + s
  <2>0. /\ ah \in Int /\ bh \in Int /\ rh \in Int /\ ks \in Int /\ a.fine \in Int
        /\ PixelRow(a) = ah + a.fine /\ PixelRow(b) + k = bh + ks /\ rh = 2 * ScreenH
      BY <1>1, <1>3, <1>5, <1>6, <1>7
  <2> HIDE DEF ah, bh, rh, ks
  <2>1. CASE PixelRow(a) = PixelRow(b) + k
    <3>1. ks = (ah - bh) + a.fine
        BY <2>0, <2>1
    <3>2. (A - B) * h = (A * h) - (B * h) /\ A - B \in Int
        BY <1>1, <1>2
    <3>3. k + s = ((A - B) * h) + a.fine
        BY <3>1, <3>2 DEF ah, bh, ks
    <3> QED
        BY <3>2, <3>3
  <2>2. CASE PixelRow(a) = (PixelRow(b) + k) - (2 * ScreenH)
    <3>1. ks = ((ah - bh) + rh) + a.fine
        BY <2>0, <2>2
    <3>2. ((A - B) + (2 * Rows)) * h = ((A * h) - (B * h)) + ((2 * Rows) * h) /\ (A - B) + (2 * Rows) \in Int
        BY <1>1, <1>2
    <3>3. k + s = (((A - B) + (2 * Rows)) * h) + a.fine
        BY <3>1, <3>2 DEF ah, bh, rh, ks
    <3> QED
        BY <3>2, <3>3
  <2> QED
      BY <2>1, <2>2 DEF Around
<1>9. PICK q \in Int : k + s = (q * h) + a.fine
    BY <1>8
<1> DEFINE x == k + s
<1>10. x \in Int /\ x = (q * h) + a.fine
    BY <1>9
<1> HIDE DEF x
<1>11. x % h = a.fine
    BY <1>1, <1>10, Division
<1> QED
    BY <1>11 DEF x, h

(* RowIsRight: in a frame whose scroll position $2005 has set, each tile   *)
(* drawn for a line but the first comes from the line of the world under   *)
(* it, the row inside the tile included, which tile_row takes from         *)
(* _scroll_y while fetch_tile counts another in v.                         *)
THEOREM RowsCorrect == Spec => RowIsRight
<1> DEFINE A == \A l \in 1 .. ScreenH - 1 :
                   steadyFrame /\ DrawsFor(l) =>
                      /\ (WorldY(index) + plane0 - (WorldY(t) + t.fine + l)) % (2 * ScreenH) = 0
                      /\ plane0 = TileRow(line', dot')
<1>1. TypeOK /\ ScrollInv /\ [Next]_vars => A
  <2> SUFFICES ASSUME TypeOK, ScrollInv, [Next]_vars, NEW l \in 1 .. ScreenH - 1, steadyFrame, DrawsFor(l)
               PROVE  /\ RowError(l) % (2 * ScreenH) = 0
                      /\ plane0 = TileRow(line', dot')
      BY DEF RowError
  <2> DEFINE d == dot'
  <2>1. d \in Nat /\ Drawing(d) /\ TargetLine(line, d) = l
      BY DrawsLatched
  <2>2. plane0 = TileRow(line', d)
      BY <2>1 DEF Drawing, DrawsFor, TileRow
  <2> HIDE DEF d
  <2>3. /\ ScreenW \in Nat \ {0} /\ ScreenH \in Nat \ {0} /\ 2 * ScreenH \in Nat \ {0}
        /\ PrefetchAt \in Nat /\ ScreenW < PrefetchAt /\ TileH \in Nat \ {0}
        /\ dot \in Nat /\ line \in Nat /\ v \in Address /\ t \in Address /\ scrollY \in Nat /\ l \in Nat
      BY Sizes, Screen DEF TypeOK
  <2>4. d = dot + 1 /\ line < ScreenH /\ index = v /\ plane0 = (l + scrollY) % TileH /\ Fetches(d)
      BY <2>1 DEF Drawing, TileRow
  <2>5. v.row < Rows /\ PixelRow(v) \in Around(PixelRow(t) + RowsDone(line, dot), 2 * ScreenH)
        /\ t.row < Rows /\ (t.row * TileH) + t.fine = scrollY
      BY <2>4 DEF ScrollInv, RowInv, ScrollIsSet
  <2>6. RowsDone(line, dot) = l
    <3>1. CASE Prefetching(d)
      <4>1. dot >= ScreenW
          BY <2>3, <2>4, <3>1 DEF Prefetching
      <4>2. (line + 1) % ScreenH = l
          BY <2>1, <3>1 DEF TargetLine
      <4>3. line + 1 = l
        <5>1. CASE line + 1 = ScreenH
          <6>1. (line + 1) % ScreenH = 0
              BY <2>3, <5>1
          <6> QED
              BY <4>2, <6>1
        <5>2. CASE line + 1 < ScreenH
            BY <2>3, <4>2, <5>2
        <5> QED
            BY <2>3, <2>4, <5>1, <5>2
      <4> QED
          BY <4>1, <4>3 DEF RowsDone
    <3>2. CASE ~Prefetching(d)
      <4>1. line = l
          BY <2>1, <3>2 DEF TargetLine
      <4>2. d <= ScreenW
          BY <2>1, <2>4, <3>2, FetchDots
      <4>3. ~(dot >= ScreenW)
          BY <2>3, <2>4, <4>2
      <4> QED
          BY <2>3, <4>1, <4>3 DEF RowsDone
    <3> QED
        BY <3>1, <3>2
  <2>7. PixelRow(v) \in Around(PixelRow(t) + l, 2 * ScreenH)
      BY <2>5, <2>6
  <2>8. plane0 = v.fine
    <3>1. (l + scrollY) % TileH = v.fine
        BY <2>3, <2>5, <2>7, SameFine
    <3> QED
        BY <2>4, <3>1
  <2>9. PixelRow(v) \in Int /\ PixelRow(t) \in Int
      BY <2>3, <2>5, PlaceType
  <2>10. RowError(l) \in {0, -(2 * ScreenH)}
    <3>1. WorldY(index) + plane0 = PixelRow(v) /\ WorldY(t) + t.fine = PixelRow(t)
        BY <2>4, <2>8 DEF PixelRow
    <3>2. WorldY(index) \in Int /\ WorldY(t) \in Int /\ plane0 \in Int /\ t.fine \in Int
      <4>1. /\ v.nty \in Int /\ v.row \in Int /\ t.nty \in Int /\ t.row \in Int
            /\ t.fine \in Int /\ v.fine \in Int /\ Rows \in Int
          BY <2>3, Sizes DEF Address
      <4>2. (v.nty * Rows) + v.row \in Int /\ (t.nty * Rows) + t.row \in Int
          BY <4>1
      <4>3. WorldY(v) \in Int /\ WorldY(t) \in Int
          BY <2>3, <4>2 DEF WorldY
      <4> QED
          BY <2>4, <2>8, <4>1, <4>3
    <3>3. RowError(l) = PixelRow(v) - (PixelRow(t) + l)
        BY <2>3, <3>1, <3>2 DEF RowError
    <3> QED
        BY <2>3, <2>7, <2>9, <3>3 DEF Around
  <2>11. RowError(l) % (2 * ScreenH) = 0
      BY <2>3, <2>10, RoundIsZero
  <2> QED
      BY <2>2, <2>11 DEF d
<1>2. RowIsRight <=> [][A]_vars
    BY DEF RowIsRight
<1> HIDE DEF A
<1> QED
    BY <1>1, <1>2, ScrollIsRight, PTL DEF Spec

===============================================================================
