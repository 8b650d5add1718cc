------------------------------ MODULE VideoMap ------------------------------
(***************************************************************************)
(* Which cell of video memory a PPU address names, by what the cell is:    *)
(* a byte of name table A or B, of the palette or of pattern memory.       *)
(***************************************************************************)
EXTENDS Integers

Wirings == {"vertical", "horizontal", "lower", "upper"}

(* nes_mapper.h:18-24: "A, B / A, B" and "A, A / B, B"; one table else.    *)
Table(w, n) ==
    CASE w = "vertical"   -> <<"A", "B", "A", "B">>[n + 1]
      [] w = "horizontal" -> <<"A", "A", "B", "B">>[n + 1]
      [] w = "lower"      -> "A"
      [] w = "upper"      -> "B"

IsPalette(a) == a \div 256 = 63

Cell(w, a) ==
    IF IsPalette(a)
      THEN [kind |-> "palette", at |-> IF a % 4 = 0 THEN a % 16 ELSE a % 32]
    ELSE IF a < 8192
      THEN [kind |-> "pattern", at |-> a]
      ELSE [kind |-> Table(w, (a \div 1024) % 4), at |-> a % 1024]

(* The palette lies over the last page of the name tables' mirror, which   *)
(* the read port still sees under it.                                      *)
Under(a) == a - 4096

WithUnder(S) == S \cup {Under(a) : a \in {b \in S : IsPalette(b)}}
=============================================================================
