---------------------------- MODULE NesCpuProofs ----------------------------
(***************************************************************************)
(* What is proved of NesCpu for every program and every content of         *)
(* registers and memory: its typing, that its 8-bit arithmetic is          *)
(* arithmetic, that the log shows the operand, that instructions take as   *)
(* long as their bus accesses, and which loops an armed CPU stops at.      *)
(***************************************************************************)
EXTENDS NesCpu, TLAPS

-----------------------------------------------------------------------------
(* Bits and bytes. *)

LEMMA BitType == ASSUME NEW n \in Nat, NEW i \in Nat PROVE Bit(n, i) \in {0, 1}
<1>1. 2 ^ i \in Int
    OBVIOUS
<1>2. (n \div 2 ^ i) % 2 \in {0, 1}
    OBVIOUS
<1> QED
    BY <1>2 DEF Bit

LEMMA FlagType == ASSUME NEW b PROVE Flag(b) \in {0, 1}
BY DEF Flag

LEMMA SumOfBits ==
    ASSUME NEW a0 \in {0, 1}, NEW a1 \in {0, 1}, NEW a2 \in {0, 1}, NEW a3 \in {0, 1},
           NEW a4 \in {0, 1}, NEW a5 \in {0, 1}, NEW a6 \in {0, 1}, NEW a7 \in {0, 1}
    PROVE  2 ^ 0 * a0 + 2 ^ 1 * a1 + 2 ^ 2 * a2 + 2 ^ 3 * a3
           + 2 ^ 4 * a4 + 2 ^ 5 * a5 + 2 ^ 6 * a6 + 2 ^ 7 * a7 \in Byte
<1>1. 2 ^ 0 = 1 /\ 2 ^ 1 = 2 /\ 2 ^ 2 = 4 /\ 2 ^ 3 = 8
      /\ 2 ^ 4 = 16 /\ 2 ^ 5 = 32 /\ 2 ^ 6 = 64 /\ 2 ^ 7 = 128
    OBVIOUS
<1> QED
    BY <1>1 DEF Byte

LEMMA AndType == ASSUME NEW a \in Byte, NEW b \in Byte PROVE And(a, b) \in Byte
<1>1. \A i \in Nat : Bit(a, i) \in {0, 1} /\ Bit(b, i) \in {0, 1}
    BY BitType DEF Byte
<1>2. \A i \in Nat : Bit(a, i) * Bit(b, i) \in {0, 1}
    BY <1>1
<1> QED
    BY <1>2, SumOfBits DEF And, Bitwise2

LEMMA OrType == ASSUME NEW a \in Byte, NEW b \in Byte PROVE Or(a, b) \in Byte
<1>1. \A i \in Nat : Bit(a, i) \in {0, 1} /\ Bit(b, i) \in {0, 1}
    BY BitType DEF Byte
<1>2. \A i \in Nat : Bit(a, i) + Bit(b, i) - (Bit(a, i) * Bit(b, i)) \in {0, 1}
    BY <1>1
<1> QED
    BY <1>2, SumOfBits DEF Or, Bitwise2

LEMMA XorType == ASSUME NEW a \in Byte, NEW b \in Byte PROVE Xor(a, b) \in Byte
<1>1. \A i \in Nat : Bit(a, i) \in {0, 1} /\ Bit(b, i) \in {0, 1}
    BY BitType DEF Byte
<1>2. \A i \in Nat : (Bit(a, i) + Bit(b, i)) % 2 \in {0, 1}
    BY <1>1
<1> QED
    BY <1>2, SumOfBits DEF Xor, Bitwise2

LEMMA HighBit == ASSUME NEW n \in Byte PROVE Bit(n, 7) = (IF n < 128 THEN 0 ELSE 1)
<1>1. 2 ^ 7 = 128
    OBVIOUS
<1>2. n \in Nat /\ n < 256
    BY DEF Byte
<1> QED
    BY <1>1, <1>2 DEF Bit

LEMMA ByteBits == ASSUME NEW n \in Byte, NEW i \in Nat PROVE Bit(n, i) \in {0, 1}
BY BitType DEF Byte

LEMMA Modulo == ASSUME NEW n \in Int PROVE n % 256 \in Byte
BY DEF Byte

-----------------------------------------------------------------------------
(* The registers. *)

LEMMA FieldTypes ==
    ASSUME NEW r \in Registers, NEW a \in Byte, NEW b \in {0, 1}
    PROVE  /\ [r EXCEPT !.A = a] \in Registers /\ [r EXCEPT !.X = a] \in Registers
           /\ [r EXCEPT !.Y = a] \in Registers /\ [r EXCEPT !.S = a] \in Registers
           /\ [r EXCEPT !.C = b] \in Registers /\ [r EXCEPT !.Z = b] \in Registers
           /\ [r EXCEPT !.I = b] \in Registers /\ [r EXCEPT !.D = b] \in Registers
           /\ [r EXCEPT !.B = b] \in Registers /\ [r EXCEPT !.U = b] \in Registers
           /\ [r EXCEPT !.V = b] \in Registers /\ [r EXCEPT !.N = b] \in Registers
BY DEF Registers

LEMMA RegisterTypes ==
    ASSUME NEW r \in Registers
    PROVE  /\ r.A \in Byte /\ r.X \in Byte /\ r.Y \in Byte /\ r.S \in Byte
           /\ r.C \in {0, 1} /\ r.Z \in {0, 1} /\ r.I \in {0, 1} /\ r.D \in {0, 1}
           /\ r.B \in {0, 1} /\ r.U \in {0, 1} /\ r.V \in {0, 1} /\ r.N \in {0, 1}
BY DEF Registers

(* Z and N say what val is, and nothing else changes.                      *)
LEMMA AluFlags ==
    ASSUME NEW r \in Registers, NEW val \in Byte
    PROVE  LET q == CalcAluFlag(r, val)
           IN  /\ q \in Registers
               /\ q.A = r.A /\ q.X = r.X /\ q.Y = r.Y /\ q.S = r.S
               /\ q.C = r.C /\ q.V = r.V
               /\ q.Z = Flag(val = 0) /\ q.N = Bit(val, 7)
<1>1. Flag(val = 0) \in {0, 1} /\ Bit(val, 7) \in {0, 1}
    BY FlagType, ByteBits
<1> QED
    BY <1>1 DEF CalcAluFlag, Registers

LEMMA AccumulatorSet ==
    ASSUME NEW r \in Registers, NEW val \in Byte
    PROVE  LET q == SetA(r, val)
           IN  /\ q \in Registers
               /\ q.A = val /\ q.X = r.X /\ q.Y = r.Y /\ q.S = r.S
               /\ q.C = r.C /\ q.V = r.V
               /\ q.Z = Flag(val = 0) /\ q.N = Bit(val, 7)
<1> DEFINE p == [r EXCEPT !.A = val]
<1>1. p \in Registers
    BY FieldTypes
<1>2. p.A = val /\ p.X = r.X /\ p.Y = r.Y /\ p.S = r.S /\ p.C = r.C /\ p.V = r.V
    BY DEF Registers
<1>3. SetA(r, val) = CalcAluFlag(p, val)
    BY DEF SetA
<1> HIDE DEF p
<1> QED
    BY <1>1, <1>2, <1>3, AluFlags

LEMMA CompareSets ==
    ASSUME NEW r \in Registers, NEW with \in Byte, NEW val \in Byte
    PROVE  LET q == Compare(r, with, val)
           IN  /\ q \in Registers
               /\ q.A = r.A /\ q.X = r.X /\ q.Y = r.Y /\ q.S = r.S
<1> DEFINE p == [r EXCEPT !.C = Flag(with >= val)]
           d == (with - val) % 256
<1>1. p \in Registers
    BY FieldTypes, FlagType
<1>2. p.A = r.A /\ p.X = r.X /\ p.Y = r.Y /\ p.S = r.S
    BY DEF Registers
<1>3. d \in Byte
    BY Modulo DEF Byte
<1>4. Compare(r, with, val) = CalcAluFlag(p, d)
    BY DEF Compare
<1> HIDE DEF p, d
<1> QED
    BY <1>1, <1>2, <1>3, <1>4, AluFlags

LEMMA CarryOfSum ==
    ASSUME NEW a \in Byte, NEW val \in Byte, NEW c \in {0, 1}
    PROVE  ((a + val + c) % 256) + (256 * Flag(AddCarry(a, val, c))) = a + val + c
<1>1. a \in Nat /\ a < 256 /\ val \in Nat /\ val < 256
    BY DEF Byte
<1>2. AddCarry(a, val, c) <=> a + val + c >= 256
  <2>1. CASE a + val < 256
    <3>1. (a + val) % 256 = a + val
        BY <1>1, <2>1
    <3> QED
        BY <1>1, <2>1, <3>1 DEF AddCarry
  <2>2. CASE a + val >= 256
    <3>1. (a + val) % 256 = a + val - 256
        BY <1>1, <2>2
    <3> QED
        BY <1>1, <2>2, <3>1 DEF AddCarry
  <2> QED
      BY <1>1, <2>1, <2>2
<1>3. CASE a + val + c < 256
    BY <1>1, <1>2, <1>3 DEF Flag
<1>4. CASE a + val + c >= 256
    BY <1>1, <1>2, <1>4 DEF Flag
<1> QED
    BY <1>1, <1>3, <1>4

LEMMA OverflowOfSum ==
    ASSUME NEW a \in Byte, NEW val \in Byte, NEW c \in {0, 1}
    PROVE  IsSignOverflow(a, val, (a + val + c) % 256)
           <=> Signed(a) + Signed(val) + c \notin -128 .. 127
<1> DEFINE new == (a + val + c) % 256
<1>1. a \in Nat /\ a < 256 /\ val \in Nat /\ val < 256
    BY DEF Byte
<1>2. new \in Byte /\ new \in Nat
    BY <1>1, Modulo DEF Byte
<1>3. new = (IF a + val + c < 256 THEN a + val + c ELSE a + val + c - 256)
    BY <1>1
<1>4. Bit(a, 7) = (IF a < 128 THEN 0 ELSE 1) /\ Bit(val, 7) = (IF val < 128 THEN 0 ELSE 1)
      /\ Bit(new, 7) = (IF new < 128 THEN 0 ELSE 1)
    BY <1>2, HighBit
<1> HIDE DEF new
<1>5. IsSignOverflow(a, val, new)
      <=> (a < 128 <=> val < 128) /\ ~(a < 128 <=> new < 128)
    BY <1>4 DEF IsSignOverflow
<1>6. Signed(a) + Signed(val) + c \notin -128 .. 127
      <=> (a < 128 <=> val < 128) /\ ~(a < 128 <=> new < 128)
    BY <1>1, <1>2, <1>3 DEF Signed
<1> QED
    BY <1>5, <1>6 DEF new

(* ADC is addition with a carry and a signed overflow.                     *)
LEMMA Addition ==
    ASSUME NEW r \in Registers, NEW val \in Byte
    PROVE  LET q == Add(r, val)
           IN  /\ q \in Registers
               /\ q.A + (256 * q.C) = r.A + val + r.C
               /\ q.V = Flag(Signed(r.A) + Signed(val) + r.C \notin -128 .. 127)
               /\ q.X = r.X /\ q.Y = r.Y /\ q.S = r.S
               /\ q.Z = Flag(q.A = 0) /\ q.N = Bit(q.A, 7)
<1> DEFINE new == (r.A + val + r.C) % 256
           v   == Flag(IsSignOverflow(r.A, val, new))
           c   == Flag(AddCarry(r.A, val, r.C))
           p   == [r EXCEPT !.V = v, !.C = c]
<1>1. r.A \in Byte /\ r.C \in {0, 1}
    BY RegisterTypes
<1>2. new \in Byte
  <2>1. r.A + val + r.C \in Int
      BY <1>1 DEF Byte
  <2> QED
      BY <2>1, Modulo
<1>3. v \in {0, 1} /\ c \in {0, 1}
    BY FlagType
<1>4. new + (256 * c) = r.A + val + r.C
    BY <1>1, CarryOfSum
<1>5. v = Flag(Signed(r.A) + Signed(val) + r.C \notin -128 .. 127)
    BY <1>1, OverflowOfSum DEF Flag
<1>6. Add(r, val) = SetA(p, new)
    BY DEF Add
<1> HIDE DEF new, v, c
<1>7. p \in Registers
    BY <1>3 DEF Registers
<1>8. p.X = r.X /\ p.Y = r.Y /\ p.S = r.S /\ p.V = v /\ p.C = c
    BY DEF Registers
<1> DEFINE q == SetA(p, new)
<1> HIDE DEF p
<1>9. /\ q \in Registers
      /\ q.A = new /\ q.X = p.X /\ q.Y = p.Y /\ q.S = p.S
      /\ q.C = p.C /\ q.V = p.V
      /\ q.Z = Flag(new = 0) /\ q.N = Bit(new, 7)
    BY <1>2, <1>7, AccumulatorSet
<1> HIDE DEF q
<1>10. Add(r, val) = q
    BY <1>6 DEF q
<1> QED
    BY <1>4, <1>5, <1>8, <1>9, <1>10

(* SBC, the addition of the complement, is subtraction with a borrow.      *)
LEMMA Subtraction ==
    ASSUME NEW r \in Registers, NEW val \in Byte
    PROVE  LET q == Subtract(r, val)
           IN  /\ q \in Registers
               /\ q.A - (256 * (1 - q.C)) = r.A - val - (1 - r.C)
               /\ q.V = Flag(Signed(r.A) - Signed(val) - (1 - r.C) \notin -128 .. 127)
               /\ q.X = r.X /\ q.Y = r.Y /\ q.S = r.S
               /\ q.Z = Flag(q.A = 0) /\ q.N = Bit(q.A, 7)
<1> DEFINE w == 255 - val
           q == Add(r, w)
<1>1. w \in Byte
    BY DEF Byte
<1>2. /\ q \in Registers
      /\ q.A + (256 * q.C) = r.A + w + r.C
      /\ q.V = Flag(Signed(r.A) + Signed(w) + r.C \notin -128 .. 127)
      /\ q.X = r.X /\ q.Y = r.Y /\ q.S = r.S
      /\ q.Z = Flag(q.A = 0) /\ q.N = Bit(q.A, 7)
    BY <1>1, Addition
<1>3. r.A \in Byte /\ r.C \in {0, 1} /\ q.A \in Byte /\ q.C \in {0, 1}
    BY <1>2, RegisterTypes
<1>4. q.A - (256 * (1 - q.C)) = r.A - val - (1 - r.C)
  <2> DEFINE a == r.A
             b == q.A
             c == r.C
             d == q.C
  <2>1. a \in Byte /\ b \in Byte /\ c \in {0, 1} /\ d \in {0, 1}
      BY <1>3
  <2>2. b + (256 * d) = a + (255 - val) + c
      BY <1>2
  <2> HIDE DEF a, b, c, d
  <2>3. b - (256 * (1 - d)) = a - val - (1 - c)
      BY <2>1, <2>2 DEF Byte
  <2> QED
      BY <2>3 DEF a, b, c, d
<1>5. Signed(r.A) + Signed(w) + r.C = Signed(r.A) - Signed(val) - (1 - r.C)
  <2>1. Signed(w) = -1 - Signed(val) /\ Signed(val) \in Int
      BY DEF Signed, Byte
  <2>2. Signed(r.A) \in Int /\ r.C \in Int
      BY <1>3 DEF Signed, Byte
  <2> HIDE DEF w, q
  <2> QED
      BY <2>1, <2>2
<1> HIDE DEF q, w
<1>6. Subtract(r, val) = q
    BY DEF Subtract, q, w
<1> QED
    BY <1>2, <1>4, <1>5, <1>6

-----------------------------------------------------------------------------
(* What the instructions do to the registers.                              *)

(* Whichever of A, X and Y q has changed, its Z and N show.                *)
Shows(q, r) ==
    \A f \in {"A", "X", "Y"} : q[f] # r[f] => q.Z = Flag(q[f] = 0) /\ q.N = Bit(q[f], 7)

LEMMA ReadEffect ==
    ASSUME NEW r \in Registers, NEW val \in Byte, NEW op \in DOMAIN ReadModes
    PROVE  Effect(op, r, val) \in Registers /\ Shows(Effect(op, r, val), r)
<1> DEFINE q == Effect(op, r, val)
<1>1. r.A \in Byte /\ r.X \in Byte /\ r.Y \in Byte
    BY RegisterTypes
<1>2. CASE op = "ADC"
  <2>1. q = Add(r, val)
      BY <1>2 DEF Effect
  <2> QED
      BY <2>1, Addition DEF Shows
<1>3. CASE op = "SBC"
  <2>1. q = Subtract(r, val)
      BY <1>3 DEF Effect
  <2> QED
      BY <2>1, Subtraction DEF Shows
<1>4. CASE op \in {"AND", "ORA", "EOR", "LDA"}
  <2>1. PICK new \in Byte : q = SetA(r, new)
    <3>1. And(r.A, val) \in Byte /\ Or(r.A, val) \in Byte /\ Xor(r.A, val) \in Byte
        BY <1>1, AndType, OrType, XorType
    <3> QED
        BY <1>4, <3>1 DEF Effect
  <2> QED
      BY <2>1, AccumulatorSet DEF Shows
<1>5. CASE op = "LDX"
  <2> DEFINE p == [r EXCEPT !.X = val]
  <2>1. p \in Registers /\ p.A = r.A /\ p.X = val /\ p.Y = r.Y
      BY DEF Registers
  <2>2. q = CalcAluFlag(p, val)
      BY <1>5 DEF Effect
  <2> HIDE DEF p
  <2> QED
      BY <2>1, <2>2, AluFlags DEF Shows
<1>6. CASE op = "LDY"
  <2> DEFINE p == [r EXCEPT !.Y = val]
  <2>1. p \in Registers /\ p.A = r.A /\ p.X = r.X /\ p.Y = val
      BY DEF Registers
  <2>2. q = CalcAluFlag(p, val)
      BY <1>6 DEF Effect
  <2> HIDE DEF p
  <2> QED
      BY <2>1, <2>2, AluFlags DEF Shows
<1>7. CASE op = "LAX"
  <2> DEFINE p == [r EXCEPT !.A = val, !.X = val]
  <2>1. p \in Registers /\ p.A = val /\ p.X = val /\ p.Y = r.Y
      BY DEF Registers
  <2>2. q = CalcAluFlag(p, val)
      BY <1>7 DEF Effect
  <2> HIDE DEF p
  <2> QED
      BY <2>1, <2>2, AluFlags DEF Shows
<1>8. CASE op \in {"CMP", "CPX", "CPY"}
  <2>1. PICK with \in Byte : q = Compare(r, with, val)
      BY <1>1, <1>8 DEF Effect
  <2> QED
      BY <2>1, CompareSets DEF Shows
<1>9. CASE op = "BIT"
  <2> DEFINE z == Flag(And(val, r.A) = 0)
             v == Bit(val, 6)
             n == Bit(val, 7)
             p == [r EXCEPT !.Z = z, !.V = v, !.N = n]
  <2>1. z \in {0, 1} /\ v \in {0, 1} /\ n \in {0, 1}
      BY FlagType, ByteBits
  <2>2. q = p
      BY <1>9 DEF Effect
  <2> HIDE DEF z, v, n
  <2>3. p \in Registers /\ p.A = r.A /\ p.X = r.X /\ p.Y = r.Y
      BY <2>1 DEF Registers
  <2> QED
      BY <2>2, <2>3 DEF Shows
<1>10. CASE op = "NOP"
    BY <1>10 DEF Effect, Shows
<1> QED
    BY <1>2, <1>3, <1>4, <1>5, <1>6, <1>7, <1>8, <1>9, <1>10 DEF ReadModes

LEMMA ModifiedType ==
    ASSUME NEW val \in Byte, NEW c \in {0, 1}, NEW op \in DOMAIN ModifyModes
    PROVE  Modified(op, val, c) \in Byte /\ CarryOut(op, val, c) \in {0, 1}
<1>1. val \in Nat /\ val < 256
    BY DEF Byte
<1>2. /\ (2 * val) % 256 \in Byte /\ ((2 * val) % 256) + c \in Byte
      /\ val \div 2 \in Byte /\ (val \div 2) + (128 * c) \in Byte
      /\ (val + 1) % 256 \in Byte /\ (val - 1) % 256 \in Byte
  <2>1. ((2 * val) % 256) + c \in Byte
    <3>1. CASE val < 128
        BY <1>1, <3>1 DEF Byte
    <3>2. CASE val >= 128
      <4>1. (2 * val) % 256 = (2 * val) - 256
          BY <1>1, <3>2
      <4> QED
          BY <1>1, <3>2, <4>1 DEF Byte
    <3> QED
        BY <1>1, <3>1, <3>2
  <2>2. (val \div 2) + (128 * c) \in Byte
      BY <1>1 DEF Byte
  <2> QED
      BY <1>1, <2>1, <2>2, Modulo DEF Byte
<1>3. Bit(val, 7) \in {0, 1} /\ val % 2 \in {0, 1}
    BY <1>1, ByteBits
<1> QED
    BY <1>2, <1>3 DEF Modified, CarryOut, ModifyModes, Combined

LEMMA ModifyEffect ==
    ASSUME NEW r \in Registers, NEW new \in Byte, NEW op \in DOMAIN ModifyModes
    PROVE  LET q == AfterModify(op, r, new)
           IN  /\ q \in Registers
               /\ op \in Combined => Shows(q, r)
               /\ op \notin Combined => q = CalcAluFlag(r, new)
<1> DEFINE q == AfterModify(op, r, new)
<1>1. r.A \in Byte
    BY RegisterTypes
<1>2. CASE op \in {"SLO", "RLA", "SRE"}
  <2>1. PICK b \in Byte : q = SetA(r, b)
    <3>1. And(r.A, new) \in Byte /\ Or(r.A, new) \in Byte /\ Xor(r.A, new) \in Byte
        BY <1>1, AndType, OrType, XorType
    <3> QED
        BY <1>2, <3>1 DEF AfterModify
  <2> QED
      BY <1>2, <2>1, AccumulatorSet DEF Shows, Combined
<1>3. CASE op = "RRA"
  <2>1. q = Add(r, new)
      BY <1>3 DEF AfterModify
  <2> QED
      BY <1>3, <2>1, Addition DEF Shows, Combined
<1>4. CASE op = "DCP"
  <2>1. q = Compare(r, r.A, new)
      BY <1>4 DEF AfterModify
  <2> QED
      BY <1>1, <1>4, <2>1, CompareSets DEF Shows, Combined
<1>5. CASE op = "ISC"
  <2>1. q = Subtract(r, new)
      BY <1>5 DEF AfterModify
  <2> QED
      BY <1>5, <2>1, Subtraction DEF Shows, Combined
<1>6. CASE op \notin Combined
  <2>1. q = CalcAluFlag(r, new)
      BY <1>6 DEF AfterModify, Combined
  <2> QED
      BY <1>6, <2>1, AluFlags
<1> QED
    BY <1>2, <1>3, <1>4, <1>5, <1>6 DEF Combined

(* What INX and DEX make of X.                                             *)
Increased(n) == (n + 1) % 256
Decreased(n) == (n + 255) % 256

LEMMA Counting ==
    ASSUME NEW r
    PROVE  /\ ImpliedEffect("INX", r) = CalcAluFlag([r EXCEPT !.X = Increased(r.X)], Increased(r.X))
           /\ ImpliedEffect("DEX", r) = CalcAluFlag([r EXCEPT !.X = Decreased(r.X)], Decreased(r.X))
           /\ ImpliedEffect("INY", r) = CalcAluFlag([r EXCEPT !.Y = Increased(r.Y)], Increased(r.Y))
           /\ ImpliedEffect("DEY", r) = CalcAluFlag([r EXCEPT !.Y = Decreased(r.Y)], Decreased(r.Y))
<1>1. ImpliedEffect("INX", r) = CalcAluFlag([r EXCEPT !.X = Increased(r.X)], Increased(r.X))
    BY DEF ImpliedEffect, Increased, Decreased
<1>2. ImpliedEffect("DEX", r) = CalcAluFlag([r EXCEPT !.X = Decreased(r.X)], Decreased(r.X))
    BY DEF ImpliedEffect, Increased, Decreased
<1>3. ImpliedEffect("INY", r) = CalcAluFlag([r EXCEPT !.Y = Increased(r.Y)], Increased(r.Y))
    BY DEF ImpliedEffect, Increased, Decreased
<1>4. ImpliedEffect("DEY", r) = CalcAluFlag([r EXCEPT !.Y = Decreased(r.Y)], Decreased(r.Y))
    BY DEF ImpliedEffect, Increased, Decreased
<1> QED
    BY <1>1, <1>2, <1>3, <1>4

LEMMA Copying ==
    ASSUME NEW r
    PROVE  /\ ImpliedEffect("TAX", r) = CalcAluFlag([r EXCEPT !.X = r.A], r.A)
           /\ ImpliedEffect("TSX", r) = CalcAluFlag([r EXCEPT !.X = r.S], r.S)
           /\ ImpliedEffect("TAY", r) = CalcAluFlag([r EXCEPT !.Y = r.A], r.A)
           /\ ImpliedEffect("TXA", r) = CalcAluFlag([r EXCEPT !.A = r.X], r.X)
           /\ ImpliedEffect("TYA", r) = CalcAluFlag([r EXCEPT !.A = r.Y], r.Y)
<1>1. /\ ImpliedEffect("TAX", r) = CalcAluFlag([r EXCEPT !.X = r.A], r.A)
      /\ ImpliedEffect("TSX", r) = CalcAluFlag([r EXCEPT !.X = r.S], r.S)
    BY DEF ImpliedEffect
<1>2. ImpliedEffect("TAY", r) = CalcAluFlag([r EXCEPT !.Y = r.A], r.A)
    BY DEF ImpliedEffect
<1>3. /\ ImpliedEffect("TXA", r) = CalcAluFlag([r EXCEPT !.A = r.X], r.X)
      /\ ImpliedEffect("TYA", r) = CalcAluFlag([r EXCEPT !.A = r.Y], r.Y)
    BY DEF ImpliedEffect
<1> QED
    BY <1>1, <1>2, <1>3

LEMMA Flagging ==
    ASSUME NEW r
    PROVE  /\ ImpliedEffect("SEC", r) = [r EXCEPT !.C = 1]
           /\ ImpliedEffect("CLC", r) = [r EXCEPT !.C = 0]
           /\ ImpliedEffect("SED", r) = [r EXCEPT !.D = 1]
           /\ ImpliedEffect("CLD", r) = [r EXCEPT !.D = 0]
           /\ ImpliedEffect("SEI", r) = [r EXCEPT !.I = 1]
           /\ ImpliedEffect("CLI", r) = [r EXCEPT !.I = 0]
           /\ ImpliedEffect("CLV", r) = [r EXCEPT !.V = 0]
           /\ ImpliedEffect("NOP", r) = r
           /\ ImpliedEffect("TXS", r) = [r EXCEPT !.S = r.X]
<1>1. /\ ImpliedEffect("SEC", r) = [r EXCEPT !.C = 1]
      /\ ImpliedEffect("CLC", r) = [r EXCEPT !.C = 0]
      /\ ImpliedEffect("SED", r) = [r EXCEPT !.D = 1]
    BY DEF ImpliedEffect
<1>2. /\ ImpliedEffect("CLD", r) = [r EXCEPT !.D = 0]
      /\ ImpliedEffect("SEI", r) = [r EXCEPT !.I = 1]
      /\ ImpliedEffect("CLI", r) = [r EXCEPT !.I = 0]
    BY DEF ImpliedEffect
<1>3. /\ ImpliedEffect("CLV", r) = [r EXCEPT !.V = 0]
      /\ ImpliedEffect("NOP", r) = r
      /\ ImpliedEffect("TXS", r) = [r EXCEPT !.S = r.X]
    BY DEF ImpliedEffect
<1> QED
    BY <1>1, <1>2, <1>3

LEMMA ImpliedType ==
    ASSUME NEW r \in Registers, NEW op \in Implied
    PROVE  ImpliedEffect(op, r) \in Registers
           /\ (op # "TXS" => Shows(ImpliedEffect(op, r), r))
           /\ (op = "TXS" => ImpliedEffect(op, r) = [r EXCEPT !.S = r.X])
<1> DEFINE q == ImpliedEffect(op, r)
<1>1. r.A \in Byte /\ r.X \in Byte /\ r.Y \in Byte /\ r.S \in Byte
    BY RegisterTypes
<1>2. ASSUME NEW p \in Registers, NEW b \in Byte, q = CalcAluFlag(p, b),
             \/ p.A = b /\ p.X = r.X /\ p.Y = r.Y
             \/ p.A = r.A /\ p.X = b /\ p.Y = r.Y
             \/ p.A = r.A /\ p.X = r.X /\ p.Y = b
      PROVE  q \in Registers /\ Shows(q, r)
  <2> DEFINE c == CalcAluFlag(p, b)
  <2>1. c \in Registers /\ c.A = p.A /\ c.X = p.X /\ c.Y = p.Y
        /\ c.Z = Flag(b = 0) /\ c.N = Bit(b, 7)
      BY AluFlags
  <2> HIDE DEF c, q
  <2>2. q = c
      BY <1>2 DEF c
  <2> QED
      BY <1>2, <2>1, <2>2 DEF Shows
<1>3. ASSUME NEW b \in Byte
      PROVE  /\ [r EXCEPT !.A = b] \in Registers /\ [r EXCEPT !.X = b] \in Registers
             /\ [r EXCEPT !.Y = b] \in Registers
             /\ [r EXCEPT !.A = b].A = b /\ [r EXCEPT !.A = b].X = r.X
             /\ [r EXCEPT !.A = b].Y = r.Y
             /\ [r EXCEPT !.X = b].A = r.A /\ [r EXCEPT !.X = b].X = b
             /\ [r EXCEPT !.X = b].Y = r.Y
             /\ [r EXCEPT !.Y = b].A = r.A /\ [r EXCEPT !.Y = b].X = r.X
             /\ [r EXCEPT !.Y = b].Y = b
    BY <1>3 DEF Registers
<1>4. CASE op \in {"INX", "DEX"}
  <2> DEFINE up   == Increased(r.X)
             down == Decreased(r.X)
  <2>1. up \in Byte /\ down \in Byte
      BY <1>1, Modulo DEF Byte, Increased, Decreased
  <2>2. q = CalcAluFlag([r EXCEPT !.X = up], up) \/ q = CalcAluFlag([r EXCEPT !.X = down], down)
    <3>1. CASE op = "INX"
        BY <3>1, Counting, Zenon
    <3>2. CASE op = "DEX"
        BY <3>2, Counting, Zenon
    <3> QED
        BY <1>4, <3>1, <3>2, Zenon
  <2> HIDE DEF q, up, down
  <2>3. PICK b \in Byte : q = CalcAluFlag([r EXCEPT !.X = b], b)
      BY <2>1, <2>2
  <2> QED
      BY <1>2, <1>3, <1>4, <2>3 DEF q
<1>5. CASE op \in {"INY", "DEY"}
  <2> DEFINE up   == Increased(r.Y)
             down == Decreased(r.Y)
  <2>1. up \in Byte /\ down \in Byte
      BY <1>1, Modulo DEF Byte, Increased, Decreased
  <2>2. q = CalcAluFlag([r EXCEPT !.Y = up], up) \/ q = CalcAluFlag([r EXCEPT !.Y = down], down)
    <3>1. CASE op = "INY"
        BY <3>1, Counting, Zenon
    <3>2. CASE op = "DEY"
        BY <3>2, Counting, Zenon
    <3> QED
        BY <1>5, <3>1, <3>2, Zenon
  <2> HIDE DEF q, up, down
  <2>3. PICK b \in Byte : q = CalcAluFlag([r EXCEPT !.Y = b], b)
      BY <2>1, <2>2
  <2> QED
      BY <1>2, <1>3, <1>5, <2>3 DEF q
<1>6. CASE op \in {"TAX", "TSX", "TAY", "TXA", "TYA"}
  <2>1. \/ q = CalcAluFlag([r EXCEPT !.X = r.A], r.A) \/ q = CalcAluFlag([r EXCEPT !.X = r.S], r.S)
        \/ q = CalcAluFlag([r EXCEPT !.Y = r.A], r.A)
        \/ q = CalcAluFlag([r EXCEPT !.A = r.X], r.X) \/ q = CalcAluFlag([r EXCEPT !.A = r.Y], r.Y)
      BY <1>6, Copying
  <2> HIDE DEF q
  <2>2. PICK b \in Byte : \/ q = CalcAluFlag([r EXCEPT !.X = b], b)
                          \/ q = CalcAluFlag([r EXCEPT !.Y = b], b)
                          \/ q = CalcAluFlag([r EXCEPT !.A = b], b)
      BY <1>1, <2>1
  <2> QED
      BY <1>2, <1>3, <1>6, <2>2 DEF q
<1>7. CASE op = "TXS"
  <2>1. q = [r EXCEPT !.S = r.X]
      BY <1>7, Flagging
  <2> QED
      BY <1>1, <1>7, <2>1, FieldTypes
<1>8. CASE op \in {"SEC", "CLC", "SED", "CLD", "SEI", "CLI", "CLV", "NOP"}
  <2>1. /\ op = "SEC" => q = [r EXCEPT !.C = 1]
        /\ op = "CLC" => q = [r EXCEPT !.C = 0]
        /\ op = "SED" => q = [r EXCEPT !.D = 1]
        /\ op = "CLD" => q = [r EXCEPT !.D = 0]
        /\ op = "SEI" => q = [r EXCEPT !.I = 1]
        /\ op = "CLI" => q = [r EXCEPT !.I = 0]
        /\ op = "CLV" => q = [r EXCEPT !.V = 0]
        /\ op = "NOP" => q = r
      BY Flagging
  <2> HIDE DEF q
  <2>2. q \in Registers /\ q.A = r.A /\ q.X = r.X /\ q.Y = r.Y
      BY <1>8, <2>1 DEF Registers
  <2> QED
      BY <1>8, <2>2 DEF Shows, q
<1> QED
    BY <1>4, <1>5, <1>6, <1>7, <1>8 DEF Implied

LEMMA StatusType ==
    ASSUME NEW r \in Registers
    PROVE  Status(r) \in Byte
<1>1. /\ r.C \in {0, 1} /\ r.Z \in {0, 1} /\ r.I \in {0, 1} /\ r.D \in {0, 1}
      /\ r.B \in {0, 1} /\ r.U \in {0, 1} /\ r.V \in {0, 1} /\ r.N \in {0, 1}
    BY RegisterTypes
<1> QED
    BY <1>1 DEF Status, Byte

LEMMA SetStatusType ==
    ASSUME NEW r \in Registers, NEW b \in Byte
    PROVE  LET q == SetStatus(r, b)
           IN  q \in Registers /\ q.A = r.A /\ q.X = r.X /\ q.Y = r.Y
<1> DEFINE q == SetStatus(r, b)
           c == Bit(b, 0)
           z == Bit(b, 1)
           i == Bit(b, 2)
           d == Bit(b, 3)
           v == Bit(b, 6)
           n == Bit(b, 7)
<1>1. /\ c \in {0, 1} /\ z \in {0, 1} /\ i \in {0, 1}
      /\ d \in {0, 1} /\ v \in {0, 1} /\ n \in {0, 1}
    BY ByteBits
<1>2. q = [r EXCEPT !.C = c, !.Z = z, !.I = i, !.D = d, !.U = 1, !.V = v, !.N = n]
    BY DEF SetStatus
<1> HIDE DEF q, c, z, i, d, v, n
<1> DEFINE r1 == [r EXCEPT !.C = c]
           r2 == [r1 EXCEPT !.Z = z]
           r3 == [r2 EXCEPT !.I = i]
           r4 == [r3 EXCEPT !.D = d]
           r5 == [r4 EXCEPT !.U = 1]
           r6 == [r5 EXCEPT !.V = v]
           r7 == [r6 EXCEPT !.N = n]
<1>3. q = r7
    BY <1>2
<1> HIDE DEF r1, r2, r3, r4, r5, r6, r7
<1>4. r1 \in Registers /\ r1.A = r.A /\ r1.X = r.X /\ r1.Y = r.Y
    BY <1>1 DEF r1, Registers
<1>5. r2 \in Registers /\ r2.A = r.A /\ r2.X = r.X /\ r2.Y = r.Y
    BY <1>1, <1>4 DEF r2, Registers
<1>6. r3 \in Registers /\ r3.A = r.A /\ r3.X = r.X /\ r3.Y = r.Y
    BY <1>1, <1>5 DEF r3, Registers
<1>7. r4 \in Registers /\ r4.A = r.A /\ r4.X = r.X /\ r4.Y = r.Y
    BY <1>1, <1>6 DEF r4, Registers
<1>8. r5 \in Registers /\ r5.A = r.A /\ r5.X = r.X /\ r5.Y = r.Y
    BY <1>1, <1>7 DEF r5, Registers
<1>9. r6 \in Registers /\ r6.A = r.A /\ r6.X = r.X /\ r6.Y = r.Y
    BY <1>1, <1>8 DEF r6, Registers
<1>10. r7 \in Registers /\ r7.A = r.A /\ r7.X = r.X /\ r7.Y = r.Y
    BY <1>1, <1>9 DEF r7, Registers
<1> QED
    BY <1>3, <1>10 DEF q

LEMMA StackPointer == ASSUME NEW s \in Byte PROVE Down(s) \in Byte /\ Up(s) \in Byte
BY Modulo DEF Down, Up, Byte

-----------------------------------------------------------------------------
(* Type correctness. *)

LEMMA WordType ==
    ASSUME NEW lo \in Byte, NEW hi \in Byte
    PROVE  Word(lo, hi) \in Nat /\ Word(lo, hi) < 65536
<1>1. lo \in Nat /\ lo < 256 /\ hi \in Nat /\ hi < 256
    BY DEF Byte
<1> QED
    BY <1>1 DEF Word

LEMMA PageType ==
    ASSUME NEW w \in Nat, w < 65536
    PROVE  Page(w) \in Byte /\ w % 256 \in Byte
<1>1. Page(w) \in Nat /\ Page(w) < 256
    BY DEF Page
<1> QED
    BY <1>1, Modulo DEF Byte

LEMMA MemoryType ==
    ASSUME NEW m \in [Cells -> Byte], NEW a, NEW b \in Byte
    PROVE  [m EXCEPT ![a] = b] \in [Cells -> Byte]
OBVIOUS

LEMMA PushTypes ==
    ASSUME NEW m \in [Cells -> Byte], NEW s \in Byte, NEW b \in Byte,
           NEW w \in Nat, w < 65536
    PROVE  PushByte(m, s, b) \in [Cells -> Byte] /\ PushWord(m, s, w) \in [Cells -> Byte]
<1>1. Page(w) \in Byte /\ w % 256 \in Byte
    BY PageType
<1>2. PushByte(m, s, b) \in [Cells -> Byte] /\ PushByte(m, s, Page(w)) \in [Cells -> Byte]
    BY <1>1, MemoryType DEF PushByte
<1> QED
    BY <1>1, <1>2, MemoryType DEF PushByte, PushWord

LEMMA PcType == ASSUME NEW n \in Int PROVE n % 65536 \in Nat /\ n % 65536 < 65536
OBVIOUS

LEMMA LengthType == ASSUME NEW mode PROVE Length(mode) \in {1, 2, 3}
BY Zenon DEF Length

(* BOUND Known keeps an operand on Cells, so it is a byte.                 *)
LEMMA OperandType ==
    ASSUME TypeOK, NEW mode \in AluModes \cup {"zp_ind_y", "acc"}, NEW lo \in Byte, NEW hi \in Byte,
           Known(mode, lo, hi)
    PROVE  ReadOperand(mode, lo, hi) \in Byte
<1>1. reg.A \in Byte
    BY RegisterTypes DEF TypeOK
<1>2. CASE mode = "imm"
    BY <1>2 DEF ReadOperand
<1>3. CASE mode = "acc"
    BY <1>1, <1>3 DEF ReadOperand
<1>4. CASE mode \notin {"imm", "acc"}
  <2>1. Address(mode, lo, hi) \in Cells
      BY <1>4 DEF Known
  <2>2. ReadOperand(mode, lo, hi) = mem[Address(mode, lo, hi)]
      BY <1>4 DEF ReadOperand
  <2> QED
      BY <2>1, <2>2 DEF TypeOK
<1> QED
    BY <1>2, <1>3, <1>4

LEMMA SecondUp == ASSUME NEW s \in Byte
                  PROVE  Up(s) = (s + 1) % 256 /\ Up(Up(s)) = (s + 2) % 256
                         /\ Up(Up(Up(s))) = (s + 3) % 256
<1>1. s \in Nat /\ s < 256
    BY DEF Byte
<1>2. (((s + 1) % 256) + 1) % 256 = (s + 2) % 256
    BY <1>1
<1>3. (((s + 2) % 256) + 1) % 256 = (s + 3) % 256
    BY <1>1
<1> QED
    BY <1>2, <1>3 DEF Up

(* BOUND Holds keeps what is popped on Cells.                              *)
LEMMA PopTypes ==
    ASSUME TypeOK
    PROVE  /\ Holds(1) => PopByte(reg.S) \in Byte
           /\ Holds(2) => PopWord(reg.S) \in Nat /\ PopWord(reg.S) < 65536
           /\ Holds(3) => /\ PopByte(reg.S) \in Byte
                          /\ PopWord(Up(reg.S)) \in Nat /\ PopWord(Up(reg.S)) < 65536
<1> DEFINE s == reg.S
<1>1. s \in Byte
    BY RegisterTypes DEF TypeOK
<1>2. Up(s) = (s + 1) % 256 /\ Up(Up(s)) = (s + 2) % 256 /\ Up(Up(Up(s))) = (s + 3) % 256
    BY <1>1, SecondUp
<1>3. Holds(1) => 256 + Up(s) \in Cells
    BY <1>2 DEF Holds
<1>4. Holds(2) => 256 + Up(s) \in Cells /\ 256 + Up(Up(s)) \in Cells
    BY <1>2 DEF Holds
<1>5. Holds(3) => 256 + Up(s) \in Cells /\ 256 + Up(Up(s)) \in Cells /\ 256 + Up(Up(Up(s))) \in Cells
    BY <1>2 DEF Holds
<1>6. \A t : 256 + Up(t) \in Cells => PopByte(t) \in Byte
    BY DEF PopByte, TypeOK
<1>7. \A t : 256 + Up(t) \in Cells /\ 256 + Up(Up(t)) \in Cells
             => PopWord(t) \in Nat /\ PopWord(t) < 65536
    BY <1>6, WordType DEF PopWord
<1> QED
    BY <1>3, <1>4, <1>5, <1>6, <1>7

LEMMA InitTypes == Init => TypeOK
<1> SUFFICES ASSUME Init PROVE TypeOK
    OBVIOUS
<1>1. reg \in Registers
  <2>1. /\ Accs \subseteq Byte /\ Indexes \subseteq Byte /\ Stacks \subseteq Byte
      BY CpuAssumption
  <2>2. reg \in [A : Accs, X : Indexes, Y : Indexes, S : Stacks, C : {0, 1}, Z : {0}, I : {1},
                 D : {0}, B : {0}, U : {1}, V : {0}, N : {0}]
      BY DEF Init
  <2> QED
      BY <2>1, <2>2 DEF Registers
<1>2. pc \in Nat /\ pc < 65536 /\ mem \in [Cells -> Byte]
    BY CpuAssumption DEF Init
<1>3. stop \in BOOLEAN /\ armed \in BOOLEAN /\ group \in {"data", "flow"}
    BY DEF Init
<1>4. steps \in 0 .. 1 + FlowSteps
    BY CpuAssumption DEF Init
<1> QED
    BY <1>1, <1>2, <1>3, <1>4 DEF TypeOK

LEMMA StepsDown ==
    ASSUME TypeOK, steps > 0, steps' = steps - 1
    PROVE  steps' \in 0 .. 1 + FlowSteps
BY CpuAssumption DEF TypeOK

LEMMA RunsTypes ==
    ASSUME TypeOK, NEW g, NEW n \in {1, 2, 3}, Runs(g, n)
    PROVE  pc' \in Nat /\ pc' < 65536 /\ steps' \in 0 .. 1 + FlowSteps
<1>1. pc + n \in Int
    BY DEF TypeOK
<1>2. pc' = (pc + n) % 65536 /\ steps > 0 /\ steps' = steps - 1
    BY DEF Runs
<1> QED
    BY <1>1, <1>2, PcType, StepsDown

(* The modes an instruction has.                                           *)
LEMMA Modes ==
    /\ \A op \in DOMAIN ReadModes : ReadModes[op] \subseteq AluModes \cup {"zp_ind_y"}
    /\ \A op \in DOMAIN StoreModes : StoreModes[op] \subseteq (AluModes \ {"imm"}) \cup {"zp_ind_y"}
    /\ \A op \in DOMAIN ModifyModes :
          /\ ModifyModes[op] \subseteq (AluModes \ {"imm"}) \cup {"acc"}
          /\ op \in Combined => "acc" \notin ModifyModes[op]
<1>1. \A op \in DOMAIN ReadModes : ReadModes[op] \subseteq AluModes \cup {"zp_ind_y"}
    BY DEF ReadModes, AluModes
<1>2. \A op \in DOMAIN StoreModes : StoreModes[op] \subseteq (AluModes \ {"imm"}) \cup {"zp_ind_y"}
    BY DEF StoreModes, AluModes
<1>3. \A op \in DOMAIN ModifyModes :
          /\ ModifyModes[op] \subseteq (AluModes \ {"imm"}) \cup {"acc"}
          /\ op \in Combined => "acc" \notin ModifyModes[op]
    BY DEF ModifyModes, AluModes, Combined
<1> QED
    BY <1>1, <1>2, <1>3

LEMMA ReadTypes ==
    ASSUME TypeOK, NEW op \in DOMAIN ReadModes, NEW mode \in ReadModes[op],
           NEW lo \in Byte, NEW hi \in Byte, Read(op, mode, lo, hi)
    PROVE  TypeOK'
<1>1. mode \in AluModes \cup {"zp_ind_y"}
    BY Modes
<1>2. ReadOperand(mode, lo, hi) \in Byte
    BY <1>1, OperandType DEF Read
<1>3. reg' = Effect(op, reg, ReadOperand(mode, lo, hi))
    BY DEF Read
<1>4. reg' \in Registers
    BY <1>2, <1>3, ReadEffect DEF TypeOK
<1>5. pc' \in Nat /\ pc' < 65536 /\ steps' \in 0 .. 1 + FlowSteps
    BY LengthType, RunsTypes DEF Read
<1>6. mem' = mem /\ stop' = stop /\ armed' = armed /\ group' = group
    BY DEF Read
<1> QED
    BY <1>4, <1>5, <1>6 DEF TypeOK

LEMMA RegisterByte ==
    ASSUME TypeOK, NEW op \in DOMAIN StoreModes
    PROVE  Register(op) \in Byte
<1>1. reg.A \in Byte /\ reg.X \in Byte /\ reg.Y \in Byte
    BY RegisterTypes DEF TypeOK
<1>2. And(reg.A, reg.X) \in Byte
    BY <1>1, AndType
<1> QED
    BY <1>1, <1>2 DEF Register, StoreModes

LEMMA StoreTypes ==
    ASSUME TypeOK, NEW op \in DOMAIN StoreModes, NEW mode \in StoreModes[op],
           NEW lo \in Byte, NEW hi \in Byte, Store(op, mode, lo, hi)
    PROVE  TypeOK'
<1>1. mem' \in [Cells -> Byte]
  <2>1. mem' = [mem EXCEPT ![Address(mode, lo, hi)] = Register(op)]
      BY DEF Store
  <2> QED
      BY <2>1, RegisterByte, MemoryType DEF TypeOK
<1>2. pc' \in Nat /\ pc' < 65536 /\ steps' \in 0 .. 1 + FlowSteps
    BY LengthType, RunsTypes DEF Store
<1>3. reg' = reg /\ stop' = stop /\ armed' = armed /\ group' = group
    BY DEF Store
<1> QED
    BY <1>1, <1>2, <1>3 DEF TypeOK

(* The registers a read-modify-write instruction starts its second half    *)
(* with.                                                                   *)
Halfway(op, mode, val) ==
    [reg EXCEPT !.C = CarryOut(op, val, reg.C),
                !.A = IF mode = "acc" THEN Modified(op, val, reg.C) ELSE @]

LEMMA HalfwayType ==
    ASSUME TypeOK, NEW op \in DOMAIN ModifyModes, NEW mode, NEW val \in Byte
    PROVE  LET r == Halfway(op, mode, val)
           IN  /\ r \in Registers
               /\ r.C = CarryOut(op, val, reg.C) /\ r.X = reg.X /\ r.Y = reg.Y
               /\ r.A = IF mode = "acc" THEN Modified(op, val, reg.C) ELSE reg.A
<1> DEFINE c == CarryOut(op, val, reg.C)
           a == IF mode = "acc" THEN Modified(op, val, reg.C) ELSE reg.A
           r == [reg EXCEPT !.C = c, !.A = a]
<1>1. reg \in Registers /\ reg.A \in Byte /\ reg.C \in {0, 1}
    BY RegisterTypes DEF TypeOK
<1>2. c \in {0, 1} /\ a \in Byte
    BY <1>1, ModifiedType
<1>3. Halfway(op, mode, val) = r
    BY DEF Halfway
<1> HIDE DEF a, c
<1>4. r \in Registers /\ r.C = c /\ r.X = reg.X /\ r.Y = reg.Y /\ r.A = a
    BY <1>1, <1>2 DEF Registers
<1> QED
    BY <1>3, <1>4 DEF a, c

LEMMA ModifyTypes ==
    ASSUME TypeOK, NEW op \in DOMAIN ModifyModes, NEW mode \in ModifyModes[op],
           NEW lo \in Byte, NEW hi \in Byte, Modify(op, mode, lo, hi)
    PROVE  TypeOK'
<1> DEFINE val == ReadOperand(mode, lo, hi)
           new == Modified(op, val, reg.C)
<1>1. mode \in AluModes \cup {"zp_ind_y", "acc"}
    BY Modes
<1>2. val \in Byte
    BY <1>1, OperandType DEF Modify
<1>3. new \in Byte
    BY <1>2, ModifiedType, RegisterTypes DEF TypeOK
<1>4. reg' = AfterModify(op, Halfway(op, mode, val), new)
    BY DEF Modify, Halfway
<1>5. mem' = IF mode = "acc" THEN mem ELSE [mem EXCEPT ![Address(mode, lo, hi)] = new]
    BY DEF Modify
<1> HIDE DEF new, val
<1>6. reg' \in Registers
    BY <1>2, <1>3, <1>4, HalfwayType, ModifyEffect
<1>7. mem' \in [Cells -> Byte]
    BY <1>3, <1>5, MemoryType DEF TypeOK
<1>8. pc' \in Nat /\ pc' < 65536 /\ steps' \in 0 .. 1 + FlowSteps
    BY LengthType, RunsTypes DEF Modify
<1>9. stop' = stop /\ armed' = armed /\ group' = group
    BY DEF Modify
<1> QED
    BY <1>6, <1>7, <1>8, <1>9 DEF TypeOK

LEMMA NoOperandTypes ==
    ASSUME TypeOK, NEW op \in Implied, NoOperand(op)
    PROVE  TypeOK'
<1>1. reg' \in Registers
    BY ImpliedType DEF NoOperand, TypeOK
<1>2. Runs("data", 1) \/ Runs("flow", 1)
    BY DEF NoOperand
<1>3. pc' \in Nat /\ pc' < 65536 /\ steps' \in 0 .. 1 + FlowSteps
    BY <1>2, RunsTypes
<1>4. mem' = mem /\ stop' = stop /\ armed' = armed /\ group' = group
    BY DEF NoOperand
<1> QED
    BY <1>1, <1>3, <1>4 DEF TypeOK

LEMMA FlowsTypes ==
    ASSUME TypeOK, NEW op, NEW cycles, NEW logged, FlowsTo(op, cycles, logged)
    PROVE  steps' \in 0 .. 1 + FlowSteps /\ group' = group
BY StepsDown DEF FlowsTo

LEMMA BranchTypes ==
    ASSUME TypeOK, NEW op \in Branches, NEW lo \in Byte, Branch(op, lo)
    PROVE  TypeOK'
<1> DEFINE offset == IF Taken(op) THEN Signed(lo) ELSE 0
           loops  == Taken(op) /\ Signed(lo) = -2 /\ armed
<1>1. offset \in Int
    BY DEF Signed, Byte
<1>2. pc' = (pc + 2 + offset) % 65536 /\ stop' = loops /\ armed' = (armed /\ ~loops)
      /\ reg' = reg /\ mem' = mem
    BY DEF Branch
<1>3. steps' \in 0 .. 1 + FlowSteps /\ group' = group
    BY FlowsTypes DEF Branch
<1>4. loops \in BOOLEAN
    BY DEF TypeOK
<1> HIDE DEF offset, loops
<1>5. pc' \in Nat /\ pc' < 65536
  <2>1. pc + 2 + offset \in Int
      BY <1>1 DEF TypeOK
  <2> QED
      BY <1>2, <2>1, PcType
<1>6. stop' \in BOOLEAN /\ armed' \in BOOLEAN
    BY <1>2, <1>4 DEF TypeOK
<1> QED
    BY <1>2, <1>3, <1>5, <1>6 DEF TypeOK

LEMMA NextByte ==
    ASSUME NEW w \in Nat, w < 65536
    PROVE  NextInPage(w) = IF w % 256 = 255 THEN 256 * Page(w) ELSE (w + 1) % 65536
<1>1. w = (256 * (w \div 256)) + (w % 256) /\ w \div 256 \in Nat /\ w % 256 \in 0 .. 255
    OBVIOUS
<1>2. (w + 1) % 256 = IF w % 256 = 255 THEN 0 ELSE (w % 256) + 1
    BY <1>1
<1>3. w % 256 # 255 => (w + 1) % 65536 = w + 1
    BY <1>1
<1> QED
    BY <1>1, <1>2, <1>3 DEF NextInPage, Page

LEMMA JmpTypes ==
    ASSUME TypeOK, NEW mode \in {"abs_jmp", "ind_jmp"}, NEW w \in Nat, w < 65536, JMP(mode, w)
    PROVE  TypeOK'
<1>1. JmpTarget(mode, w) \in Nat /\ JmpTarget(mode, w) < 65536
  <2>1. CASE mode = "abs_jmp"
      BY <2>1 DEF JmpTarget
  <2>2. CASE mode = "ind_jmp"
    <3>1. mem[w] \in Byte /\ mem[NextInPage(w)] \in Byte
        BY <2>2 DEF JMP, TypeOK
    <3>2. JmpTarget(mode, w) = Word(mem[w], mem[NextInPage(w)])
        BY <2>2, NextByte DEF JmpTarget
    <3> QED
        BY <3>1, <3>2, WordType
  <2> QED
      BY <2>1, <2>2
<1>2. pc' = JmpTarget(mode, w) /\ reg' = reg /\ mem' = mem /\ armed' = armed
    BY DEF JMP
<1>3. stop' \in BOOLEAN
    BY DEF JMP, TypeOK
<1>4. steps' \in 0 .. 1 + FlowSteps /\ group' = group
    BY FlowsTypes DEF JMP
<1> QED
    BY <1>1, <1>2, <1>3, <1>4 DEF TypeOK

LEMMA StackTypes ==
    ASSUME TypeOK
    PROVE  /\ [reg EXCEPT !.S = Down(@)] \in Registers
           /\ [reg EXCEPT !.S = Down(Down(@))] \in Registers
           /\ [reg EXCEPT !.S = Down(Down(Down(@)))] \in Registers
           /\ [reg EXCEPT !.S = Up(@)] \in Registers
           /\ [reg EXCEPT !.S = Up(Up(@))] \in Registers
           /\ [reg EXCEPT !.S = Up(Up(Up(@)))] \in Registers
<1>1. reg \in Registers /\ reg.S \in Byte
    BY RegisterTypes DEF TypeOK
<1>2. /\ Down(reg.S) \in Byte /\ Down(Down(reg.S)) \in Byte /\ Down(Down(Down(reg.S))) \in Byte
      /\ Up(reg.S) \in Byte /\ Up(Up(reg.S)) \in Byte /\ Up(Up(Up(reg.S))) \in Byte
    BY <1>1, StackPointer
<1> QED
    BY <1>1, <1>2, FieldTypes

LEMMA JsrTypes ==
    ASSUME TypeOK, NEW w \in Nat, w < 65536, JSR(w)
    PROVE  TypeOK'
<1>1. ReturnAddress \in Nat /\ ReturnAddress < 65536
    BY PcType DEF ReturnAddress, TypeOK
<1>2. mem' \in [Cells -> Byte]
  <2>1. mem' = PushWord(mem, reg.S, ReturnAddress)
      BY DEF JSR
  <2>2. 0 \in Byte
      BY DEF Byte
  <2> QED
      BY <1>1, <2>1, <2>2, PushTypes, RegisterTypes DEF TypeOK
<1>3. reg' \in Registers
    BY StackTypes DEF JSR
<1>4. pc' = w /\ stop' = stop /\ armed' = armed
    BY DEF JSR
<1>5. steps' \in 0 .. 1 + FlowSteps /\ group' = group
    BY FlowsTypes DEF JSR
<1> QED
    BY <1>2, <1>3, <1>4, <1>5 DEF TypeOK

LEMMA RtsTypes == ASSUME TypeOK, RTS PROVE TypeOK'
<1>1. pc' \in Nat /\ pc' < 65536
  <2>1. PopWord(reg.S) + 1 \in Int
      BY PopTypes DEF RTS
  <2> QED
      BY <2>1, PcType DEF RTS
<1>2. reg' \in Registers /\ mem' = mem /\ stop' = stop /\ armed' = armed
    BY StackTypes DEF RTS
<1>3. steps' \in 0 .. 1 + FlowSteps /\ group' = group
    BY FlowsTypes DEF RTS, Flows
<1> QED
    BY <1>1, <1>2, <1>3 DEF TypeOK

LEMMA RtiTypes == ASSUME TypeOK, RTI PROVE TypeOK'
<1>1. pc' \in Nat /\ pc' < 65536 /\ PopByte(reg.S) \in Byte
    BY PopTypes DEF RTI
<1>2. reg' \in Registers
    BY <1>1, StackTypes, SetStatusType DEF RTI
<1>3. mem' = mem /\ stop' = stop /\ armed' = armed
    BY DEF RTI
<1>4. steps' \in 0 .. 1 + FlowSteps /\ group' = group
    BY FlowsTypes DEF RTI, Flows
<1> QED
    BY <1>1, <1>2, <1>3, <1>4 DEF TypeOK

LEMMA NextPc == ASSUME TypeOK PROVE (pc + 1) % 65536 \in Nat /\ (pc + 1) % 65536 < 65536
BY PcType DEF TypeOK

LEMMA PhaTypes == ASSUME TypeOK, PHA PROVE TypeOK'
<1>1. mem' \in [Cells -> Byte]
  <2>1. reg.A \in Byte /\ mem' = [mem EXCEPT ![256 + reg.S] = reg.A]
      BY RegisterTypes DEF TypeOK, PHA, PushByte
  <2> QED
      BY <2>1, MemoryType DEF TypeOK
<1>2. reg' \in Registers /\ stop' = stop /\ armed' = armed
    BY StackTypes DEF PHA
<1>3. pc' \in Nat /\ pc' < 65536
    BY NextPc DEF PHA
<1>4. steps' \in 0 .. 1 + FlowSteps /\ group' = group
    BY FlowsTypes DEF PHA, Flows
<1> QED
    BY <1>1, <1>2, <1>3, <1>4 DEF TypeOK

LEMMA PushedStatus ==
    ASSUME TypeOK
    PROVE  Status([reg EXCEPT !.U = 1]) \in Byte /\ Status([reg EXCEPT !.B = 1, !.U = 1]) \in Byte
<1> DEFINE p == [reg EXCEPT !.B = 1]
<1>1. 0 \in Byte /\ 1 \in {0, 1} /\ reg \in Registers
    BY DEF TypeOK, Byte
<1>2. p \in Registers /\ [reg EXCEPT !.U = 1] \in Registers
    BY <1>1, FieldTypes
<1>3. [reg EXCEPT !.B = 1, !.U = 1] = [p EXCEPT !.U = 1]
    BY <1>1 DEF Registers
<1> HIDE DEF p
<1>4. [p EXCEPT !.U = 1] \in Registers
    BY <1>1, <1>2, FieldTypes
<1> QED
    BY <1>2, <1>3, <1>4, StatusType

LEMMA PhpTypes == ASSUME TypeOK, PHP PROVE TypeOK'
<1> DEFINE p == Status([reg EXCEPT !.B = 1, !.U = 1])
<1>1. p \in Byte /\ mem' = [mem EXCEPT ![256 + reg.S] = p]
    BY PushedStatus DEF PHP, PushByte
<1> HIDE DEF p
<1>2. mem' \in [Cells -> Byte]
    BY <1>1, MemoryType DEF TypeOK
<1>3. reg' \in Registers /\ stop' = stop /\ armed' = armed
    BY StackTypes DEF PHP
<1>4. pc' \in Nat /\ pc' < 65536
    BY NextPc DEF PHP
<1>5. steps' \in 0 .. 1 + FlowSteps /\ group' = group
    BY FlowsTypes DEF PHP, Flows
<1> QED
    BY <1>2, <1>3, <1>4, <1>5 DEF TypeOK

LEMMA PlaTypes == ASSUME TypeOK, PLA PROVE TypeOK'
<1>1. PopByte(reg.S) \in Byte
    BY PopTypes DEF PLA
<1>2. reg' \in Registers
    BY <1>1, StackTypes, AccumulatorSet DEF PLA
<1>3. mem' = mem /\ stop' = stop /\ armed' = armed
    BY DEF PLA
<1>4. pc' \in Nat /\ pc' < 65536
    BY NextPc DEF PLA
<1>5. steps' \in 0 .. 1 + FlowSteps /\ group' = group
    BY FlowsTypes DEF PLA, Flows
<1> QED
    BY <1>2, <1>3, <1>4, <1>5 DEF TypeOK

LEMMA PlpTypes == ASSUME TypeOK, PLP PROVE TypeOK'
<1>1. PopByte(reg.S) \in Byte
    BY PopTypes DEF PLP
<1>2. reg' \in Registers
    BY <1>1, StackTypes, SetStatusType DEF PLP
<1>3. mem' = mem /\ stop' = stop /\ armed' = armed
    BY DEF PLP
<1>4. pc' \in Nat /\ pc' < 65536
    BY NextPc DEF PLP
<1>5. steps' \in 0 .. 1 + FlowSteps /\ group' = group
    BY FlowsTypes DEF PLP, Flows
<1> QED
    BY <1>2, <1>3, <1>4, <1>5 DEF TypeOK

LEMMA HaltTypes == ASSUME TypeOK, NEW op, Halt(op) PROVE TypeOK'
<1>1. pc' \in Nat /\ pc' < 65536
    BY NextPc DEF Halt
<1>2. steps' \in 0 .. 1 + FlowSteps /\ group' = group
    BY FlowsTypes DEF Halt, Flows
<1>3. stop' = TRUE /\ reg' = reg /\ mem' = mem /\ armed' = armed
    BY DEF Halt
<1> QED
    BY <1>1, <1>2, <1>3 DEF TypeOK

LEMMA NmiTypes == ASSUME TypeOK, NMI PROVE TypeOK'
<1> DEFINE p == Status([reg EXCEPT !.U = 1])
           m == PushWord(mem, reg.S, pc)
<1>1. p \in Byte
    BY PushedStatus
<1>2. m \in [Cells -> Byte]
    BY <1>1, PushTypes, RegisterTypes DEF TypeOK
<1>3. mem' = [m EXCEPT ![256 + Down(Down(reg.S))] = p]
    BY DEF NMI, PushByte
<1> HIDE DEF m, p
<1>4. mem' \in [Cells -> Byte]
    BY <1>1, <1>2, <1>3, MemoryType
<1>5. pc' \in Nat /\ pc' < 65536
  <2>1. mem'[65530] \in Byte /\ mem'[65531] \in Byte
      BY <1>4, CpuAssumption
  <2>2. pc' = Word(mem'[65530], mem'[65531])
      BY DEF NMI
  <2> QED
      BY <2>1, <2>2, WordType
<1>6. reg' \in Registers /\ stop' = stop /\ armed' = armed
    BY StackTypes DEF NMI
<1>7. steps' \in 0 .. 1 + FlowSteps /\ group' = group
    BY FlowsTypes DEF NMI, Flows
<1> QED
    BY <1>4, <1>5, <1>6, <1>7 DEF TypeOK

(* The actions of Next, with the types of their operands.                  *)
IsAddress(w) == w \in Nat /\ w < 65536

SomeRead == \E op \in DOMAIN ReadModes, lo \in Byte, hi \in Byte :
               \E mode \in ReadModes[op] : Read(op, mode, lo, hi)
SomeStore == \E op \in DOMAIN StoreModes, lo \in Byte, hi \in Byte :
                \E mode \in StoreModes[op] : Store(op, mode, lo, hi)
SomeModify == \E op \in DOMAIN ModifyModes, lo \in Byte, hi \in Byte :
                 \E mode \in ModifyModes[op] : Modify(op, mode, lo, hi)
SomeNoOperand == \E op \in Implied : NoOperand(op)
SomeBranch == \E op \in Branches, lo \in Byte : Branch(op, lo)
SomeJmp == \E mode \in {"abs_jmp", "ind_jmp"} : \E w : IsAddress(w) /\ JMP(mode, w)
SomeJsr == \E w : IsAddress(w) /\ JSR(w)
SomeHalt == \E op \in {"BRK", "KIL"} : Halt(op)

LEMMA NextCases ==
    ASSUME Next
    PROVE  \/ SomeRead \/ SomeStore \/ SomeModify \/ SomeNoOperand
           \/ SomeBranch \/ SomeJmp \/ SomeJsr \/ SomeHalt
           \/ RTS \/ RTI \/ PHA \/ PHP \/ PLA \/ PLP \/ NMI
           \/ UNCHANGED vars
<1>1. Lows \subseteq Byte /\ Highs \subseteq Byte /\ Rels \subseteq Byte
    BY CpuAssumption
<1>2. \A w \in Targets : IsAddress(Word(w[1], w[2]))
  <2>1. \A w \in Targets : w[1] \in Byte /\ w[2] \in Byte
      BY CpuAssumption
  <2> QED
      BY <2>1, WordType DEF IsAddress
<1>3. (\E op \in DOMAIN ReadModes, lo \in Lows, hi \in Highs :
          \E mode \in ReadModes[op] : Read(op, mode, lo, hi)) => SomeRead
    BY <1>1, Zenon DEF SomeRead
<1>4. (\E op \in DOMAIN StoreModes, lo \in Lows, hi \in Highs :
          \E mode \in StoreModes[op] : Store(op, mode, lo, hi)) => SomeStore
    BY <1>1, Zenon DEF SomeStore
<1>5. (\E op \in DOMAIN ModifyModes, lo \in Lows, hi \in Highs :
          \E mode \in ModifyModes[op] : Modify(op, mode, lo, hi)) => SomeModify
    BY <1>1, Zenon DEF SomeModify
<1>6. (\E op \in Branches, lo \in Rels : Branch(op, lo)) => SomeBranch
    BY <1>1, Zenon DEF SomeBranch
<1>7. (\E mode \in {"abs_jmp", "ind_jmp"}, w \in Targets : JMP(mode, Word(w[1], w[2]))) => SomeJmp
    BY <1>2, Zenon DEF SomeJmp
<1>8. (\E w \in Targets : JSR(Word(w[1], w[2]))) => SomeJsr
    BY <1>2, Zenon DEF SomeJsr
<1> QED
    BY <1>3, <1>4, <1>5, <1>6, <1>7, <1>8, Zenon DEF Next, SomeNoOperand, SomeHalt, AtBound

LEMMA StepTypes == TypeOK /\ [Next]_vars => TypeOK'
<1> SUFFICES ASSUME TypeOK, [Next]_vars PROVE TypeOK'
    OBVIOUS
<1>1. CASE UNCHANGED vars
    BY <1>1 DEF vars, TypeOK
<1>2. CASE Next
  <2>1. SomeRead => TypeOK'
      BY ReadTypes, Zenon DEF SomeRead
  <2>2. SomeStore => TypeOK'
      BY StoreTypes, Zenon DEF SomeStore
  <2>3. SomeModify => TypeOK'
      BY ModifyTypes, Zenon DEF SomeModify
  <2>4. SomeNoOperand => TypeOK'
      BY NoOperandTypes, Zenon DEF SomeNoOperand
  <2>5. SomeBranch => TypeOK'
      BY BranchTypes, Zenon DEF SomeBranch
  <2>6. SomeJmp => TypeOK'
    <3> SUFFICES ASSUME NEW mode \in {"abs_jmp", "ind_jmp"}, NEW w, IsAddress(w), JMP(mode, w)
                 PROVE  TypeOK'
        BY Zenon DEF SomeJmp
    <3>1. w \in Nat /\ w < 65536
        BY DEF IsAddress
    <3> QED
        BY <3>1, JmpTypes
  <2>7. SomeJsr => TypeOK'
    <3> SUFFICES ASSUME NEW w, IsAddress(w), JSR(w) PROVE TypeOK'
        BY Zenon DEF SomeJsr
    <3>1. w \in Nat /\ w < 65536
        BY DEF IsAddress
    <3> QED
        BY <3>1, JsrTypes
  <2>8. RTS \/ RTI \/ PHA \/ PHP \/ PLA \/ PLP \/ NMI => TypeOK'
      BY RtsTypes, RtiTypes, PhaTypes, PhpTypes, PlaTypes, PlpTypes, NmiTypes, Zenon
  <2>9. SomeHalt => TypeOK'
      BY HaltTypes, Zenon DEF SomeHalt
  <2> QED
      BY <1>1, <1>2, <2>1, <2>2, <2>3, <2>4, <2>5, <2>6, <2>7, <2>8, <2>9, NextCases, Zenon
<1> QED
    BY <1>1, <1>2

(* Registers stay bytes and bits, PC an address and memory bytes, whatever *)
(* the program: nothing widens on the way through a register, the stack or *)
(* an address.                                                             *)
THEOREM TypeCorrect == Spec => []TypeOK
<1> QED
    BY InitTypes, StepTypes, PTL DEF Spec

-----------------------------------------------------------------------------
(* The arithmetic.                                                         *)

Arithmetic ==
    /\ \A f \in {"A", "X", "Y"} : reg'[f] # reg[f] => ShowsInFlags(f)
    /\ did'.op = "ADC" => Adds(did'.val, reg.C)
    /\ did'.op = "SBC" => Subtracts(did'.val, reg.C)
    /\ did'.op = "RRA" => Adds(did'.result, did'.val % 2)
    /\ did'.op = "ISC" => Subtracts(did'.result, reg.C)
    /\ did'.op \in {"ASL", "SLO"} => (256 * reg'.C) + did'.result = 2 * did'.val
    /\ did'.op \in {"ROL", "RLA"} => (256 * reg'.C) + did'.result = (2 * did'.val) + reg.C
    /\ did'.op \in {"LSR", "SRE"} => (2 * did'.result) + reg'.C = did'.val
    /\ did'.op = "ROR" => (2 * did'.result) + reg'.C = did'.val + (256 * reg.C)

Arithmetical == {"ADC", "SBC", "RRA", "ISC", "ASL", "SLO", "ROL", "RLA", "LSR", "SRE", "ROR"}

LEMMA OtherArithmetic ==
    ASSUME Shows(reg', reg), did'.op \notin Arithmetical
    PROVE  Arithmetic
BY DEF Arithmetic, Arithmetical, Shows, ShowsInFlags

LEMMA ReadArithmetic ==
    ASSUME TypeOK, NEW op \in DOMAIN ReadModes, NEW mode \in ReadModes[op],
           NEW lo \in Byte, NEW hi \in Byte, Read(op, mode, lo, hi)
    PROVE  Arithmetic
<1> DEFINE val == ReadOperand(mode, lo, hi)
<1>1. mode \in AluModes \cup {"zp_ind_y"}
    BY Modes
<1>2. val \in Byte
    BY <1>1, OperandType DEF Read
<1>3. reg' = Effect(op, reg, val) /\ did'.op = op /\ did'.val = val
    BY DEF Read, Did
<1>4. reg \in Registers
    BY DEF TypeOK
<1> HIDE DEF val
<1>5. Shows(reg', reg)
    BY <1>2, <1>3, <1>4, ReadEffect
<1>6. CASE op = "ADC"
  <2>1. reg' = Add(reg, val)
      BY <1>3, <1>6 DEF Effect
  <2>2. Adds(val, reg.C)
      BY <1>2, <1>4, <2>1, Addition DEF Adds
  <2> QED
      BY <1>3, <1>5, <1>6, <2>2 DEF Arithmetic, Shows, ShowsInFlags
<1>7. CASE op = "SBC"
  <2>1. reg' = Subtract(reg, val)
      BY <1>3, <1>7 DEF Effect
  <2>2. Subtracts(val, reg.C)
      BY <1>2, <1>4, <2>1, Subtraction DEF Subtracts
  <2> QED
      BY <1>3, <1>5, <1>7, <2>2 DEF Arithmetic, Shows, ShowsInFlags
<1>8. CASE op \notin {"ADC", "SBC"}
    BY <1>3, <1>5, <1>8, OtherArithmetic DEF Arithmetical, ReadModes
<1> QED
    BY <1>6, <1>7, <1>8

(* A shift and its carry hold all nine bits.                               *)
Shifted(op, val, c, new, carry) ==
    /\ op \in {"ASL", "SLO"} => (256 * carry) + new = 2 * val
    /\ op \in {"ROL", "RLA"} => (256 * carry) + new = (2 * val) + c
    /\ op \in {"LSR", "SRE"} => (2 * new) + carry = val
    /\ op \in {"ROR", "RRA"} => (2 * new) + carry = val + (256 * c)
    /\ op = "RRA" => carry = val % 2
    /\ op = "ISC" => carry = c

LEMMA Shifting ==
    ASSUME NEW val \in Byte, NEW c \in {0, 1}, NEW op \in DOMAIN ModifyModes
    PROVE  Shifted(op, val, c, Modified(op, val, c), CarryOut(op, val, c))
<1>1. val \in Nat /\ val < 256
    BY DEF Byte
<1>2. Bit(val, 7) = IF val < 128 THEN 0 ELSE 1
    BY HighBit
<1>3. (2 * val) % 256 = IF val < 128 THEN 2 * val ELSE (2 * val) - 256
    BY <1>1
<1>4. (2 * (val \div 2)) + (val % 2) = val
    BY <1>1
<1>5. CASE op \in {"ASL", "SLO"}
    BY <1>1, <1>2, <1>3, <1>5 DEF Modified, CarryOut, Shifted
<1>6. CASE op \in {"ROL", "RLA"}
    BY <1>1, <1>2, <1>3, <1>6 DEF Modified, CarryOut, Shifted
<1>7. CASE op \in {"LSR", "SRE"}
    BY <1>1, <1>4, <1>7 DEF Modified, CarryOut, Shifted
<1>8. CASE op \in {"ROR", "RRA"}
    BY <1>1, <1>4, <1>8 DEF Modified, CarryOut, Shifted
<1>9. op = "RRA" => CarryOut(op, val, c) = val % 2
    BY DEF CarryOut
<1>10. op = "ISC" => CarryOut(op, val, c) = c
    BY DEF CarryOut
<1> QED
    BY <1>5, <1>6, <1>7, <1>8, <1>9, <1>10 DEF Shifted

LEMMA LogicalCarry ==
    ASSUME NEW r \in Registers, NEW new \in Byte, NEW op \in {"SLO", "RLA", "SRE"}
    PROVE  AfterModify(op, r, new).C = r.C
<1>1. PICK b \in Byte : AfterModify(op, r, new) = SetA(r, b)
  <2>1. r.A \in Byte
      BY RegisterTypes
  <2>2. And(r.A, new) \in Byte /\ Or(r.A, new) \in Byte /\ Xor(r.A, new) \in Byte
      BY <2>1, AndType, OrType, XorType
  <2> QED
      BY <2>2 DEF AfterModify
<1> QED
    BY <1>1, AccumulatorSet

LEMMA ModifyArithmetic ==
    ASSUME TypeOK, NEW op \in DOMAIN ModifyModes, NEW mode \in ModifyModes[op],
           NEW lo \in Byte, NEW hi \in Byte, Modify(op, mode, lo, hi)
    PROVE  Arithmetic
<1> DEFINE val == ReadOperand(mode, lo, hi)
           new == Modified(op, val, reg.C)
           r   == Halfway(op, mode, val)
<1>1. /\ mode \in AluModes \cup {"zp_ind_y", "acc"}
      /\ op \in Combined => mode # "acc"
    BY Modes
<1>2. val \in Byte
    BY <1>1, OperandType DEF Modify
<1>3. reg.C \in {0, 1} /\ reg \in Registers
    BY RegisterTypes DEF TypeOK
<1>4. new \in Byte
    BY <1>2, <1>3, ModifiedType
<1>5. reg' = AfterModify(op, r, new)
    BY DEF Modify, Halfway
<1>6. did'.op = op /\ did'.val = val /\ did'.result = new
    BY DEF Modify, Did
<1>7. /\ r \in Registers
      /\ r.C = CarryOut(op, val, reg.C) /\ r.X = reg.X /\ r.Y = reg.Y
      /\ r.A = IF mode = "acc" THEN new ELSE reg.A
    BY <1>2, HalfwayType
<1>8. Shifted(op, val, reg.C, new, r.C)
    BY <1>2, <1>3, <1>7, Shifting
<1> HIDE DEF val, new, r
<1>9. CASE op \notin Combined
  <2>1. reg' = CalcAluFlag(r, new)
      BY <1>4, <1>5, <1>7, <1>9, ModifyEffect
  <2>2. /\ reg'.A = r.A /\ reg'.X = reg.X /\ reg'.Y = reg.Y /\ reg'.C = r.C
        /\ reg'.Z = Flag(new = 0) /\ reg'.N = Bit(new, 7)
      BY <1>4, <1>7, <2>1, AluFlags
  <2>3. Shows(reg', reg)
      BY <1>7, <2>2 DEF Shows
  <2>4. op \notin {"ADC", "SBC", "RRA", "ISC", "SLO", "RLA", "SRE"}
      BY <1>9 DEF Combined, ModifyModes
  <2> QED
      BY <1>6, <1>8, <2>2, <2>3, <2>4 DEF Arithmetic, Shifted, Shows, ShowsInFlags
<1>10. CASE op \in Combined
  <2>1. r.A = reg.A
      BY <1>1, <1>7, <1>10
  <2>2. Shows(reg', reg)
    <3>1. Shows(reg', r)
        BY <1>4, <1>5, <1>7, <1>10, ModifyEffect
    <3> QED
        BY <1>7, <2>1, <3>1 DEF Shows
  <2>3. CASE op = "RRA"
    <3>1. reg' = Add(r, new)
        BY <1>5, <2>3 DEF AfterModify
    <3>2. Adds(new, val % 2)
        BY <1>4, <1>7, <1>8, <2>1, <2>3, <3>1, Addition DEF Adds, Shifted
    <3> QED
        BY <1>6, <2>2, <2>3, <3>2 DEF Arithmetic, Shows, ShowsInFlags
  <2>4. CASE op = "ISC"
    <3>1. reg' = Subtract(r, new)
        BY <1>5, <2>4 DEF AfterModify
    <3>2. Subtracts(new, reg.C)
        BY <1>4, <1>7, <1>8, <2>1, <2>4, <3>1, Subtraction DEF Subtracts, Shifted
    <3> QED
        BY <1>6, <2>2, <2>4, <3>2 DEF Arithmetic, Shows, ShowsInFlags
  <2>5. CASE op \in {"SLO", "RLA", "SRE"}
    <3>1. reg'.C = r.C
        BY <1>4, <1>5, <1>7, <2>5, LogicalCarry
    <3> QED
        BY <1>6, <1>8, <2>2, <2>5, <3>1 DEF Arithmetic, Shifted, Shows, ShowsInFlags
  <2>6. CASE op = "DCP"
      BY <1>6, <2>2, <2>6, OtherArithmetic DEF Arithmetical
  <2> QED
      BY <1>10, <2>3, <2>4, <2>5, <2>6 DEF Combined
<1> QED
    BY <1>9, <1>10

LEMMA NoOperandArithmetic ==
    ASSUME TypeOK, NEW op \in Implied, NoOperand(op)
    PROVE  Arithmetic
<1>1. reg \in Registers
    BY DEF TypeOK
<1>2. reg' = ImpliedEffect(op, reg) /\ did'.op = op
    BY DEF NoOperand, Did
<1>3. Shows(reg', reg)
  <2>1. CASE op # "TXS"
      BY <1>1, <1>2, <2>1, ImpliedType
  <2>2. CASE op = "TXS"
    <3>1. reg' = [reg EXCEPT !.S = reg.X]
        BY <1>1, <1>2, <2>2, ImpliedType
    <3> QED
        BY <1>1, <3>1 DEF Shows, Registers
  <2> QED
      BY <2>1, <2>2
<1>4. op \notin Arithmetical
    BY DEF Implied, Arithmetical
<1> QED
    BY <1>2, <1>3, <1>4, OtherArithmetic

(* The instructions that move PC and the stack leave A, X and Y alone,     *)
(* except PLA, which says what it has pulled.                              *)
LEMMA FlowArithmetic ==
    ASSUME TypeOK, \/ SomeBranch \/ SomeJmp \/ SomeJsr \/ SomeHalt
                   \/ RTS \/ RTI \/ PHA \/ PHP \/ PLA \/ PLP \/ NMI
    PROVE  Arithmetic
<1> DEFINE others == {"JMP", "JSR", "BRK", "KIL", "RTS", "RTI", "PHA", "PHP", "PLA", "PLP", "NMI"}
<1>1. reg \in Registers
    BY DEF TypeOK
<1>2. SomeBranch => did'.op \in Branches /\ reg' = reg
    BY DEF SomeBranch, Branch, FlowsTo, Did
<1>3. SomeJmp => did'.op \in others /\ reg' = reg
    BY DEF SomeJmp, JMP, FlowsTo, Did
<1>4. SomeHalt => did'.op \in others /\ reg' = reg
    BY DEF SomeHalt, Halt, Flows, FlowsTo, Did
<1>5. SomeJsr => did'.op \in others /\ reg' = [reg EXCEPT !.S = Down(Down(@))]
    BY DEF SomeJsr, JSR, FlowsTo, Did
<1>6. PHA \/ PHP => did'.op \in others /\ reg' = [reg EXCEPT !.S = Down(@)]
    BY DEF PHA, PHP, Flows, FlowsTo, Did
<1>7. RTS => did'.op \in others /\ reg' = [reg EXCEPT !.S = Up(Up(@))]
    BY DEF RTS, Flows, FlowsTo, Did
<1>8. NMI => did'.op \in others /\ reg' = [reg EXCEPT !.S = Down(Down(Down(@)))]
    BY DEF NMI, Flows, FlowsTo, Did
<1>9. RTI => did'.op \in others /\ Shows(reg', reg)
  <2> SUFFICES ASSUME RTI PROVE did'.op \in others /\ Shows(reg', reg)
      OBVIOUS
  <2> DEFINE r == [reg EXCEPT !.S = Up(Up(Up(@)))]
  <2>1. PopByte(reg.S) \in Byte
      BY PopTypes DEF RTI
  <2>2. r \in Registers /\ r.A = reg.A /\ r.X = reg.X /\ r.Y = reg.Y
      BY <1>1, StackTypes DEF Registers
  <2>3. reg' = SetStatus(r, PopByte(reg.S)) /\ did'.op = "RTI"
      BY DEF RTI, Flows, FlowsTo, Did
  <2> HIDE DEF r
  <2> QED
      BY <2>1, <2>2, <2>3, SetStatusType DEF Shows
<1>10. PLP => did'.op \in others /\ Shows(reg', reg)
  <2> SUFFICES ASSUME PLP PROVE did'.op \in others /\ Shows(reg', reg)
      OBVIOUS
  <2> DEFINE r == [reg EXCEPT !.S = Up(@)]
  <2>1. PopByte(reg.S) \in Byte
      BY PopTypes DEF PLP
  <2>2. r \in Registers /\ r.A = reg.A /\ r.X = reg.X /\ r.Y = reg.Y
      BY <1>1, StackTypes DEF Registers
  <2>3. reg' = SetStatus(r, PopByte(reg.S)) /\ did'.op = "PLP"
      BY DEF PLP, Flows, FlowsTo, Did
  <2> HIDE DEF r
  <2> QED
      BY <2>1, <2>2, <2>3, SetStatusType DEF Shows
<1>11. PLA => did'.op \in others /\ Shows(reg', reg)
  <2> SUFFICES ASSUME PLA PROVE did'.op \in others /\ Shows(reg', reg)
      OBVIOUS
  <2> DEFINE r == [reg EXCEPT !.S = Up(@)]
  <2>1. PopByte(reg.S) \in Byte
      BY PopTypes DEF PLA
  <2>2. r \in Registers /\ r.A = reg.A /\ r.X = reg.X /\ r.Y = reg.Y
      BY <1>1, StackTypes DEF Registers
  <2>3. reg' = SetA(r, PopByte(reg.S)) /\ did'.op = "PLA"
      BY DEF PLA, Flows, FlowsTo, Did
  <2> HIDE DEF r
  <2> QED
      BY <2>1, <2>2, <2>3, AccumulatorSet DEF Shows
<1>12. \A s : LET r == [reg EXCEPT !.S = s] IN r.A = reg.A /\ r.X = reg.X /\ r.Y = reg.Y
    BY <1>1 DEF Registers
<1>13. \A op \in others \cup Branches : op \notin Arithmetical
    BY DEF Branches, Arithmetical
<1> HIDE DEF others
<1>14. did'.op \in others \cup Branches
    BY <1>2, <1>3, <1>4, <1>5, <1>6, <1>7, <1>8, <1>9, <1>10, <1>11
<1>15. Shows(reg', reg)
  <2>1. reg' = reg => Shows(reg', reg)
      BY DEF Shows
  <2>2. \A s : reg' = [reg EXCEPT !.S = s] => Shows(reg', reg)
      BY <1>12 DEF Shows
  <2>3. SomeJsr => Shows(reg', reg)
      BY <1>5, <2>2
  <2>4. PHA \/ PHP => Shows(reg', reg)
      BY <1>6, <2>2
  <2>5. RTS => Shows(reg', reg)
      BY <1>7, <2>2
  <2>6. NMI => Shows(reg', reg)
      BY <1>8, <2>2
  <2> QED
      BY <1>2, <1>3, <1>4, <1>9, <1>10, <1>11, <2>1, <2>3, <2>4, <2>5, <2>6, Zenon
<1> QED
    BY <1>13, <1>14, <1>15, OtherArithmetic

LEMMA StepArithmetic == TypeOK /\ Next => Arithmetic \/ UNCHANGED vars
<1> SUFFICES ASSUME TypeOK, Next PROVE Arithmetic \/ UNCHANGED vars
    OBVIOUS
<1>1. SomeRead => Arithmetic
    BY ReadArithmetic, Zenon DEF SomeRead
<1>2. SomeStore => Arithmetic
  <2>1. SomeStore => reg' = reg /\ did'.op \in DOMAIN StoreModes
      BY DEF SomeStore, Store, Did
  <2>2. \A op \in DOMAIN StoreModes : op \notin Arithmetical
      BY DEF StoreModes, Arithmetical
  <2>3. reg' = reg => Shows(reg', reg)
      BY DEF Shows
  <2> QED
      BY <2>1, <2>2, <2>3, OtherArithmetic
<1>3. SomeModify => Arithmetic
    BY ModifyArithmetic, Zenon DEF SomeModify
<1>4. SomeNoOperand => Arithmetic
    BY NoOperandArithmetic, Zenon DEF SomeNoOperand
<1>5. (\/ SomeBranch \/ SomeJmp \/ SomeJsr \/ SomeHalt
       \/ RTS \/ RTI \/ PHA \/ PHP \/ PLA \/ PLP \/ NMI) => Arithmetic
    BY FlowArithmetic, Zenon
<1> QED
    BY <1>1, <1>2, <1>3, <1>4, <1>5, NextCases, Zenon

(* Every instruction, on every byte: sums and differences are those of the *)
(* integers with the carry as the ninth bit, V is signed overflow, shifts  *)
(* lose no bit, and Z and N say what a register has become.  TLC looks at  *)
(* the bytes of the bounds, this at all of them.                           *)
THEOREM ArithmeticCorrect == Spec => ArithmeticIsRight
<1>1. TypeOK /\ [Next]_vars => [Arithmetic]_vars
    BY StepArithmetic
<1>2. ArithmeticIsRight <=> [][Arithmetic]_vars
    BY DEF ArithmeticIsRight, Arithmetic
<1> QED
    BY <1>1, <1>2, TypeCorrect, PTL DEF Spec

-----------------------------------------------------------------------------
(* The log.                                                                *)

LEMMA SmallAddress == ASSUME NEW w \in Nat, w < 65536 PROVE w % 65536 = w
OBVIOUS

LEMMA ByteAddress == ASSUME NEW z \in Byte PROVE z \in Nat /\ z < 65536 /\ NextInPage(z) = (z + 1) % 256
<1>1. z \in Nat /\ z < 256
    BY DEF Byte
<1>2. z \div 256 = 0
    BY <1>1
<1>3. (z + 1) % 256 \in Nat
    BY <1>1
<1> QED
    BY <1>1, <1>2, <1>3 DEF NextInPage, Page

(* What a pointer in zero page points to, as both find it.                 *)
LEMMA Pointing ==
    ASSUME TypeOK, NEW z \in Byte, {z, NextInPage(z)} \subseteq Cells
    PROVE  LoggedPointer(z) = Pointer(z) /\ Pointer(z) \in Nat /\ Pointer(z) < 65536
<1>1. NextInPage(z) = (z + 1) % 256
    BY ByteAddress
<1>2. mem[z] \in Byte /\ mem[NextInPage(z)] \in Byte
    BY DEF TypeOK
<1>3. LoggedPointer(z) = Pointer(z)
    BY <1>1 DEF LoggedPointer, Pointer
<1> QED
    BY <1>2, <1>3, WordType DEF Pointer

(* The instruction's address, mode by mode.                                *)
LEMMA Addresses ==
    ASSUME NEW lo, NEW hi
    PROVE  /\ Address("zp", lo, hi) = (lo + 0) % 65536
           /\ Address("zp_ind_x", lo, hi) = (lo + reg.X) % 256
           /\ Address("zp_ind_y", lo, hi) = (lo + reg.Y) % 256
           /\ Address("abs", lo, hi) = (Word(lo, hi) + 0) % 65536
           /\ Address("abs_x", lo, hi) = (Word(lo, hi) + reg.X) % 65536
           /\ Address("abs_y", lo, hi) = (Word(lo, hi) + reg.Y) % 65536
           /\ Address("ind_x", lo, hi) = (Pointer((lo + reg.X) % 256) + 0) % 65536
           /\ Address("ind_y", lo, hi) = (Pointer(lo) + reg.Y) % 65536
<1>1. /\ Base("zp", lo, hi) = lo /\ Base("zp_ind_x", lo, hi) = lo /\ Base("zp_ind_y", lo, hi) = lo
      /\ Base("abs", lo, hi) = Word(lo, hi) /\ Base("abs_x", lo, hi) = Word(lo, hi)
      /\ Base("abs_y", lo, hi) = Word(lo, hi)
      /\ Base("ind_x", lo, hi) = Pointer((lo + reg.X) % 256) /\ Base("ind_y", lo, hi) = Pointer(lo)
    BY DEF Base, PointerAt
<1>2. /\ Index("zp") = 0 /\ Index("abs") = 0 /\ Index("ind_x") = 0
      /\ Index("zp_ind_x") = reg.X /\ Index("abs_x") = reg.X
      /\ Index("zp_ind_y") = reg.Y /\ Index("abs_y") = reg.Y /\ Index("ind_y") = reg.Y
    BY DEF Index
<1>3. \A mode \in {"zp_ind_x", "zp_ind_y"} :
          Address(mode, lo, hi) = (Base(mode, lo, hi) + Index(mode)) % 256
    BY DEF Address
<1>4. \A mode \in AluModes \ {"imm", "zp_ind_x"} :
          Address(mode, lo, hi) = (Base(mode, lo, hi) + Index(mode)) % 65536
    BY DEF Address, AluModes
<1> QED
    BY <1>1, <1>2, <1>3, <1>4 DEF AluModes

LEMMA LoggedIsRead ==
    ASSUME TypeOK, NEW mode \in AluModes \cup {"zp_ind_y", "acc"}, NEW lo \in Byte, NEW hi \in Byte,
           Known(mode, lo, hi)
    PROVE  /\ Logged(mode, lo, hi) = ReadOperand(mode, lo, hi)
           /\ mode \notin {"imm", "acc"} =>
                 Address(mode, lo, hi) \in Cells /\ Logged(mode, lo, hi) = mem[Address(mode, lo, hi)]
<1> DEFINE w == Word(lo, hi)
           z == (lo + reg.X) % 256
<1>1. reg.X \in Byte
    BY RegisterTypes DEF TypeOK
<1>2. lo \in Nat /\ lo < 65536 /\ w \in Nat /\ w < 65536
    BY ByteAddress, WordType
<1>3. z \in Byte
  <2>1. lo + reg.X \in Int
      BY <1>1 DEF Byte
  <2> QED
      BY <2>1, Modulo
<1>4. (lo + 0) % 65536 = lo /\ (w + 0) % 65536 = w
    BY <1>2, SmallAddress
<1>5. CASE mode = "imm"
    BY <1>5 DEF Logged, ReadOperand
<1>6. CASE mode = "acc"
    BY <1>6 DEF Logged, ReadOperand
<1>7. CASE mode \notin {"imm", "acc"}
  <2>1. ReadOperand(mode, lo, hi) = mem[Address(mode, lo, hi)] /\ Address(mode, lo, hi) \in Cells
      BY <1>7 DEF ReadOperand, Known
  <2>2. Logged(mode, lo, hi) = mem[Address(mode, lo, hi)]
    <3>1. CASE mode \in {"zp", "zp_ind_x", "zp_ind_y"}
        BY <1>4, <3>1, Addresses DEF Logged
    <3>2. CASE mode \in {"abs", "abs_x", "abs_y"}
        BY <1>4, <3>2, Addresses DEF Logged
    <3>3. CASE mode = "ind_x"
      <4>1. LoggedPointer(z) = Pointer(z) /\ Pointer(z) \in Nat /\ Pointer(z) < 65536
          BY <1>3, <3>3, Pointing DEF Known, PointerAt
      <4>2. (Pointer(z) + 0) % 65536 = Pointer(z)
          BY <4>1, SmallAddress
      <4>3. Logged(mode, lo, hi) = mem[LoggedPointer(z)]
          BY <3>3 DEF Logged
      <4>4. Address(mode, lo, hi) = (Pointer(z) + 0) % 65536
          BY <3>3, Addresses
      <4> HIDE DEF z
      <4> QED
          BY <4>1, <4>2, <4>3, <4>4
    <3>4. CASE mode = "ind_y"
      <4>1. LoggedPointer(lo) = Pointer(lo)
          BY <3>4, Pointing DEF Known, PointerAt
      <4>2. Logged(mode, lo, hi) = mem[(LoggedPointer(lo) + reg.Y) % 65536]
          BY <3>4 DEF Logged
      <4>3. Address(mode, lo, hi) = (Pointer(lo) + reg.Y) % 65536
          BY <3>4, Addresses
      <4> QED
          BY <4>1, <4>2, <4>3
    <3> QED
        BY <1>7, <3>1, <3>2, <3>3, <3>4 DEF AluModes
  <2> QED
      BY <2>1, <2>2
<1> QED
    BY <1>5, <1>6, <1>7

ShownInLog ==
    /\ did'.op \in DOMAIN ReadModes \cup DOMAIN ModifyModes /\ did'.mode # "imp" =>
          did'.logged = did'.val
    /\ did'.op \in DOMAIN StoreModes =>
          \A a \in Cells : mem'[a] # mem[a] => mem[a] = did'.logged
    /\ did'.op \in {"JMP", "JSR"} \/ (did'.op \in Branches /\ Taken(did'.op)) =>
          did'.logged = pc'

Reads == {"ADC", "AND", "CMP", "EOR", "ORA", "SBC", "LDA", "LDX", "LDY", "CPX", "CPY",
          "BIT", "LAX", "NOP"}
Stores == {"STA", "STX", "STY", "SAX"}
Modifies == {"ASL", "ROL", "LSR", "ROR", "INC", "DEC", "SLO", "RLA", "SRE", "RRA", "DCP", "ISC"}
Others == {"BRK", "KIL", "RTS", "RTI", "PHA", "PHP", "PLA", "PLP", "NMI"}

(* Which kind an instruction is, its name says; only NOP is of two kinds.  *)
LEMMA Kinds ==
    /\ DOMAIN ReadModes = Reads /\ DOMAIN StoreModes = Stores /\ DOMAIN ModifyModes = Modifies
    /\ \A op \in Reads \cup Modifies :
          op \notin Stores /\ op \notin Branches /\ op \notin {"JMP", "JSR"}
    /\ \A op \in Reads : op \notin Modifies
    /\ \A op \in Stores :
          op \notin Reads /\ op \notin Modifies /\ op \notin Branches /\ op \notin {"JMP", "JSR"}
    /\ \A op \in Implied :
          op \notin Stores /\ op \notin Modifies /\ op \notin Branches /\ op \notin {"JMP", "JSR"}
    /\ \A op \in Branches \cup {"JMP", "JSR"} :
          op \notin Reads /\ op \notin Stores /\ op \notin Modifies
    /\ \A op \in Branches : op \notin {"JMP", "JSR"}
    /\ \A op \in Others :
          /\ op \notin Reads /\ op \notin Stores /\ op \notin Modifies
          /\ op \notin Branches /\ op \notin {"JMP", "JSR"}
<1>1. DOMAIN ReadModes = Reads /\ DOMAIN StoreModes = Stores /\ DOMAIN ModifyModes = Modifies
    BY DEF ReadModes, StoreModes, ModifyModes, Combined, Reads, Stores, Modifies
<1>2. \A op \in Reads \cup Modifies :
          op \notin Stores /\ op \notin Branches /\ op \notin {"JMP", "JSR"}
    BY DEF Reads, Modifies, Stores, Branches
<1>3. \A op \in Reads : op \notin Modifies
    BY DEF Reads, Modifies
<1>4. \A op \in Stores : op \notin Branches /\ op \notin {"JMP", "JSR"}
    BY DEF Stores, Branches
<1>5. \A op \in Implied :
          op \notin Stores /\ op \notin Modifies /\ op \notin Branches /\ op \notin {"JMP", "JSR"}
    BY DEF Implied, Stores, Modifies, Branches
<1>6. \A op \in {"JMP", "JSR"} : op \notin Branches
    BY DEF Branches
<1>7. \A op \in Others :
          /\ op \notin Reads /\ op \notin Stores /\ op \notin Modifies
          /\ op \notin Branches /\ op \notin {"JMP", "JSR"}
    BY DEF Others, Reads, Stores, Modifies, Branches
<1> QED
    BY <1>1, <1>2, <1>3, <1>4, <1>5, <1>6, <1>7

LEMMA ReadShown ==
    ASSUME TypeOK, NEW op \in DOMAIN ReadModes, NEW mode \in ReadModes[op],
           NEW lo \in Byte, NEW hi \in Byte, Read(op, mode, lo, hi)
    PROVE  ShownInLog
<1>1. mode \in AluModes \cup {"zp_ind_y"}
    BY Modes
<1>2. did'.op = op /\ did'.val = ReadOperand(mode, lo, hi) /\ did'.logged = Logged(mode, lo, hi)
    BY DEF Read, Did
<1>3. Logged(mode, lo, hi) = ReadOperand(mode, lo, hi)
    BY <1>1, LoggedIsRead DEF Read
<1>4. op \notin DOMAIN StoreModes /\ op \notin Branches /\ op \notin {"JMP", "JSR"}
    BY Kinds
<1> QED
    BY <1>2, <1>3, <1>4, Zenon DEF ShownInLog

LEMMA StoreShown ==
    ASSUME TypeOK, NEW op \in DOMAIN StoreModes, NEW mode \in StoreModes[op],
           NEW lo \in Byte, NEW hi \in Byte, Store(op, mode, lo, hi)
    PROVE  ShownInLog
<1>1. mode \in (AluModes \ {"imm"}) \cup {"zp_ind_y"}
    BY Modes
<1>2. mode \notin {"imm", "acc"}
    BY <1>1 DEF AluModes
<1>3. did'.op = op /\ did'.logged = Logged(mode, lo, hi)
      /\ mem' = [mem EXCEPT ![Address(mode, lo, hi)] = Register(op)]
    BY DEF Store, Did
<1>4. Logged(mode, lo, hi) = mem[Address(mode, lo, hi)]
    BY <1>1, <1>2, LoggedIsRead DEF Store
<1>5. \A a \in Cells : mem'[a] # mem[a] => mem[a] = did'.logged
    BY <1>3, <1>4 DEF TypeOK
<1>6. /\ op \notin DOMAIN ReadModes /\ op \notin DOMAIN ModifyModes
      /\ op \notin Branches /\ op \notin {"JMP", "JSR"}
    BY Kinds
<1> QED
    BY <1>3, <1>5, <1>6, Zenon DEF ShownInLog

LEMMA ModifyShown ==
    ASSUME TypeOK, NEW op \in DOMAIN ModifyModes, NEW mode \in ModifyModes[op],
           NEW lo \in Byte, NEW hi \in Byte, Modify(op, mode, lo, hi)
    PROVE  ShownInLog
<1>1. mode \in AluModes \cup {"zp_ind_y", "acc"}
    BY Modes
<1>2. did'.op = op /\ did'.val = ReadOperand(mode, lo, hi) /\ did'.logged = Logged(mode, lo, hi)
    BY DEF Modify, Did
<1>3. Logged(mode, lo, hi) = ReadOperand(mode, lo, hi)
    BY <1>1, LoggedIsRead DEF Modify
<1>4. op \notin DOMAIN StoreModes /\ op \notin Branches /\ op \notin {"JMP", "JSR"}
    BY Kinds
<1> QED
    BY <1>2, <1>3, <1>4, Zenon DEF ShownInLog

LEMMA BranchShown ==
    ASSUME TypeOK, NEW op \in Branches, NEW lo \in Byte, Branch(op, lo)
    PROVE  ShownInLog
<1>1. did'.op = op /\ did'.logged = LoggedBranch(lo)
    BY DEF Branch, FlowsTo, Did
<1>2. Taken(op) => pc' = LoggedBranch(lo)
  <2> SUFFICES ASSUME Taken(op) PROVE pc' = LoggedBranch(lo)
      OBVIOUS
  <2>1. pc' = (pc + 2 + Signed(lo)) % 65536
      BY DEF Branch
  <2>2. pc + 2 + Signed(lo) = IF lo < 128 THEN pc + 2 + lo ELSE pc + 2 + lo - 256
      BY DEF Signed, TypeOK, Byte
  <2> QED
      BY <2>1, <2>2 DEF LoggedBranch
<1>3. op \notin DOMAIN ReadModes /\ op \notin DOMAIN StoreModes /\ op \notin DOMAIN ModifyModes
      /\ op \notin {"JMP", "JSR"}
    BY Kinds
<1> QED
    BY <1>1, <1>2, <1>3, Zenon DEF ShownInLog

LEMMA JmpShown ==
    ASSUME TypeOK, NEW mode \in {"abs_jmp", "ind_jmp"}, NEW w \in Nat, w < 65536, JMP(mode, w)
    PROVE  ShownInLog
<1>1. did'.op = "JMP" /\ did'.logged = LoggedJump(mode, w) /\ pc' = JmpTarget(mode, w)
    BY DEF JMP, FlowsTo, Did
<1>2. JmpTarget(mode, w) = LoggedJump(mode, w)
  <2>1. w % 256 = 255 => 256 * Page(w) = w - 255
      BY DEF Page
  <2>2. w % 256 # 255 => (w + 1) % 65536 = w + 1
      OBVIOUS
  <2>3. CASE mode = "abs_jmp"
      BY <2>3 DEF JmpTarget, LoggedJump
  <2>4. CASE mode = "ind_jmp" /\ w % 256 = 255
      BY <2>1, <2>4 DEF JmpTarget, LoggedJump
  <2>5. CASE mode = "ind_jmp" /\ w % 256 # 255
      BY <2>2, <2>5 DEF JmpTarget, LoggedJump
  <2> QED
      BY <2>3, <2>4, <2>5
<1>3. \A op \in {"JMP"} :
          op \notin DOMAIN ReadModes /\ op \notin DOMAIN StoreModes /\ op \notin DOMAIN ModifyModes
    BY Kinds
<1> QED
    BY <1>1, <1>2, <1>3 DEF ShownInLog

LEMMA OthersShown ==
    ASSUME \/ did'.op \in Others
           \/ did'.op \in Implied /\ did'.mode = "imp"
    PROVE  ShownInLog
BY Kinds DEF ShownInLog

LEMMA StepShown == TypeOK /\ Next => ShownInLog \/ UNCHANGED vars
<1> SUFFICES ASSUME TypeOK, Next PROVE ShownInLog \/ UNCHANGED vars
    OBVIOUS
<1>1. SomeRead => ShownInLog
    BY ReadShown, Zenon DEF SomeRead
<1>2. SomeStore => ShownInLog
    BY StoreShown, Zenon DEF SomeStore
<1>3. SomeModify => ShownInLog
    BY ModifyShown, Zenon DEF SomeModify
<1>4. SomeNoOperand => ShownInLog
    BY OthersShown DEF SomeNoOperand, NoOperand, Did
<1>5. SomeBranch => ShownInLog
    BY BranchShown, Zenon DEF SomeBranch
<1>6. SomeJmp => ShownInLog
    BY JmpShown DEF SomeJmp, IsAddress
<1>7. SomeJsr => ShownInLog
  <2>1. SomeJsr => did'.op = "JSR" /\ did'.logged = pc'
      BY DEF SomeJsr, JSR, FlowsTo, Did, LoggedJump
  <2>2. \A op \in {"JSR"} :
            op \notin DOMAIN ReadModes /\ op \notin DOMAIN StoreModes /\ op \notin DOMAIN ModifyModes
      BY Kinds
  <2> QED
      BY <2>1, <2>2 DEF ShownInLog
<1>8. SomeHalt => ShownInLog
  <2>1. SomeHalt => did'.op \in Others
      BY DEF SomeHalt, Halt, Flows, FlowsTo, Did, Others
  <2> QED
      BY <2>1, OthersShown
<1>9. (RTS \/ RTI \/ PHA \/ PHP \/ PLA \/ PLP \/ NMI) => ShownInLog
  <2>1. (RTS \/ RTI \/ PHA \/ PHP \/ PLA \/ PLP \/ NMI) => did'.op \in Others
      BY DEF RTS, RTI, PHA, PHP, PLA, PLP, NMI, Flows, FlowsTo, Did, Others
  <2> QED
      BY <2>1, OthersShown
<1> QED
    BY <1>1, <1>2, <1>3, <1>4, <1>5, <1>6, <1>7, <1>8, <1>9, NextCases, Zenon

(* The two pieces of code that find an operand, the one that runs the      *)
(* instruction and the one that logs it, find the same, at every address,  *)
(* index and pointer and whatever wraps.                                   *)
THEOREM LogCorrect == Spec => LogShowsOperand
<1>1. TypeOK /\ [Next]_vars => [ShownInLog]_vars
    BY StepShown
<1>2. LogShowsOperand <=> [][ShownInLog]_vars
    BY DEF LogShowsOperand, ShownInLog
<1> QED
    BY <1>1, <1>2, TypeCorrect, PTL DEF Spec

-----------------------------------------------------------------------------
(* The cycles.                                                             *)

Timed ==
    /\ group = "data" => did'.cycles = BusTime(did')
    /\ did'.op \in Branches =>
          LET next == (pc + 2) % 65536
          IN  did'.cycles = 2 + Flag(Taken(did'.op)) + Flag(Page(pc') # Page(next))

LEMMA ReadTimed ==
    ASSUME NEW op \in DOMAIN ReadModes, NEW mode \in ReadModes[op],
           NEW lo, NEW hi, Read(op, mode, lo, hi)
    PROVE  Timed
<1> DEFINE crossing == IsPageCrossing(mode, lo, hi)
<1>1. did'.op = op /\ did'.mode = mode /\ did'.crossing = crossing
      /\ did'.cycles = GetCpuCycle(mode, crossing)
    BY DEF Read, Did
<1>2. mode \in AluModes \cup {"zp_ind_y"}
    BY Modes
<1>3. op \notin DOMAIN StoreModes /\ op \notin DOMAIN ModifyModes /\ op \notin Branches
    BY Kinds
<1> HIDE DEF crossing
<1>4. did'.cycles = BusTime(did')
  <2>1. CASE crossing
      BY <1>1, <1>2, <1>3, <2>1 DEF BusTime, GetCpuCycle, Length, Flag, AluModes
  <2>2. CASE ~crossing
      BY <1>1, <1>2, <1>3, <2>2 DEF BusTime, GetCpuCycle, Length, Flag, AluModes
  <2> QED
      BY <2>1, <2>2
<1> QED
    BY <1>1, <1>3, <1>4 DEF Timed

LEMMA StoreTimed ==
    ASSUME NEW op \in DOMAIN StoreModes, NEW mode \in StoreModes[op],
           NEW lo, NEW hi, Store(op, mode, lo, hi)
    PROVE  Timed
<1> DEFINE crossing == IsPageCrossing(mode, lo, hi)
<1>1. did'.op = op /\ did'.mode = mode /\ did'.cycles = StoreCycle(op, mode, crossing)
    BY DEF Store, Did
<1>2. mode \in (AluModes \ {"imm"}) \cup {"zp_ind_y"}
    BY Modes
<1>3. mode \in {"abs_x", "abs_y", "ind_y"} => op = "STA"
    BY DEF StoreModes
<1>4. op \in DOMAIN StoreModes /\ op \notin DOMAIN ModifyModes /\ op \notin Branches
    BY Kinds
<1> HIDE DEF crossing
<1>5. did'.cycles = BusTime(did')
    BY <1>1, <1>2, <1>3, <1>4 DEF BusTime, StoreCycle, GetCpuCycle, Length, Flag, AluModes
<1> QED
    BY <1>1, <1>4, <1>5 DEF Timed

LEMMA ModifyTimed ==
    ASSUME NEW op \in DOMAIN ModifyModes, NEW mode \in ModifyModes[op],
           NEW lo, NEW hi, Modify(op, mode, lo, hi)
    PROVE  Timed
<1>1. did'.op = op /\ did'.mode = mode /\ did'.cycles = ModifyCycle(op, mode)
    BY DEF Modify, Did
<1>2. mode \in (AluModes \ {"imm"}) \cup {"acc"} /\ (op \in Combined => mode # "acc")
    BY Modes
<1>3. op \notin Combined => mode \in {"acc", "zp", "zp_ind_x", "abs", "abs_x"}
    BY DEF ModifyModes
<1>4. op \in DOMAIN ModifyModes /\ op \notin Branches
    BY Kinds
<1>5. did'.cycles = BusTime(did')
  <2>1. CASE op \in Combined
      BY <1>1, <1>2, <1>4, <2>1 DEF BusTime, ModifyCycle, GetCpuCycle, Length, Flag, AluModes
  <2>2. CASE op \notin Combined
      BY <1>1, <1>3, <1>4, <2>2 DEF BusTime, ModifyCycle, GetShiftCycle, Length, Flag
  <2> QED
      BY <2>1, <2>2
<1> QED
    BY <1>1, <1>4, <1>5 DEF Timed

LEMMA Returning ==
    ASSUME NEW n \in Nat, NEW rel \in -128 .. 127
    PROVE  (((n + rel) % 65536) - rel) % 65536 = n % 65536
OBVIOUS

LEMMA BranchTimed ==
    ASSUME TypeOK, NEW op \in Branches, NEW lo \in Byte, Branch(op, lo)
    PROVE  Timed
<1> DEFINE rel  == Signed(lo)
           next == (pc + 2) % 65536
           new  == (pc + 2 + IF Taken(op) THEN rel ELSE 0) % 65536
<1>1. /\ group = "flow" /\ did'.op = op /\ pc' = new
      /\ did'.cycles = GetBranchCycle(Taken(op), new, rel)
    BY DEF Branch, FlowsTo, Did
<1>2. did'.cycles = 2 + Flag(Taken(op)) + Flag(Taken(op) /\ Page(new) # Page((new - rel) % 65536))
    BY <1>1 DEF GetBranchCycle
<1>3. CASE Taken(op)
  <2>1. rel \in -128 .. 127 /\ pc + 2 \in Nat
      BY DEF Signed, Byte, TypeOK
  <2>2. new = (pc + 2 + rel) % 65536
      BY <1>3
  <2> HIDE DEF rel
  <2>3. (new - rel) % 65536 = next
      BY <2>1, <2>2, Returning
  <2> HIDE DEF new, next
  <2>4. did'.cycles = 2 + Flag(Taken(op)) + Flag(Page(pc') # Page(next))
      BY <1>1, <1>2, <1>3, <2>3 DEF Flag
  <2> QED
      BY <1>1, <2>4 DEF Timed, next
<1>4. CASE ~Taken(op)
  <2>1. new = next
      BY <1>4 DEF TypeOK
  <2> HIDE DEF new, next
  <2>2. did'.cycles = 2 + Flag(Taken(op)) + Flag(Page(pc') # Page(next))
      BY <1>1, <1>2, <1>4, <2>1 DEF Flag
  <2> QED
      BY <1>1, <2>2 DEF Timed, next
<1> QED
    BY <1>3, <1>4

LEMMA StepTimed == TypeOK /\ Next => Timed \/ UNCHANGED vars
<1> SUFFICES ASSUME TypeOK, Next PROVE Timed \/ UNCHANGED vars
    OBVIOUS
<1>1. SomeRead => Timed
    BY ReadTimed, Zenon DEF SomeRead
<1>2. SomeStore => Timed
    BY StoreTimed, Zenon DEF SomeStore
<1>3. SomeModify => Timed
    BY ModifyTimed, Zenon DEF SomeModify
<1>4. SomeNoOperand => Timed
  <2>1. SomeNoOperand => did'.op \in Implied /\ did'.mode = "imp" /\ did'.cycles = 2
      BY DEF SomeNoOperand, NoOperand, Did
  <2> QED
      BY <2>1, Kinds DEF Timed, BusTime
<1>5. SomeBranch => Timed
    BY BranchTimed, Zenon DEF SomeBranch
<1>6. (\/ SomeJmp \/ SomeJsr \/ SomeHalt
       \/ RTS \/ RTI \/ PHA \/ PHP \/ PLA \/ PLP \/ NMI) => Timed
  <2>1. SomeJmp \/ SomeJsr => group = "flow" /\ did'.op \in {"JMP", "JSR"}
      BY DEF SomeJmp, SomeJsr, JMP, JSR, FlowsTo, Did
  <2>2. SomeHalt => group = "flow" /\ did'.op \in Others
      BY DEF SomeHalt, Halt, Flows, FlowsTo, Did, Others
  <2>3. (RTS \/ RTI \/ PHA \/ PHP \/ PLA \/ PLP \/ NMI) => group = "flow" /\ did'.op \in Others
      BY DEF RTS, RTI, PHA, PHP, PLA, PLP, NMI, Flows, FlowsTo, Did, Others
  <2>4. \A op \in Others \cup {"JMP", "JSR"} : op \notin Branches
      BY Kinds
  <2> QED
      BY <2>1, <2>2, <2>3, <2>4 DEF Timed
<1> QED
    BY <1>1, <1>2, <1>3, <1>4, <1>5, <1>6, NextCases, Zenon

(* An operand instruction is timed as the sum of its bus accesses and a    *)
(* branch by whether it leaves its page, wherever in memory it stands,     *)
(* although the code looks both up in tables by mode.                      *)
THEOREM TimingCorrect == Spec => TimingIsBusTime
<1>1. TypeOK /\ [Next]_vars => [Timed]_vars
    BY StepTimed
<1>2. TimingIsBusTime <=> [][Timed]_vars
    BY DEF TimingIsBusTime, Timed
<1> QED
    BY <1>1, <1>2, TypeCorrect, PTL DEF Spec

-----------------------------------------------------------------------------
(* Where an armed stop at an infinite loop stops.                          *)

(* A taken branch stops an armed CPU exactly when it is one to itself; a   *)
(* JMP to itself, the other loop the comment at nes_cpu.h:604 names, never *)
(* does (nes_cpu::branch and nes_cpu::JMP).                                *)
LoopStop ==
    /\ armed /\ did'.op \in Branches /\ Taken(did'.op) => (stop' <=> pc' = pc)
    /\ armed /\ did'.op = "JMP" /\ pc' = pc => ~stop'

StopsAtSelfBranch == [][LoopStop]_vars

LEMMA SelfBranch ==
    ASSUME NEW p \in Nat, p < 65536, NEW rel \in -128 .. 127
    PROVE  (p + 2 + rel) % 65536 = p <=> rel = -2
<1>1. CASE p + 2 + rel < 0
  <2>1. (p + 2 + rel) % 65536 = p + 2 + rel + 65536
      BY <1>1
  <2> QED
      BY <2>1
<1>2. CASE p + 2 + rel >= 0 /\ p + 2 + rel < 65536
  <2>1. (p + 2 + rel) % 65536 = p + 2 + rel
      BY <1>2
  <2> QED
      BY <2>1
<1>3. CASE p + 2 + rel >= 65536
  <2>1. (p + 2 + rel) % 65536 = (p + 2 + rel) - 65536
      BY <1>3
  <2> QED
      BY <2>1
<1> QED
    BY <1>1, <1>2, <1>3

LEMMA BranchLoop ==
    ASSUME TypeOK, NEW op \in Branches, NEW lo \in Byte, Branch(op, lo)
    PROVE  LoopStop
<1>1. did'.op = op /\ op # "JMP"
    BY Kinds DEF Branch, FlowsTo, Did, Branches
<1> DEFINE rel   == Signed(lo)
           loops == Taken(op) /\ rel = -2 /\ armed
<1>2. ASSUME armed, Taken(op) PROVE (stop' = TRUE) <=> pc' = pc
  <2>1. pc' = (pc + 2 + rel) % 65536
      BY <1>2 DEF Branch
  <2>2. pc \in Nat /\ pc < 65536 /\ rel \in -128 .. 127
      BY DEF TypeOK, Signed, Byte
  <2>3. (stop' = TRUE) <=> rel = -2
    <3>1. stop' = loops
        BY DEF Branch
    <3>2. loops <=> rel = -2
        BY <1>2, Zenon
    <3>3. loops \in BOOLEAN
        BY DEF TypeOK
    <3> HIDE DEF loops, rel
    <3> QED
        BY <3>1, <3>2, <3>3
  <2> HIDE DEF rel
  <2>4. (pc + 2 + rel) % 65536 = pc <=> rel = -2
      BY <2>2, SelfBranch
  <2> QED
      BY <2>1, <2>3, <2>4
<1>3. stop' \in BOOLEAN
    BY BranchTypes DEF TypeOK
<1>4. armed /\ Taken(op) => (stop' <=> pc' = pc)
    BY <1>2, <1>3
<1> QED
    BY <1>1, <1>4, Zenon DEF LoopStop

LEMMA JmpLoop ==
    ASSUME TypeOK, NEW mode, NEW w, JMP(mode, w)
    PROVE  LoopStop
<1>1. did'.op = "JMP" /\ "JMP" \notin Branches
    BY DEF JMP, FlowsTo, Did, Branches
<1> DEFINE next  == ((pc + 3) % 65536) - 1
           loops == armed /\ pc' = next
<1>2. stop' = loops
    BY DEF JMP
<1>3. loops \in BOOLEAN
    BY DEF TypeOK
<1>4. pc # next
    BY DEF TypeOK
<1> HIDE DEF next
<1>5. pc' = pc => ~loops
    BY <1>4
<1> HIDE DEF loops
<1>6. pc' = pc => ~stop'
    BY <1>2, <1>3, <1>5
<1>7. ~(did'.op \in Branches)
    BY <1>1
<1> QED
    BY <1>6, <1>7, Zenon DEF LoopStop

LEMMA OtherLoop ==
    ASSUME did'.op \notin Branches \cup {"JMP"}
    PROVE  LoopStop
BY DEF LoopStop

LEMMA StepLoop == TypeOK /\ Next => LoopStop \/ UNCHANGED vars
<1> SUFFICES ASSUME TypeOK, Next PROVE LoopStop \/ UNCHANGED vars
    OBVIOUS
<1>1. SomeRead \/ SomeStore \/ SomeModify => LoopStop
  <2>1. SomeRead => did'.op \in Reads
      BY Kinds DEF SomeRead, Read, Did
  <2>2. SomeStore => did'.op \in Stores
      BY Kinds DEF SomeStore, Store, Did
  <2>3. SomeModify => did'.op \in Modifies
      BY Kinds DEF SomeModify, Modify, Did
  <2>4. \A op \in Reads \cup Stores \cup Modifies : op \notin Branches \cup {"JMP"}
      BY Kinds
  <2> QED
      BY <2>1, <2>2, <2>3, <2>4, OtherLoop, Zenon
<1>2. SomeNoOperand => LoopStop
  <2>1. SomeNoOperand => did'.op \in Implied
      BY DEF SomeNoOperand, NoOperand, Did
  <2>2. \A op \in Implied : op \notin Branches \cup {"JMP"}
      BY Kinds
  <2> QED
      BY <2>1, <2>2, OtherLoop
<1>3. SomeBranch => LoopStop
    BY BranchLoop, Zenon DEF SomeBranch
<1>4. SomeJmp => LoopStop
    BY JmpLoop, Zenon DEF SomeJmp
<1>5. SomeJsr => LoopStop
  <2>1. SomeJsr => did'.op = "JSR"
      BY DEF SomeJsr, JSR, FlowsTo, Did
  <2> QED
      BY <2>1, OtherLoop DEF Branches
<1>6. SomeHalt \/ RTS \/ RTI \/ PHA \/ PHP \/ PLA \/ PLP \/ NMI => LoopStop
  <2>1. SomeHalt => did'.op \in Others
      BY DEF SomeHalt, Halt, Flows, FlowsTo, Did, Others
  <2>2. (RTS \/ RTI \/ PHA \/ PHP \/ PLA \/ PLP \/ NMI) => did'.op \in Others
      BY DEF RTS, RTI, PHA, PHP, PLA, PLP, NMI, Flows, FlowsTo, Did, Others
  <2>3. \A op \in Others : op \notin Branches \cup {"JMP"}
      BY DEF Others, Branches
  <2> QED
      BY <2>1, <2>2, <2>3, OtherLoop, Zenon
<1> QED
    BY <1>1, <1>2, <1>3, <1>4, <1>5, <1>6, NextCases, Zenon

(* The stop that tests arm at a loop is right of branches and never comes  *)
(* at a jump, wherever in memory they stand.                               *)
THEOREM LoopStopLimits == Spec => StopsAtSelfBranch
<1>1. TypeOK /\ [Next]_vars => [LoopStop]_vars
    BY StepLoop
<1> QED
    BY <1>1, TypeCorrect, PTL DEF Spec, StopsAtSelfBranch

=============================================================================
