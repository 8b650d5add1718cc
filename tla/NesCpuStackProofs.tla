------------------------- MODULE NesCpuStackProofs -------------------------
(***************************************************************************)
(* That calls and interrupts of NesCpu return, proved for programs of any  *)
(* length, any nesting of calls, interrupts, pushes and pulls, and stacks  *)
(* that wrap anywhere in their page.                                       *)
(***************************************************************************)
EXTENDS NesCpuProofs

(* Where the k-th byte of the stack is, counted from where the stack       *)
(* began, b: no push, pull, call or return moves that place.               *)
Place(b, k) == 256 + ((b - k) % 256)
Bottom == (reg.S + depth) % 256

(* What is on the stack of an open call or interrupt.                      *)
CallIn(f, m, b) ==
    /\ f.ret = (Word(m[Place(b, f.depth - 1)], m[Place(b, f.depth - 2)]) + 1) % 65536
    /\ f.reg.S = (b - (f.depth - 2)) % 256
NmiIn(f, m, b) ==
    /\ Place(b, f.depth - 3) \in Cells
    /\ f.ret = Word(m[Place(b, f.depth - 2)], m[Place(b, f.depth - 3)])
    /\ f.reg.S = (b - (f.depth - 3)) % 256
    /\ m[Place(b, f.depth - 1)] = Status(f.reg)
    /\ f.reg \in Registers /\ f.reg.U = 1 /\ f.reg.B = 0
FrameIn(f, m, b) ==
    /\ f.depth \in Int
    /\ Place(b, f.depth - 1) \in Cells /\ Place(b, f.depth - 2) \in Cells
    /\ f.what = "call" => CallIn(f, m, b)
    /\ f.what = "nmi"  => NmiIn(f, m, b)

(* The invariant: what each open call or interrupt needs for its return is *)
(* still on the stack, out of reach of the next push.  U and B of the      *)
(* status, which a pull does not set from the stack, are constant.         *)
StackInv ==
    /\ depth \in Int
    /\ group = "data" => frames = {}
    /\ group = "flow" => reg.U = 1 /\ reg.B = 0
    /\ \A f \in frames : /\ f.depth <= depth /\ depth < f.depth + 254
                         /\ FrameIn(f, mem, Bottom)

-----------------------------------------------------------------------------
(* Places. *)

LEMMA Wraps ==
    ASSUME NEW s \in Byte, NEW d \in Int
    PROVE  /\ (Down(s) + (d + 1)) % 256 = (s + d) % 256
           /\ (Up(s) + (d - 1)) % 256 = (s + d) % 256
<1>1. s \in Int /\ s >= 0 /\ s < 256
    BY DEF Byte
<1>2. Down(s) = (IF s = 0 THEN 255 ELSE s - 1) /\ Up(s) = (IF s = 255 THEN 0 ELSE s + 1)
    BY <1>1 DEF Down, Up
<1>3. (255 + (d + 1)) % 256 = d % 256 /\ (255 + d) % 256 = (d - 1) % 256
    BY <1>1
<1> QED
    BY <1>1, <1>2, <1>3

(* The bottom stays where it is while S and the depth move together.       *)
LEMMA BottomStays ==
    ASSUME NEW s \in Byte, NEW d \in Int
    PROVE  /\ (Down(Down(s)) + (d + 2)) % 256 = (s + d) % 256
           /\ (Down(Down(Down(s))) + (d + 3)) % 256 = (s + d) % 256
           /\ (Up(Up(s)) + (d - 2)) % 256 = (s + d) % 256
           /\ (Up(Up(Up(s))) + (d - 3)) % 256 = (s + d) % 256
<1>1. /\ Down(s) \in Byte /\ Down(Down(s)) \in Byte /\ Up(s) \in Byte /\ Up(Up(s)) \in Byte
    BY StackPointer
<1>2. /\ (Down(Down(s)) + ((d + 1) + 1)) % 256 = (Down(s) + (d + 1)) % 256
      /\ (Up(Up(s)) + ((d - 1) - 1)) % 256 = (Up(s) + (d - 1)) % 256
    BY <1>1, Wraps
<1>3. /\ (Down(Down(Down(s))) + ((d + 2) + 1)) % 256 = (Down(Down(s)) + (d + 2)) % 256
      /\ (Up(Up(Up(s))) + ((d - 2) - 1)) % 256 = (Up(Up(s)) + (d - 2)) % 256
    BY <1>1, Wraps
<1>4. (d + 1) + 1 = d + 2 /\ (d - 1) - 1 = d - 2 /\ (d + 2) + 1 = d + 3 /\ (d - 2) - 1 = d - 3
    OBVIOUS
<1> QED
    BY <1>2, <1>3, <1>4, Wraps

(* S + i is the place of byte d - i.                                       *)
PlaceIs(s, d, i) == Place((s + d) % 256, d - i) = 256 + ((s + i) % 256)

LEMMA PlaceOfS ==
    ASSUME NEW s \in Byte, NEW d \in Int, NEW i \in Int
    PROVE  PlaceIs(s, d, i)
<1>1. s \in Int
    BY DEF Byte
<1>2. \A z \in Int : ((z % 256) - (d - i)) % 256 = (z - (d - i)) % 256
    OBVIOUS
<1>3. s + d \in Int /\ (s + d) - (d - i) = s + i
    BY <1>1
<1>4. (((s + d) % 256) - (d - i)) % 256 = (s + i) % 256
    BY <1>2, <1>3
<1> QED
    BY <1>4 DEF Place, PlaceIs

LEMMA Apart ==
    ASSUME NEW b \in Int, NEW k \in Int, NEW l \in Int, l < k, k < l + 256
    PROVE  Place(b, k) # Place(b, l)
<1>1. (b - k) % 256 # (b - l) % 256
    OBVIOUS
<1>2. (b - k) % 256 \in Int /\ (b - l) % 256 \in Int
    OBVIOUS
<1> QED
    BY <1>1, <1>2 DEF Place

-----------------------------------------------------------------------------
(* What a step leaves alone. *)

(* A frame whose cells keep their bytes is still there.                    *)
LEMMA FrameKept ==
    ASSUME NEW f, NEW m, NEW q, NEW b \in Int, FrameIn(f, m, b),
           \A i \in 1 .. 3 : Place(b, f.depth - i) \in Cells
                                 => q[Place(b, f.depth - i)] = m[Place(b, f.depth - i)]
    PROVE  FrameIn(f, q, b)
<1>1. /\ q[Place(b, f.depth - 1)] = m[Place(b, f.depth - 1)]
      /\ q[Place(b, f.depth - 2)] = m[Place(b, f.depth - 2)]
      /\ Place(b, f.depth - 3) \in Cells => q[Place(b, f.depth - 3)] = m[Place(b, f.depth - 3)]
    BY DEF FrameIn
<1>2. CallIn(f, m, b) => CallIn(f, q, b)
    BY <1>1 DEF CallIn
<1>3. NmiIn(f, m, b) => NmiIn(f, q, b)
    BY <1>1 DEF NmiIn
<1> QED
    BY <1>2, <1>3 DEF FrameIn

(* What has n bytes more on the stack, or fewer, has the frames that are   *)
(* still open, if their cells keep their bytes.                            *)
LEMMA AfterMove ==
    ASSUME StackInv, NEW n \in Int, Moved(n), group' = group, group = "flow",
           reg'.U = 1, reg'.B = 0, Bottom' = Bottom,
           \A f \in OpenAt(depth + n) : FrameIn(f, mem', Bottom)
    PROVE  StackInv'
<1>1. depth' = depth + n /\ frames' = OpenAt(depth + n) /\ depth' \in Int
    BY DEF Moved, StackInv
<1>2. \A f \in frames' : /\ f.depth <= depth' /\ depth' < f.depth + 254
                          /\ FrameIn(f, mem', Bottom')
    BY <1>1 DEF OpenAt
<1> QED
    BY <1>1, <1>2 DEF StackInv

-----------------------------------------------------------------------------
(* The status on the stack. *)

LEMMA StatusBits ==
    ASSUME NEW r \in Registers
    PROVE  /\ Bit(Status(r), 0) = r.C /\ Bit(Status(r), 1) = r.Z /\ Bit(Status(r), 2) = r.I
           /\ Bit(Status(r), 3) = r.D /\ Bit(Status(r), 6) = r.V /\ Bit(Status(r), 7) = r.N
<1>1. /\ r.C \in {0, 1} /\ r.Z \in {0, 1} /\ r.I \in {0, 1} /\ r.D \in {0, 1}
      /\ r.B \in {0, 1} /\ r.U \in {0, 1} /\ r.V \in {0, 1} /\ r.N \in {0, 1}
    BY RegisterTypes
<1>2. 2 ^ 0 = 1 /\ 2 ^ 1 = 2 /\ 2 ^ 2 = 4 /\ 2 ^ 3 = 8 /\ 2 ^ 6 = 64 /\ 2 ^ 7 = 128
    OBVIOUS
<1>3. Bit(Status(r), 0) = r.C
    BY <1>1, <1>2 DEF Status, Bit
<1>4. Bit(Status(r), 1) = r.Z
    BY <1>1, <1>2 DEF Status, Bit
<1>5. Bit(Status(r), 2) = r.I
    BY <1>1, <1>2 DEF Status, Bit
<1>6. Bit(Status(r), 3) = r.D
    BY <1>1, <1>2 DEF Status, Bit
<1>7. Bit(Status(r), 6) = r.V
    BY <1>1, <1>2 DEF Status, Bit
<1>8. Bit(Status(r), 7) = r.N
    BY <1>1, <1>2 DEF Status, Bit
<1> QED
    BY <1>3, <1>4, <1>5, <1>6, <1>7, <1>8

(* What a pull of the status sets, and what it does not.                   *)
LEMMA StatusSet ==
    ASSUME NEW r \in Registers, NEW b \in Byte
    PROVE  LET q == SetStatus(r, b)
           IN  /\ q.S = r.S /\ q.U = 1 /\ q.B = r.B
               /\ q.C = Bit(b, 0) /\ q.Z = Bit(b, 1) /\ q.I = Bit(b, 2) /\ q.D = Bit(b, 3)
               /\ q.V = Bit(b, 6) /\ q.N = Bit(b, 7)
<1> DEFINE q == SetStatus(r, b)
<1>1. q.S = r.S /\ q.U = 1 /\ q.B = r.B
    BY DEF SetStatus, Registers
<1>2. q.C = Bit(b, 0) /\ q.Z = Bit(b, 1) /\ q.I = Bit(b, 2)
    BY DEF SetStatus, Registers
<1>3. q.D = Bit(b, 3) /\ q.V = Bit(b, 6) /\ q.N = Bit(b, 7)
    BY DEF SetStatus, Registers
<1> QED
    BY <1>1, <1>2, <1>3

LEMMA StatusRestored ==
    ASSUME NEW r \in Registers, NEW p \in Registers, r.B = p.B, p.U = 1
    PROVE  Status(SetStatus(r, Status(p))) = Status(p)
<1>1. Status(p) \in Byte
    BY StatusType
<1> DEFINE b == Status(p)
           q == SetStatus(r, b)
<1>2. /\ q.U = p.U /\ q.B = p.B /\ q.C = p.C /\ q.Z = p.Z /\ q.I = p.I
      /\ q.D = p.D /\ q.V = p.V /\ q.N = p.N
  <2>1. /\ q.U = 1 /\ q.B = r.B
        /\ q.C = Bit(b, 0) /\ q.Z = Bit(b, 1) /\ q.I = Bit(b, 2) /\ q.D = Bit(b, 3)
        /\ q.V = Bit(b, 6) /\ q.N = Bit(b, 7)
      BY <1>1, StatusSet
  <2> HIDE DEF q
  <2> QED
      BY <2>1, StatusBits
<1> HIDE DEF q, b
<1>3. Status(q) = Status(p)
    BY <1>2 DEF Status
<1> QED
    BY <1>3 DEF q, b

-----------------------------------------------------------------------------
(* The steps. *)

LEMMA InitStack == Init => StackInv
<1> SUFFICES ASSUME Init PROVE StackInv
    OBVIOUS
<1>1. depth = 0 /\ frames = {} /\ reg.U = 1 /\ reg.B = 0
    BY DEF Init
<1> QED
    BY <1>1 DEF StackInv

LEMMA BottomType == ASSUME TypeOK, StackInv PROVE reg.S \in Byte /\ Bottom \in Int
<1>1. reg.S \in Byte /\ depth \in Int
    BY RegisterTypes DEF TypeOK, StackInv
<1> QED
    BY <1>1 DEF Bottom, Byte

(* A pull moves S and writes nothing.                                      *)
LEMMA Pulled ==
    ASSUME StackInv, NEW n \in {1, 2, 3}, Moved(-n), mem' = mem,
           group' = group, group = "flow", reg'.U = 1, reg'.B = 0,
           (reg'.S + (depth - n)) % 256 = Bottom
    PROVE  StackInv'
<1>1. depth + (-n) = depth - n /\ -n \in Int
    BY DEF StackInv
<1>2. Bottom' = Bottom
    BY <1>1 DEF Moved, Bottom
<1>3. \A f \in OpenAt(depth + (-n)) : FrameIn(f, mem', Bottom)
    BY DEF OpenAt, StackInv
<1> QED
    BY <1>1, <1>2, <1>3, AfterMove

(* The cells the next three bytes go to.                                   *)
LEMMA PushPlaces ==
    ASSUME TypeOK, StackInv
    PROVE  /\ 256 + reg.S = Place(Bottom, depth)
           /\ 256 + Down(reg.S) = Place(Bottom, depth + 1)
           /\ 256 + Down(Down(reg.S)) = Place(Bottom, depth + 2)
<1> DEFINE s == reg.S
<1>1. s \in Byte /\ depth \in Int
    BY BottomType DEF StackInv
<1>2. /\ Place((s + depth) % 256, depth - 0) = 256 + ((s + 0) % 256)
      /\ Place((s + depth) % 256, depth - (-1)) = 256 + ((s + (-1)) % 256)
      /\ Place((s + depth) % 256, depth - (-2)) = 256 + ((s + (-2)) % 256)
  <2>1. 0 \in Int /\ -1 \in Int /\ -2 \in Int
      OBVIOUS
  <2>2. PlaceIs(s, depth, 0) /\ PlaceIs(s, depth, -1) /\ PlaceIs(s, depth, -2)
      BY <1>1, <2>1, PlaceOfS
  <2> QED
      BY <2>2 DEF PlaceIs
<1>3. depth - 0 = depth /\ depth - (-1) = depth + 1 /\ depth - (-2) = depth + 2
    BY <1>1
<1>4. (s + 0) % 256 = s /\ (s + (-1)) % 256 = Down(s) /\ (s + (-2)) % 256 = Down(Down(s))
    BY <1>1 DEF Down, Byte
<1> HIDE DEF s
<1> QED
    BY <1>2, <1>3, <1>4 DEF Bottom, s

(* Nothing below the next n bytes is written.                              *)
WritesAbove(n) ==
    \A l \in Int : Place(Bottom, l) \in Cells /\ l < depth /\ depth + n - 1 < l + 256
                      => mem'[Place(Bottom, l)] = mem[Place(Bottom, l)]

LEMMA Survivors ==
    ASSUME TypeOK, StackInv, NEW n \in {1, 2, 3}, WritesAbove(n)
    PROVE  \A f \in OpenAt(depth + n) : FrameIn(f, mem', Bottom)
<1> SUFFICES ASSUME NEW f \in OpenAt(depth + n) PROVE FrameIn(f, mem', Bottom)
    OBVIOUS
<1>1. /\ f \in frames /\ depth + n < f.depth + 254
      /\ f.depth <= depth /\ FrameIn(f, mem, Bottom)
    BY DEF OpenAt, StackInv
<1>2. f.depth \in Int /\ depth \in Int
    BY <1>1 DEF FrameIn, StackInv
<1>3. \A i \in 1 .. 3 : /\ f.depth - i \in Int /\ f.depth - i < depth
                         /\ depth + n - 1 < (f.depth - i) + 256
    BY <1>1, <1>2
<1>4. \A i \in 1 .. 3 : Place(Bottom, f.depth - i) \in Cells
                           => mem'[Place(Bottom, f.depth - i)] = mem[Place(Bottom, f.depth - i)]
    BY <1>3 DEF WritesAbove
<1> QED
    BY <1>1, <1>4, BottomType, FrameKept

(* A push of a byte.                                                       *)
LEMMA PushedByte ==
    ASSUME TypeOK, StackInv, NEW v, Moved(1), mem' = PushByte(mem, reg.S, v),
           reg' = [reg EXCEPT !.S = Down(@)], group' = group, group = "flow"
    PROVE  StackInv'
<1>1. mem' = [mem EXCEPT ![Place(Bottom, depth)] = v]
    BY PushPlaces DEF PushByte
<1>2. WritesAbove(1)
  <2> SUFFICES ASSUME NEW l \in Int, Place(Bottom, l) \in Cells, l < depth, depth + 1 - 1 < l + 256
               PROVE  mem'[Place(Bottom, l)] = mem[Place(Bottom, l)]
      BY DEF WritesAbove
  <2>1. depth \in Int /\ depth < l + 256 /\ mem \in [Cells -> Byte]
      BY DEF StackInv, TypeOK
  <2>2. Place(Bottom, depth) # Place(Bottom, l)
      BY <2>1, BottomType, Apart
  <2> QED
      BY <1>1, <2>1, <2>2
<1>3. \A f \in OpenAt(depth + 1) : FrameIn(f, mem', Bottom)
    BY <1>2, Survivors
<1>4. reg'.U = 1 /\ reg'.B = 0 /\ reg'.S = Down(reg.S)
    BY DEF StackInv, TypeOK, Registers
<1>5. depth' = depth + 1
    BY DEF Moved
<1>6. Bottom' = Bottom
    BY <1>4, <1>5, BottomType, Wraps DEF Bottom, StackInv
<1> QED
    BY <1>3, <1>4, <1>6, AfterMove

(* A call or an interrupt pushes what its return needs.                    *)
LEMMA AfterOpening ==
    ASSUME StackInv, NEW n \in {2, 3}, NEW what, NEW ret, Opened(what, n, ret),
           group' = group, group = "flow", reg'.U = 1, reg'.B = 0, Bottom' = Bottom,
           \A f \in OpenAt(depth + n) : FrameIn(f, mem', Bottom),
           FrameIn([what |-> what, depth |-> depth + n, ret |-> ret, reg |-> reg], mem', Bottom)
    PROVE  StackInv'
<1> DEFINE new == [what |-> what, depth |-> depth + n, ret |-> ret, reg |-> reg]
<1>1. depth' = depth + n /\ frames' = OpenAt(depth + n) \cup {new} /\ depth' \in Int
    BY DEF Opened, StackInv
<1>2. new.depth = depth'
    BY <1>1
<1>3. FrameIn(new, mem', Bottom)
    OBVIOUS
<1> HIDE DEF new
<1>4. \A f \in OpenAt(depth + n) : f.depth <= depth' /\ depth' < f.depth + 254
    BY <1>1 DEF OpenAt
<1>5. \A f \in frames' : /\ f.depth <= depth' /\ depth' < f.depth + 254
                          /\ FrameIn(f, mem', Bottom')
    BY <1>1, <1>2, <1>3, <1>4
<1> QED
    BY <1>1, <1>5 DEF StackInv

(* The cells of a word pushed, and what else changes.                      *)
LEMMA PushedWord ==
    ASSUME TypeOK, StackInv, NEW w \in Nat, w < 65536, RoomFor(2)
    PROVE  LET m == PushWord(mem, reg.S, w)
           IN  /\ m \in [Cells -> Byte]
               /\ Place(Bottom, depth) \in Cells /\ Place(Bottom, depth + 1) \in Cells
               /\ m[Place(Bottom, depth)] = Page(w) /\ m[Place(Bottom, depth + 1)] = w % 256
               /\ \A l \in Int : Place(Bottom, l) \in Cells /\ l < depth /\ depth + 1 < l + 256
                                   => m[Place(Bottom, l)] = mem[Place(Bottom, l)]
<1> DEFINE b == Bottom
           m1 == [mem EXCEPT ![Place(b, depth)] = Page(w)]
           m == PushWord(mem, reg.S, w)
<1>1. m = [m1 EXCEPT ![Place(b, depth + 1)] = w % 256]
  <2> DEFINE s == reg.S
             here == 256 + s
             next == 256 + Down(s)
             low  == w % 256
  <2>1. here = Place(b, depth) /\ next = Place(b, depth + 1)
      BY PushPlaces
  <2>2. m = [[mem EXCEPT ![here] = Page(w)] EXCEPT ![next] = low]
      BY DEF PushWord, PushByte
  <2> HIDE DEF m, here, next, b
  <2> QED
      BY <2>1, <2>2
<1>2. Page(w) \in Byte /\ w % 256 \in Byte /\ mem \in [Cells -> Byte] /\ b \in Int /\ depth \in Int
    BY PageType, BottomType DEF TypeOK, StackInv
<1>3. m1 \in [Cells -> Byte]
    BY <1>2, MemoryType
<1>4. m \in [Cells -> Byte]
    BY <1>1, <1>2, <1>3, MemoryType
<1>5. Place(b, depth) \in Cells /\ Place(b, depth + 1) \in Cells
  <2>1. 256 + ((reg.S - 0) % 256) \in Cells /\ 256 + ((reg.S - 1) % 256) \in Cells
      BY DEF RoomFor
  <2>2. (reg.S - 0) % 256 = reg.S
      BY BottomType DEF Byte
  <2> QED
      BY <2>1, <2>2, PushPlaces DEF Down
<1>6. m[Place(b, depth + 1)] = w % 256
    BY <1>1, <1>3, <1>5
<1>7. \A l \in Int : Place(b, l) \in Cells /\ l < depth + 1 /\ depth + 1 < l + 256
                      => m[Place(b, l)] = m1[Place(b, l)]
  <2> SUFFICES ASSUME NEW l \in Int, Place(b, l) \in Cells, l < depth + 1, depth + 1 < l + 256
               PROVE  m[Place(b, l)] = m1[Place(b, l)]
      OBVIOUS
  <2>1. Place(b, depth + 1) # Place(b, l)
    <3>1. depth + 1 \in Int
        BY <1>2
    <3> QED
        BY <3>1, <1>2, Apart
  <2> HIDE DEF m, m1, b
  <2> QED
      BY <1>1, <1>3, <2>1
<1>8. m[Place(b, depth)] = Page(w)
  <2>1. m[Place(b, depth)] = m1[Place(b, depth)]
      BY <1>2, <1>5, <1>7
  <2> QED
      BY <2>1, <1>2, <1>5
<1>9. \A l \in Int : Place(b, l) \in Cells /\ l < depth /\ depth + 1 < l + 256
                      => m[Place(b, l)] = mem[Place(b, l)]
  <2> SUFFICES ASSUME NEW l \in Int, Place(b, l) \in Cells, l < depth, depth + 1 < l + 256
               PROVE  m[Place(b, l)] = mem[Place(b, l)]
      OBVIOUS
  <2>1. m[Place(b, l)] = m1[Place(b, l)]
      BY <1>2, <1>7
  <2>2. m1[Place(b, l)] = mem[Place(b, l)]
    <3>1. depth < l + 256
        BY <1>2
    <3>2. Place(b, depth) # Place(b, l)
        BY <3>1, <1>2, Apart
    <3> QED
        BY <3>2, <1>2
  <2> QED
      BY <2>1, <2>2
<1> QED
    BY <1>4, <1>5, <1>6, <1>8, <1>9

LEMMA WordOf == ASSUME NEW w \in Nat, w < 65536 PROVE Word(w % 256, Page(w)) = w
BY DEF Word, Page

(* S is where the next byte goes.                                          *)
LEMMA SOfDepth == ASSUME TypeOK, StackInv PROVE reg.S = (Bottom - depth) % 256
<1>1. reg.S \in Int /\ (Bottom - depth) % 256 \in Int
    BY BottomType DEF Byte, StackInv
<1> QED
    BY <1>1, PushPlaces DEF Place

LEMMA Called == ASSUME TypeOK, StackInv, NEW w, JSR(w) PROVE StackInv'
<1> DEFINE new == [what |-> "call", depth |-> depth + 2, ret |-> (pc + 3) % 65536, reg |-> reg]
           m == PushWord(mem, reg.S, ReturnAddress)
<1>1. /\ Opened("call", 2, (pc + 3) % 65536) /\ RoomFor(2) /\ mem' = m
      /\ reg' = [reg EXCEPT !.S = Down(Down(@))] /\ group' = group /\ group = "flow"
    BY DEF JSR, FlowsTo
<1>2. /\ ReturnAddress \in Nat /\ ReturnAddress < 65536
      /\ (ReturnAddress + 1) % 65536 = (pc + 3) % 65536
    BY DEF ReturnAddress, TypeOK
<1>3. /\ Place(Bottom, depth) \in Cells /\ Place(Bottom, depth + 1) \in Cells
      /\ m[Place(Bottom, depth)] = Page(ReturnAddress)
      /\ m[Place(Bottom, depth + 1)] = ReturnAddress % 256
      /\ \A l \in Int : Place(Bottom, l) \in Cells /\ l < depth /\ depth + 1 < l + 256
                          => m[Place(Bottom, l)] = mem[Place(Bottom, l)]
    BY <1>1, <1>2, PushedWord
<1> HIDE DEF m
<1>4. depth \in Int /\ depth + 2 - 1 = depth + 1 /\ (depth + 2) - 1 = depth + 1 /\ (depth + 2) - 2 = depth
    BY DEF StackInv
<1>5. WritesAbove(2)
    BY <1>1, <1>3, <1>4 DEF WritesAbove
<1>6. FrameIn(new, mem', Bottom)
  <2>1. new.depth = depth + 2 /\ new.what = "call" /\ new.reg = reg /\ new.ret = (pc + 3) % 65536
      OBVIOUS
  <2>2. new.depth - 1 = depth + 1 /\ new.depth - 2 = depth /\ new.depth \in Int
      BY <2>1, <1>4
  <2> HIDE DEF new
  <2>3. CallIn(new, mem', Bottom)
      BY <2>1, <2>2, <1>1, <1>2, <1>3, WordOf, SOfDepth DEF CallIn
  <2> QED
      BY <2>1, <2>2, <2>3, <1>3 DEF FrameIn
<1>7. reg'.U = 1 /\ reg'.B = 0 /\ reg'.S = Down(Down(reg.S))
    BY <1>1 DEF StackInv, TypeOK, Registers
<1>8. Bottom' = Bottom
  <2>1. depth' = depth + 2
      BY <1>1 DEF Opened
  <2> QED
      BY <1>7, <2>1, BottomType, BottomStays DEF Bottom, StackInv
<1>9. \A f \in OpenAt(depth + 2) : FrameIn(f, mem', Bottom)
    BY <1>5, Survivors
<1> QED
    BY <1>1, <1>6, <1>7, <1>8, <1>9, AfterOpening

LEMMA SameStatus ==
    ASSUME TypeOK, StackInv, group = "flow"
    PROVE  /\ reg.U = 1 /\ reg.B = 0 /\ reg \in Registers
           /\ Status([reg EXCEPT !.U = 1]) = Status(reg)
<1>1. reg.U = 1 /\ reg.B = 0 /\ reg \in Registers
    BY DEF StackInv, TypeOK
<1>2. [reg EXCEPT !.U = 1] = reg
    BY <1>1 DEF Registers
<1> QED
    BY <1>1, <1>2

LEMMA Interrupted == ASSUME TypeOK, StackInv, NMI PROVE StackInv'
<1> DEFINE new == [what |-> "nmi", depth |-> depth + 3, ret |-> pc, reg |-> reg]
           m == PushWord(mem, reg.S, pc)
           p == Status([reg EXCEPT !.U = 1])
<1>1. /\ Opened("nmi", 3, pc) /\ RoomFor(3) /\ group' = group /\ group = "flow"
      /\ mem' = PushByte(m, Down(Down(reg.S)), p)
      /\ reg' = [reg EXCEPT !.S = Down(Down(Down(@)))]
    BY DEF NMI, Flows, FlowsTo
<1>2. pc \in Nat /\ pc < 65536 /\ RoomFor(2)
    BY <1>1 DEF TypeOK, RoomFor
<1>3. p = Status(reg) /\ reg.U = 1 /\ reg.B = 0 /\ reg \in Registers
    BY <1>1, SameStatus
<1>4. /\ m \in [Cells -> Byte]
      /\ Place(Bottom, depth) \in Cells /\ Place(Bottom, depth + 1) \in Cells
      /\ m[Place(Bottom, depth)] = Page(pc)
      /\ m[Place(Bottom, depth + 1)] = pc % 256
      /\ \A l \in Int : Place(Bottom, l) \in Cells /\ l < depth /\ depth + 1 < l + 256
                          => m[Place(Bottom, l)] = mem[Place(Bottom, l)]
    BY <1>2, PushedWord
<1>5. mem' = [m EXCEPT ![Place(Bottom, depth + 2)] = p]
  <2> HIDE DEF m, p
  <2> QED
      BY <1>1, PushPlaces DEF PushByte
<1>6. Place(Bottom, depth + 2) \in Cells
  <2>1. 256 + ((reg.S - 2) % 256) \in Cells
      BY <1>1 DEF RoomFor
  <2>2. (reg.S - 2) % 256 = Down(Down(reg.S))
      BY BottomType DEF Down, Byte
  <2> QED
      BY <2>1, <2>2, PushPlaces
<1> HIDE DEF m, p
<1>7. depth \in Int /\ Bottom \in Int
    BY BottomType DEF StackInv
<1>8. \A l \in Int : Place(Bottom, l) \in Cells /\ l < depth + 2 /\ depth + 2 < l + 256
                      => mem'[Place(Bottom, l)] = m[Place(Bottom, l)]
  <2> SUFFICES ASSUME NEW l \in Int, Place(Bottom, l) \in Cells, l < depth + 2, depth + 2 < l + 256
               PROVE  mem'[Place(Bottom, l)] = m[Place(Bottom, l)]
      OBVIOUS
  <2>1. Place(Bottom, depth + 2) # Place(Bottom, l)
    <3>1. depth + 2 \in Int
        BY <1>7
    <3> QED
        BY <3>1, <1>7, Apart
  <2> QED
      BY <2>1, <1>4, <1>5
<1>9. /\ mem'[Place(Bottom, depth)] = Page(pc) /\ mem'[Place(Bottom, depth + 1)] = pc % 256
      /\ mem'[Place(Bottom, depth + 2)] = p
    BY <1>4, <1>5, <1>6, <1>7, <1>8
<1>10. WritesAbove(3)
  <2> SUFFICES ASSUME NEW l \in Int, Place(Bottom, l) \in Cells, l < depth, depth + 3 - 1 < l + 256
               PROVE  mem'[Place(Bottom, l)] = mem[Place(Bottom, l)]
      BY DEF WritesAbove
  <2>1. l < depth + 2 /\ depth + 2 < l + 256 /\ depth + 1 < l + 256
      BY <1>7
  <2> QED
      BY <2>1, <1>4, <1>8
<1>11. FrameIn(new, mem', Bottom)
  <2>1. new.depth = depth + 3 /\ new.what = "nmi" /\ new.reg = reg /\ new.ret = pc
      OBVIOUS
  <2>2. /\ new.depth - 1 = depth + 2 /\ new.depth - 2 = depth + 1 /\ new.depth - 3 = depth
        /\ new.depth \in Int
      BY <2>1, <1>7
  <2> HIDE DEF new
  <2>3. NmiIn(new, mem', Bottom)
      BY <2>1, <2>2, <1>2, <1>3, <1>4, <1>9, WordOf, SOfDepth DEF NmiIn
  <2> QED
      BY <2>1, <2>2, <2>3, <1>4, <1>6 DEF FrameIn
<1>12. reg'.U = 1 /\ reg'.B = 0 /\ reg'.S = Down(Down(Down(reg.S)))
    BY <1>1, <1>3 DEF Registers
<1>13. Bottom' = Bottom
  <2>1. depth' = depth + 3
      BY <1>1 DEF Opened
  <2> QED
      BY <1>7, <1>12, <2>1, BottomType, BottomStays DEF Bottom
<1>14. \A f \in OpenAt(depth + 3) : FrameIn(f, mem', Bottom)
    BY <1>10, Survivors
<1> QED
    BY <1>1, <1>11, <1>12, <1>13, <1>14, AfterOpening

(* Pulls and returns.                                                      *)
LEMMA Returned ==
    ASSUME TypeOK, StackInv, RTS \/ RTI \/ PLA \/ PLP
    PROVE  StackInv'
<1> DEFINE s == reg.S
           r1 == [reg EXCEPT !.S = Up(@)]
           r3 == [reg EXCEPT !.S = Up(Up(Up(@)))]
<1>1. s \in Byte /\ depth \in Int /\ reg \in Registers
    BY BottomType DEF StackInv, TypeOK
<1>2. /\ (Up(s) + (depth - 1)) % 256 = Bottom
      /\ (Up(Up(s)) + (depth - 2)) % 256 = Bottom
      /\ (Up(Up(Up(s))) + (depth - 3)) % 256 = Bottom
    BY <1>1, Wraps, BottomStays DEF Bottom
<1>3. /\ r1 \in Registers /\ r1.S = Up(s) /\ r1.U = reg.U /\ r1.B = reg.B
      /\ r3 \in Registers /\ r3.S = Up(Up(Up(s))) /\ r3.U = reg.U /\ r3.B = reg.B
  <2>1. r1 \in Registers /\ r3 \in Registers
      BY StackTypes
  <2>2. r1.S = Up(s) /\ r1.U = reg.U /\ r1.B = reg.B
      BY <1>1 DEF Registers
  <2>3. r3.S = Up(Up(Up(s))) /\ r3.U = reg.U /\ r3.B = reg.B
      BY <1>1 DEF Registers
  <2> QED
      BY <2>1, <2>2, <2>3
<1>4. group = "flow" /\ group' = group /\ mem' = mem /\ reg.U = 1 /\ reg.B = 0
  <2>1. group = "flow" /\ group' = group /\ mem' = mem
    <3>1. CASE RTS
        BY <3>1 DEF RTS, Flows, FlowsTo
    <3>2. CASE RTI
        BY <3>2 DEF RTI, Flows, FlowsTo
    <3>3. CASE PLA
        BY <3>3 DEF PLA, Flows, FlowsTo
    <3>4. CASE PLP
        BY <3>4 DEF PLP, Flows, FlowsTo
    <3> QED
        BY <3>1, <3>2, <3>3, <3>4
  <2> QED
      BY <2>1 DEF StackInv
<1>5. CASE RTS
  <2>1. reg'.S = Up(Up(s)) /\ reg'.U = 1 /\ reg'.B = 0 /\ Moved(-2)
      BY <1>1, <1>4, <1>5 DEF RTS, Registers
  <2> QED
      BY <2>1, <1>2, <1>4, Pulled
<1>6. CASE RTI
  <2>1. reg' = SetStatus(r3, PopByte(reg.S)) /\ PopByte(reg.S) \in Byte /\ Moved(-3)
      BY <1>6, PopTypes DEF RTI
  <2> HIDE DEF r3
  <2>2. reg'.S = Up(Up(Up(s))) /\ reg'.U = 1 /\ reg'.B = 0
      BY <2>1, <1>3, <1>4, StatusSet
  <2> QED
      BY <2>1, <2>2, <1>2, <1>4, Pulled
<1>7. CASE PLA
  <2>1. reg' = SetA(r1, PopByte(reg.S)) /\ PopByte(reg.S) \in Byte /\ 0 \in {0, 1} /\ Moved(-1)
      BY <1>7, PopTypes DEF PLA
  <2> HIDE DEF r1
  <2>2. reg'.S = Up(s) /\ reg'.U = 1 /\ reg'.B = 0
    <3> DEFINE v == PopByte(reg.S)
               q == [r1 EXCEPT !.A = v]
    <3>1. q.S = r1.S /\ q.U = r1.U /\ q.B = r1.B
        BY <1>3 DEF Registers
    <3>2. q \in Registers
        BY <1>3, <2>1, FieldTypes
    <3>3. reg' = [q EXCEPT !.Z = Flag(v = 0), !.N = Bit(v, 7)]
        BY <2>1 DEF SetA, CalcAluFlag
    <3> HIDE DEF q, v
    <3>4. reg'.S = q.S /\ reg'.U = q.U /\ reg'.B = q.B
        BY <3>2, <3>3 DEF Registers
    <3> QED
        BY <3>1, <3>4, <1>3, <1>4
  <2> QED
      BY <2>1, <2>2, <1>2, <1>4, Pulled
<1>8. CASE PLP
  <2>1. reg' = SetStatus(r1, PopByte(reg.S)) /\ PopByte(reg.S) \in Byte /\ Moved(-1)
      BY <1>8, PopTypes DEF PLP
  <2> HIDE DEF r1
  <2>2. reg'.S = Up(s) /\ reg'.U = 1 /\ reg'.B = 0
      BY <2>1, <1>3, <1>4, StatusSet
  <2> QED
      BY <2>1, <2>2, <1>2, <1>4, Pulled
<1> QED
    BY <1>5, <1>6, <1>7, <1>8

(* Everything else leaves the stack alone, or gives it up.                 *)
LEMMA Elsewhere ==
    ASSUME TypeOK, StackInv,
           SomeRead \/ SomeStore \/ SomeModify \/ SomeNoOperand \/ SomeBranch \/ SomeJmp \/ SomeHalt
    PROVE  StackInv'
<1>1. CASE SomeRead \/ SomeStore \/ SomeModify
  <2>1. group = "data" /\ group' = group /\ frames' = frames /\ depth' = depth
    <3>1. CASE SomeRead
      <4>1. PICK op, lo, hi, mode : Read(op, mode, lo, hi)
          BY <3>1, Zenon DEF SomeRead
      <4> QED
          BY <4>1 DEF Read, Runs, history
    <3>2. CASE SomeStore
      <4>1. PICK op, lo, hi, mode : Store(op, mode, lo, hi)
          BY <3>2, Zenon DEF SomeStore
      <4> QED
          BY <4>1 DEF Store, Runs, history
    <3>3. CASE SomeModify
      <4>1. PICK op, lo, hi, mode : Modify(op, mode, lo, hi)
          BY <3>3, Zenon DEF SomeModify
      <4> QED
          BY <4>1 DEF Modify, Runs, history
    <3> QED
        BY <1>1, <3>1, <3>2, <3>3
  <2> QED
      BY <2>1 DEF StackInv
<1>2. CASE SomeBranch \/ SomeJmp \/ SomeHalt
  <2>1. group' = group /\ UNCHANGED <<reg, mem, frames, depth>>
    <3>1. CASE SomeBranch
      <4>1. PICK op, lo : Branch(op, lo)
          BY <3>1, Zenon DEF SomeBranch
      <4> QED
          BY <4>1 DEF Branch, FlowsTo, history
    <3>2. CASE SomeJmp
      <4>1. PICK mode, w : JMP(mode, w)
          BY <3>2, Zenon DEF SomeJmp
      <4> QED
          BY <4>1 DEF JMP, FlowsTo, history
    <3>3. CASE SomeHalt
      <4>1. PICK op : Halt(op)
          BY <3>3, Zenon DEF SomeHalt
      <4> QED
          BY <4>1 DEF Halt, Flows, FlowsTo, history
    <3> QED
        BY <1>2, <3>1, <3>2, <3>3
  <2>2. Bottom' = Bottom
      BY <2>1 DEF Bottom
  <2> QED
      BY <2>1, <2>2 DEF StackInv
<1>3. CASE SomeNoOperand
  <2> SUFFICES ASSUME NEW op \in Implied, NoOperand(op) PROVE StackInv'
      BY <1>3 DEF SomeNoOperand
  <2>1. /\ group' = group /\ mem' = mem /\ reg' = ImpliedEffect(op, reg) /\ reg \in Registers
        /\ group = "data" \/ (group = "flow" /\ op \in {"SEC", "SED", "TXS"})
        /\ IF op = "TXS" THEN frames' = {} /\ depth' = 0 ELSE frames' = frames /\ depth' = depth
      BY DEF NoOperand, Runs, history, TypeOK
  <2>2. CASE group = "data"
      BY <2>1, <2>2 DEF StackInv
  <2>3. CASE group = "flow" /\ op = "TXS"
    <3>1. reg' = [reg EXCEPT !.S = reg.X] /\ frames' = {} /\ depth' = 0
        BY <2>1, <2>3, ImpliedType
    <3>2. reg'.U = reg.U /\ reg'.B = reg.B
        BY <2>1, <3>1 DEF Registers
    <3> QED
        BY <2>1, <2>3, <3>1, <3>2 DEF StackInv
  <2>4. CASE group = "flow" /\ op \in {"SEC", "SED"}
    <3>1. reg' = [reg EXCEPT !.C = 1] \/ reg' = [reg EXCEPT !.D = 1]
        BY <2>1, <2>4, Flagging
    <3>2. reg'.U = reg.U /\ reg'.B = reg.B /\ reg'.S = reg.S
        BY <2>1, <3>1 DEF Registers
    <3>3. frames' = frames /\ depth' = depth /\ Bottom' = Bottom
        BY <2>1, <2>4, <3>2 DEF Bottom
    <3> QED
        BY <2>1, <2>4, <3>2, <3>3 DEF StackInv
  <2> QED
      BY <2>1, <2>2, <2>3, <2>4
<1> QED
    BY <1>1, <1>2, <1>3

LEMMA StepStack == TypeOK /\ StackInv /\ [Next]_vars => StackInv'
<1> SUFFICES ASSUME TypeOK, StackInv, [Next]_vars PROVE StackInv'
    OBVIOUS
<1>1. CASE UNCHANGED vars
  <2>1. UNCHANGED <<group, reg, mem, frames, depth>>
      BY <1>1 DEF vars, history
  <2>2. Bottom' = Bottom
      BY <2>1 DEF Bottom
  <2> QED
      BY <2>1, <2>2 DEF StackInv
<1>2. CASE Next
  <2>1. SomeJsr => StackInv'
      BY Called, Zenon DEF SomeJsr
  <2>2. PHA => StackInv'
      BY PushedByte DEF PHA, Flows, FlowsTo
  <2>3. PHP => StackInv'
      BY PushedByte DEF PHP, Flows, FlowsTo
  <2> QED
      BY <1>1, <1>2, <2>1, <2>2, <2>3, Elsewhere, Returned, Interrupted, NextCases, Zenon
<1> QED
    BY <1>1, <1>2

-----------------------------------------------------------------------------
(* The returns. *)

Returns ==
    \A f \in frames : f.depth = depth =>
        /\ f.what = "call" /\ did'.op = "RTS" => pc' = f.ret /\ reg'.S = f.reg.S
        /\ f.what = "nmi" /\ did'.op = "RTI" =>
              pc' = f.ret /\ reg'.S = f.reg.S /\ Status(reg') = Status(f.reg)

(* Where the bytes pulled next are, and where S is after pulling them.     *)
LEMMA PullPlaces ==
    ASSUME TypeOK, StackInv
    PROVE  /\ 256 + Up(reg.S) = Place(Bottom, depth - 1)
           /\ 256 + Up(Up(reg.S)) = Place(Bottom, depth - 2)
           /\ 256 + Up(Up(Up(reg.S))) = Place(Bottom, depth - 3)
           /\ Up(Up(reg.S)) = (Bottom - (depth - 2)) % 256
           /\ Up(Up(Up(reg.S))) = (Bottom - (depth - 3)) % 256
<1> DEFINE s == reg.S
<1>1. s \in Byte /\ depth \in Int
    BY BottomType DEF StackInv
<1>2. PlaceIs(s, depth, 1) /\ PlaceIs(s, depth, 2) /\ PlaceIs(s, depth, 3)
  <2>1. 1 \in Int /\ 2 \in Int /\ 3 \in Int
      OBVIOUS
  <2> QED
      BY <1>1, <2>1, PlaceOfS
<1>3. Up(s) = (s + 1) % 256 /\ Up(Up(s)) = (s + 2) % 256 /\ Up(Up(Up(s))) = (s + 3) % 256
    BY <1>1, SecondUp
<1> HIDE DEF s
<1>4. /\ 256 + Up(s) = Place(Bottom, depth - 1)
      /\ 256 + Up(Up(s)) = Place(Bottom, depth - 2)
      /\ 256 + Up(Up(Up(s))) = Place(Bottom, depth - 3)
    BY <1>2, <1>3 DEF PlaceIs, Bottom, s
<1>5. Up(Up(s)) \in Int /\ Up(Up(Up(s))) \in Int /\ Bottom \in Int
  <2>1. Up(s) \in Byte
      BY <1>1, StackPointer
  <2>2. Up(Up(s)) \in Byte
      BY <2>1, StackPointer
  <2>3. Up(Up(Up(s))) \in Byte
      BY <2>2, StackPointer
  <2> QED
      BY <2>2, <2>3, BottomType DEF Byte
<1>6. (Bottom - (depth - 2)) % 256 \in Int /\ (Bottom - (depth - 3)) % 256 \in Int
    BY <1>1, <1>5
<1>7. /\ Up(Up(s)) = (Bottom - (depth - 2)) % 256
      /\ Up(Up(Up(s))) = (Bottom - (depth - 3)) % 256
    BY <1>4, <1>5, <1>6 DEF Place
<1> QED
    BY <1>4, <1>7 DEF s

LEMMA CallReturns ==
    ASSUME TypeOK, StackInv, RTS
    PROVE  Returns
<1> SUFFICES ASSUME NEW f \in frames, f.depth = depth
             PROVE  /\ f.what = "call" => pc' = f.ret /\ reg'.S = f.reg.S
                    /\ did'.op # "RTI"
    BY DEF Returns
<1>1. did'.op = "RTS" /\ pc' = (PopWord(reg.S) + 1) % 65536 /\ reg' = [reg EXCEPT !.S = Up(Up(@))]
    BY DEF RTS, Flows, FlowsTo, Did
<1>2. PopWord(reg.S) = Word(mem[Place(Bottom, depth - 1)], mem[Place(Bottom, depth - 2)])
    BY PullPlaces DEF PopWord, PopByte
<1>3. reg'.S = (Bottom - (depth - 2)) % 256
  <2>1. reg'.S = Up(Up(reg.S))
      BY <1>1 DEF TypeOK, Registers
  <2> QED
      BY <2>1, PullPlaces
<1>4. f.what = "call" => CallIn(f, mem, Bottom)
    BY DEF StackInv, FrameIn
<1> QED
    BY <1>1, <1>2, <1>3, <1>4 DEF CallIn

LEMMA InterruptReturns ==
    ASSUME TypeOK, StackInv, RTI
    PROVE  Returns
<1> SUFFICES ASSUME NEW f \in frames, f.depth = depth
             PROVE  /\ f.what = "nmi" => pc' = f.ret /\ reg'.S = f.reg.S
                                         /\ Status(reg') = Status(f.reg)
                    /\ did'.op # "RTS"
    BY DEF Returns
<1> DEFINE r == [reg EXCEPT !.S = Up(Up(Up(@)))]
<1>1. /\ did'.op = "RTI" /\ pc' = PopWord(Up(reg.S)) /\ reg' = SetStatus(r, PopByte(reg.S))
      /\ group = "flow"
    BY DEF RTI, Flows, FlowsTo, Did
<1>2. /\ PopWord(Up(reg.S)) = Word(mem[Place(Bottom, depth - 2)], mem[Place(Bottom, depth - 3)])
      /\ PopByte(reg.S) = mem[Place(Bottom, depth - 1)]
    BY PullPlaces DEF PopWord, PopByte
<1>3. f.what = "nmi" => NmiIn(f, mem, Bottom)
    BY DEF StackInv, FrameIn
<1>4. r \in Registers /\ PopByte(reg.S) \in Byte /\ reg \in Registers
    BY StackTypes, PopTypes DEF RTI, TypeOK
<1>5. r.S = Up(Up(Up(reg.S))) /\ r.B = 0
    BY <1>1, <1>4 DEF StackInv, Registers
<1> HIDE DEF r
<1>6. reg'.S = (Bottom - (depth - 3)) % 256
    BY <1>1, <1>4, <1>5, StatusSet, PullPlaces
<1>7. f.what = "nmi" => Status(reg') = Status(f.reg)
  <2> SUFFICES ASSUME f.what = "nmi" PROVE Status(reg') = Status(f.reg)
      OBVIOUS
  <2>1. PopByte(reg.S) = Status(f.reg) /\ f.reg \in Registers /\ f.reg.U = 1 /\ f.reg.B = 0
      BY <1>2, <1>3 DEF NmiIn
  <2>2. reg' = SetStatus(r, Status(f.reg))
      BY <1>1, <2>1
  <2> QED
      BY <1>4, <1>5, <2>1, <2>2, StatusRestored
<1> QED
    BY <1>1, <1>2, <1>3, <1>6, <1>7 DEF NmiIn

(* No other instruction is an RTS or an RTI.                               *)
LEMMA OthersReturnNothing ==
    ASSUME StackInv, Next, ~RTS, ~RTI
    PROVE  Returns \/ UNCHANGED vars
<1>1. group = "data" => Returns
    BY DEF StackInv, Returns
<1>2. did'.op \notin {"RTS", "RTI"} => Returns
    BY DEF Returns
<1>3. CASE SomeRead
  <2>1. PICK op, lo, hi, mode : Read(op, mode, lo, hi)
      BY <1>3, Zenon DEF SomeRead
  <2> QED
      BY <1>1, <2>1 DEF Read, Runs
<1>4. CASE SomeStore
  <2>1. PICK op, lo, hi, mode : Store(op, mode, lo, hi)
      BY <1>4, Zenon DEF SomeStore
  <2> QED
      BY <1>1, <2>1 DEF Store, Runs
<1>5. CASE SomeModify
  <2>1. PICK op, lo, hi, mode : Modify(op, mode, lo, hi)
      BY <1>5, Zenon DEF SomeModify
  <2> QED
      BY <1>1, <2>1 DEF Modify, Runs
<1>6. CASE SomeNoOperand
  <2>1. PICK op \in Implied : NoOperand(op)
      BY <1>6, Zenon DEF SomeNoOperand
  <2>2. did'.op = op
      BY <2>1 DEF NoOperand, Did
  <2> QED
      BY <1>2, <2>1, <2>2 DEF Implied
<1>7. CASE SomeBranch
  <2>1. PICK op \in Branches : \E lo : Branch(op, lo)
      BY <1>7, Zenon DEF SomeBranch
  <2>2. did'.op = op
      BY <2>1 DEF Branch, FlowsTo, Did
  <2> QED
      BY <1>2, <2>1, <2>2 DEF Branches
<1>8. CASE SomeJmp
  <2>1. PICK mode, w : JMP(mode, w)
      BY <1>8, Zenon DEF SomeJmp
  <2>2. did'.op = "JMP"
      BY <2>1 DEF JMP, FlowsTo, Did
  <2> QED
      BY <1>2, <2>2
<1>9. CASE SomeJsr
  <2>1. PICK w : JSR(w)
      BY <1>9, Zenon DEF SomeJsr
  <2>2. did'.op = "JSR"
      BY <2>1 DEF JSR, FlowsTo, Did
  <2> QED
      BY <1>2, <2>2
<1>10. CASE SomeHalt
  <2>1. PICK op \in {"BRK", "KIL"} : Halt(op)
      BY <1>10, Zenon DEF SomeHalt
  <2>2. did'.op = op
      BY <2>1 DEF Halt, Flows, FlowsTo, Did
  <2> QED
      BY <1>2, <2>1, <2>2
<1>11. CASE PHA
    BY <1>2, <1>11 DEF PHA, Flows, FlowsTo, Did
<1>12. CASE PHP
    BY <1>2, <1>12 DEF PHP, Flows, FlowsTo, Did
<1>13. CASE PLA
    BY <1>2, <1>13 DEF PLA, Flows, FlowsTo, Did
<1>14. CASE PLP
    BY <1>2, <1>14 DEF PLP, Flows, FlowsTo, Did
<1>15. CASE NMI
    BY <1>2, <1>15 DEF NMI, Flows, FlowsTo, Did
<1> QED
    BY <1>3, <1>4, <1>5, <1>6, <1>7, <1>8, <1>9, <1>10, <1>11, <1>12, <1>13, <1>14, <1>15,
       NextCases, Zenon

(* Every return made at the depth of its call or interrupt goes back to    *)
(* where that was, with the S of then, and after RTI with the flags, in    *)
(* programs of any length: whatever was pushed and pulled in between, how  *)
(* deep calls and interrupts were nested, and wherever S wrapped.          *)
THEOREM ReturnsCorrect == Spec => ReturnsWhereCalled
<1>1. TypeOK /\ StackInv /\ [Next]_vars => [Returns]_vars
  <2> SUFFICES ASSUME TypeOK, StackInv, Next PROVE Returns \/ UNCHANGED vars
      OBVIOUS
  <2> QED
      BY CallReturns, InterruptReturns, OthersReturnNothing, Zenon
<1>2. ReturnsWhereCalled <=> [][Returns]_vars
    BY DEF ReturnsWhereCalled, Returns
<1> QED
    BY <1>1, <1>2, InitTypes, StepTypes, InitStack, StepStack, PTL DEF Spec

=============================================================================
