------------------------------- MODULE NesCpu -------------------------------
(***************************************************************************)
(* The instructions of nes_cpu: operands, arithmetic, stack, jumps, cycles *)
(* and the NMI, at the real widths.                                        *)
(*                                                                         *)
(* The program is any series of instructions: what decode_byte fetches is  *)
(* chosen here, so code is not part of mem, which holds data, pointers,    *)
(* the stack and the NMI vector.  The opcodes that assert(false) are left  *)
(* out, and clocks and memory-mapped registers are in NesSystem and NesBus.*)
(*                                                                         *)
(* Two kinds of behaviour, a bound: "data" runs one operand instruction    *)
(* from any registers, "flow" several that move PC, the stack and status.  *)
(*                                                                         *)
(* A definition whose name begins with Bug is a mistake some property      *)
(* notices when it replaces the definition after it.                       *)
(***************************************************************************)
EXTENDS Integers

CONSTANTS
    Cells,              \* BOUND: the addresses data is looked at
    Mem0,               \* what they hold at first
    Accs, Indexes,      \* BOUND: A, and X and Y, at first
    Stacks,             \* BOUND: S at first
    Pcs,                \* BOUND: PC at first
    Lows, Highs,        \* BOUND: operand bytes of data instructions
    Rels, Targets,      \* BOUND: operands of branches, of JSR and JMP
    FlowSteps           \* BOUND: instructions of a flow behaviour

Byte == 0 .. 255

ASSUME CpuAssumption ==
    /\ Mem0 \in [Cells -> Byte] /\ Cells \subseteq Nat
    /\ Accs \subseteq Byte /\ Indexes \subseteq Byte /\ Stacks \subseteq Byte
    /\ Lows \subseteq Byte /\ Highs \subseteq Byte /\ Rels \subseteq Byte
    /\ (\A a \in Pcs : a \in Nat /\ a < 65536) /\ Targets \subseteq Byte \X Byte
    /\ {65530, 65531} \subseteq Cells /\ FlowSteps \in Nat

Registers == [A : Byte, X : Byte, Y : Byte, S : Byte, C : {0, 1}, Z : {0, 1}, I : {0, 1},
              D : {0, 1}, B : {0, 1}, U : {0, 1}, V : {0, 1}, N : {0, 1}]

VARIABLES
    reg,            \* A, X, Y, S and the eight bits of P
    pc,             \* PC
    mem,            \* memory
    stop,           \* has the CPU asked the system to stop?
    armed,          \* _stop_at_infinite_loop
    group,          \* "data" or "flow"
    steps,          \* instructions this behaviour has left
    did,            \* history: the last instruction
    frames, depth   \* history: open calls and interrupts, bytes on the stack

history == <<frames, depth>>
vars    == <<reg, pc, mem, stop, armed, group, steps, did, history>>

-----------------------------------------------------------------------------
(* The instruction set. *)

AluModes == {"imm", "zp", "zp_ind_x", "abs", "abs_x", "abs_y", "ind_x", "ind_y"}

ReadModes ==
    [op \in {"ADC", "AND", "CMP", "EOR", "ORA", "SBC", "LDA", "LDX", "LDY", "CPX", "CPY",
             "BIT", "LAX", "NOP"} |->
        CASE op = "LDX"            -> {"imm", "zp", "zp_ind_y", "abs", "abs_y"}
          [] op \in {"LDY", "NOP"} -> {"imm", "zp", "zp_ind_x", "abs", "abs_x"}
          [] op \in {"CPX", "CPY"} -> {"imm", "zp", "abs"}
          [] op = "BIT"            -> {"zp", "abs"}
          [] op = "LAX" -> {"imm", "zp", "zp_ind_y", "abs", "abs_y", "ind_x", "ind_y"}
          [] OTHER                 -> AluModes]

StoreModes ==
    [op \in {"STA", "STX", "STY", "SAX"} |->
        CASE op = "STA" -> AluModes \ {"imm"}
          [] op = "STX" -> {"zp", "zp_ind_y", "abs"}
          [] op = "STY" -> {"zp", "zp_ind_x", "abs"}
          [] op = "SAX" -> {"zp", "zp_ind_y", "abs", "ind_x"}]

Combined == {"SLO", "RLA", "SRE", "RRA", "DCP", "ISC"}

ModifyModes ==
    [op \in {"ASL", "ROL", "LSR", "ROR", "INC", "DEC"} \cup Combined |->
        CASE op \in {"INC", "DEC"} -> {"zp", "zp_ind_x", "abs", "abs_x"}
          [] op \in Combined       -> AluModes \ {"imm"}
          [] OTHER                 -> {"acc", "zp", "zp_ind_x", "abs", "abs_x"}]

Implied == {"INX", "INY", "DEX", "DEY", "TAX", "TAY", "TSX", "TXA", "TXS", "TYA",
            "SEC", "SED", "SEI", "CLC", "CLD", "CLI", "CLV", "NOP"}

Branches == {"BCC", "BCS", "BEQ", "BNE", "BMI", "BPL", "BVC", "BVS"}

Length(mode) ==
    CASE mode \in {"imp", "acc"}                            -> 1
      [] mode \in {"abs", "abs_x", "abs_y", "abs_jmp", "ind_jmp"} -> 3
      [] OTHER                                              -> 2

-----------------------------------------------------------------------------
(* decode_operand_addr: addresses wrap in zero page and in 16 bits. *)

Word(lo, hi) == lo + (256 * hi)
Page(a) == a \div 256

NextInPage(z) == (256 * Page(z)) + ((z + 1) % 256)

(* A pointer whose two bytes are in one page.                              *)
Pointer(z) == Word(mem[z], mem[NextInPage(z)])

PointerAt(mode, lo) == IF mode = "ind_x" THEN (lo + reg.X) % 256 ELSE lo

Base(mode, lo, hi) ==
    IF mode \in {"ind_x", "ind_y"} THEN Pointer(PointerAt(mode, lo))
    ELSE IF mode \in {"abs", "abs_x", "abs_y"} THEN Word(lo, hi)
    ELSE lo

Index(mode) ==
    CASE mode \in {"zp_ind_x", "abs_x"}          -> reg.X
      [] mode \in {"zp_ind_y", "abs_y", "ind_y"} -> reg.Y
      [] OTHER                                   -> 0

Address(mode, lo, hi) ==
    (Base(mode, lo, hi) + Index(mode)) % (IF mode \in {"zp_ind_x", "zp_ind_y"} THEN 256 ELSE 65536)

IsPageCrossing(mode, lo, hi) ==
    /\ mode \in {"abs_x", "abs_y", "ind_y"}
    /\ Page(Base(mode, lo, hi)) # Page(Address(mode, lo, hi))

(* BOUND: the program stays on Cells.                                      *)
Known(mode, lo, hi) ==
    mode \notin {"imm", "acc"} =>
        /\ mode \in {"ind_x", "ind_y"} =>
              {PointerAt(mode, lo), NextInPage(PointerAt(mode, lo))} \subseteq Cells
        /\ Address(mode, lo, hi) \in Cells

ReadOperand(mode, lo, hi) ==
    CASE mode = "imm" -> lo
      [] mode = "acc" -> reg.A
      [] OTHER        -> mem[Address(mode, lo, hi)]

-----------------------------------------------------------------------------
(* The trace: before an instruction runs, get_op_str peeks at its operand  *)
(* for the log and finds it on its own.                                    *)

BugLoggedPointer(z) == Word(mem[z], mem[z + 1])

LoggedPointer(z) == Word(mem[z], mem[(z + 1) % 256])

Logged(mode, lo, hi) ==
    CASE mode = "imm"      -> lo
      [] mode = "acc"      -> reg.A
      [] mode = "zp"       -> mem[lo]
      [] mode = "zp_ind_x" -> mem[(lo + reg.X) % 256]
      [] mode = "zp_ind_y" -> mem[(lo + reg.Y) % 256]
      [] mode = "abs"      -> mem[Word(lo, hi)]
      [] mode = "abs_x"    -> mem[(Word(lo, hi) + reg.X) % 65536]
      [] mode = "abs_y"    -> mem[(Word(lo, hi) + reg.Y) % 65536]
      [] mode = "ind_x"    -> mem[LoggedPointer((lo + reg.X) % 256)]
      [] mode = "ind_y"    -> mem[(LoggedPointer(lo) + reg.Y) % 65536]

LoggedBranch(lo) == (IF lo < 128 THEN pc + 2 + lo ELSE pc + 2 + lo - 256) % 65536

LoggedJump(mode, w) ==
    CASE mode = "abs_jmp" -> w
      [] mode = "ind_jmp" /\ w % 256 = 255 -> Word(mem[w], mem[w - 255])
      [] mode = "ind_jmp" /\ w % 256 # 255 -> Word(mem[w], mem[w + 1])

-----------------------------------------------------------------------------
(* Cycles. *)

GetCpuCycle(mode, crossing) ==
    LET late == IF crossing THEN 1 ELSE 0
    IN  CASE mode \in {"acc", "imm"}                   -> 2
          [] mode = "zp"                               -> 3
          [] mode \in {"zp_ind_x", "zp_ind_y", "abs"}  -> 4
          [] mode \in {"abs_x", "abs_y"}               -> 4 + late
          [] mode = "ind_x"                            -> 6
          [] mode = "ind_y"                            -> 5 + late

GetShiftCycle(mode) ==
    CASE mode = "acc" -> 2 [] mode = "zp" -> 5 [] mode = "abs_x" -> 7 [] OTHER -> 6

BugStoreCycle(op, mode, crossing) == GetCpuCycle(mode, crossing)

(* STA is timed as if every index crossed a page.                          *)
StoreCycle(op, mode, crossing) == GetCpuCycle(mode, crossing \/ op = "STA")

ModifyCycle(op, mode) ==
    IF op \in Combined THEN GetCpuCycle(mode, TRUE) + 2 ELSE GetShiftCycle(mode)

-----------------------------------------------------------------------------
(* Arithmetic. *)

Flag(b) == IF b THEN 1 ELSE 0
Bit(n, i) == (n \div 2 ^ i) % 2
Bitwise2(Op(_, _), a, b) ==
    LET At(i) == 2 ^ i * Op(Bit(a, i), Bit(b, i))
    IN  At(0) + At(1) + At(2) + At(3) + At(4) + At(5) + At(6) + At(7)
And(a, b) == Bitwise2(LAMBDA c, d : c * d, a, b)
Or(a, b)  == Bitwise2(LAMBDA c, d : c + d - (c * d), a, b)
Xor(a, b) == Bitwise2(LAMBDA c, d : (c + d) % 2, a, b)

CalcAluFlag(r, val) == [r EXCEPT !.Z = Flag(val = 0), !.N = Bit(val, 7)]

SetA(r, val) == CalcAluFlag([r EXCEPT !.A = val], val)

BugAddCarry(a, val, c) == (a + val + c) % 256 < a

(* The carry out of either of the two 8-bit additions.                     *)
AddCarry(a, val, c) ==
    LET sum == (a + val) % 256
    IN  sum < a \/ (sum + c) % 256 < sum

IsSignOverflow(a, val, new) == Bit(a, 7) = Bit(val, 7) /\ Bit(a, 7) # Bit(new, 7)

Add(r, val) ==
    LET new == (r.A + val + r.C) % 256
    IN  SetA([r EXCEPT !.V = Flag(IsSignOverflow(r.A, val, new)),
                       !.C = Flag(AddCarry(r.A, val, r.C))], new)

Subtract(r, val) == Add(r, 255 - val)

Compare(r, with, val) ==
    CalcAluFlag([r EXCEPT !.C = Flag(with >= val)], (with - val) % 256)

Effect(op, r, val) ==
    CASE op = "ADC" -> Add(r, val)
      [] op = "SBC" -> Subtract(r, val)
      [] op = "AND" -> SetA(r, And(r.A, val))
      [] op = "ORA" -> SetA(r, Or(r.A, val))
      [] op = "EOR" -> SetA(r, Xor(r.A, val))
      [] op = "LDA" -> SetA(r, val)
      [] op = "LDX" -> CalcAluFlag([r EXCEPT !.X = val], val)
      [] op = "LDY" -> CalcAluFlag([r EXCEPT !.Y = val], val)
      [] op = "LAX" -> CalcAluFlag([r EXCEPT !.A = val, !.X = val], val)
      [] op = "CMP" -> Compare(r, r.A, val)
      [] op = "CPX" -> Compare(r, r.X, val)
      [] op = "CPY" -> Compare(r, r.Y, val)
      [] op = "BIT" -> [r EXCEPT !.Z = Flag(And(val, r.A) = 0), !.V = Bit(val, 6), !.N = Bit(val, 7)]
      [] op = "NOP" -> r

(* What a read-modify-write instruction writes back, and its carry.        *)
Modified(op, val, c) ==
    CASE op \in {"ASL", "SLO"} -> (2 * val) % 256
      [] op \in {"ROL", "RLA"} -> ((2 * val) % 256) + c
      [] op \in {"LSR", "SRE"} -> val \div 2
      [] op \in {"ROR", "RRA"} -> (val \div 2) + (128 * c)
      [] op \in {"INC", "ISC"} -> (val + 1) % 256
      [] op \in {"DEC", "DCP"} -> (val - 1) % 256

CarryOut(op, val, c) ==
    CASE op \in {"ASL", "SLO", "ROL", "RLA"} -> Bit(val, 7)
      [] op \in {"LSR", "SRE", "ROR", "RRA"} -> val % 2
      [] OTHER                               -> c

AfterModify(op, r, new) ==
    CASE op = "SLO" -> SetA(r, Or(r.A, new))
      [] op = "RLA" -> SetA(r, And(r.A, new))
      [] op = "SRE" -> SetA(r, Xor(r.A, new))
      [] op = "RRA" -> Add(r, new)
      [] op = "DCP" -> Compare(r, r.A, new)
      [] op = "ISC" -> Subtract(r, new)
      [] OTHER      -> CalcAluFlag(r, new)

Register(op) ==
    CASE op = "STA" -> reg.A [] op = "STX" -> reg.X [] op = "STY" -> reg.Y
      [] op = "SAX" -> And(reg.A, reg.X)

ImpliedEffect(op, r) ==
    LET Count(f, n) == CalcAluFlag([r EXCEPT ![f] = (@ + n) % 256], (r[f] + n) % 256)
        Copy(f, g) == CalcAluFlag([r EXCEPT ![g] = r[f]], r[f])
    IN  CASE op = "INX" -> Count("X", 1)  [] op = "DEX" -> Count("X", 255)
          [] op = "INY" -> Count("Y", 1)  [] op = "DEY" -> Count("Y", 255)
          [] op = "TAX" -> Copy("A", "X") [] op = "TXA" -> Copy("X", "A")
          [] op = "TAY" -> Copy("A", "Y") [] op = "TYA" -> Copy("Y", "A")
          [] op = "TSX" -> Copy("S", "X") [] op = "TXS" -> [r EXCEPT !.S = r.X]
          [] op = "SEC" -> [r EXCEPT !.C = 1] [] op = "CLC" -> [r EXCEPT !.C = 0]
          [] op = "SED" -> [r EXCEPT !.D = 1] [] op = "CLD" -> [r EXCEPT !.D = 0]
          [] op = "SEI" -> [r EXCEPT !.I = 1] [] op = "CLI" -> [r EXCEPT !.I = 0]
          [] op = "CLV" -> [r EXCEPT !.V = 0] [] op = "NOP" -> r

-----------------------------------------------------------------------------
(* The stack, in page 1. *)

BugDown(s) == s - 1

Down(s) == (s - 1) % 256
Up(s)   == (s + 1) % 256

PushByte(m, s, val) == [m EXCEPT ![256 + s] = val]
PushWord(m, s, w) == PushByte(PushByte(m, s, Page(w)), Down(s), w % 256)

PopByte(s) == mem[256 + Up(s)]
PopWord(s) == Word(PopByte(s), PopByte(Up(s)))

(* BOUND: n bytes from S on, downwards or upwards, are in Cells.           *)
RoomFor(n) == \A i \in 0 .. n - 1 : 256 + ((reg.S - i) % 256) \in Cells
Holds(n)   == \A i \in 1 .. n : 256 + ((reg.S + i) % 256) \in Cells

(* P as a byte, with the bits of mask set.                                 *)
Status(r) ==
    r.C + (2 * r.Z) + (4 * r.I) + (8 * r.D) + (16 * r.B) + (32 * r.U) + (64 * r.V) + (128 * r.N)

SetStatus(r, b) ==
    [r EXCEPT !.C = Bit(b, 0), !.Z = Bit(b, 1), !.I = Bit(b, 2), !.D = Bit(b, 3),
              !.U = 1, !.V = Bit(b, 6), !.N = Bit(b, 7)]

-----------------------------------------------------------------------------
Init ==
    /\ group \in {"data", "flow"} /\ steps = (IF group = "data" THEN 1 ELSE FlowSteps)
    /\ reg \in [A : Accs, X : Indexes, Y : Indexes, S : Stacks,
                C : {0, 1}, Z : {0}, I : {1}, D : {0}, B : {0}, U : {1}, V : {0}, N : {0}]
    /\ group = "flow" => /\ \A a \in Accs : reg.A <= a
                        /\ \A i \in Indexes : reg.X <= i /\ reg.Y <= i
    /\ pc \in Pcs /\ mem = Mem0 /\ stop = FALSE
    /\ armed \in (IF group = "data" THEN {FALSE} ELSE BOOLEAN)
    /\ did = [op |-> "none", mode |-> "imp", crossing |-> FALSE, val |-> 0, result |-> 0,
            cycles |-> 0, logged |-> 0]
    /\ frames = {} /\ depth = 0

Runs(g, n) == group = g /\ steps > 0 /\ ~stop /\ steps' = steps - 1 /\ pc' = (pc + n) % 65536

Did(op, mode, crossing, val, result, cycles, logged) ==
    did' = [op |-> op, mode |-> mode, crossing |-> crossing, val |-> val,
            result |-> result, cycles |-> cycles, logged |-> logged]

(* ADC, AND, CMP, EOR, ORA, SBC, LDA, LDX, LDY, CPX, CPY, BIT, LAX, NOP    *)
Read(op, mode, lo, hi) ==
    /\ Runs("data", Length(mode)) /\ Known(mode, lo, hi)
    /\ LET val      == ReadOperand(mode, lo, hi)
           crossing == IsPageCrossing(mode, lo, hi)
       IN  /\ reg' = Effect(op, reg, val)
           /\ Did(op, mode, crossing, val, val, GetCpuCycle(mode, crossing), Logged(mode, lo, hi))
    /\ UNCHANGED <<mem, stop, armed, group, history>>

(* STA, STX, STY, SAX                                                      *)
Store(op, mode, lo, hi) ==
    /\ Runs("data", Length(mode)) /\ Known(mode, lo, hi)
    /\ mem' = [mem EXCEPT ![Address(mode, lo, hi)] = Register(op)]
    /\ LET crossing == IsPageCrossing(mode, lo, hi)
       IN  Did(op, mode, crossing, 0, Register(op), StoreCycle(op, mode, crossing),
               Logged(mode, lo, hi))
    /\ UNCHANGED <<reg, stop, armed, group, history>>

(* ASL, ROL, LSR, ROR, INC, DEC and the unofficial pairs                   *)
Modify(op, mode, lo, hi) ==
    /\ Runs("data", Length(mode)) /\ Known(mode, lo, hi)
    /\ LET val == ReadOperand(mode, lo, hi)
           new == Modified(op, val, reg.C)
           r   == [reg EXCEPT !.C = CarryOut(op, val, reg.C),
                              !.A = IF mode = "acc" THEN new ELSE @]
       IN  /\ mem' = IF mode = "acc" THEN mem ELSE [mem EXCEPT ![Address(mode, lo, hi)] = new]
           /\ reg' = AfterModify(op, r, new)
           /\ Did(op, mode, IsPageCrossing(mode, lo, hi), val, new, ModifyCycle(op, mode),
                  Logged(mode, lo, hi))
    /\ UNCHANGED <<stop, armed, group, history>>

(* Transfers, counters, flags and the real NOP; TXS gives up the stack.    *)
NoOperand(op) ==
    /\ \/ Runs("data", 1)
       \/ Runs("flow", 1) /\ op \in {"SEC", "SED", "TXS"}
    /\ reg' = ImpliedEffect(op, reg)
    /\ Did(op, "imp", FALSE, 0, 0, 2, 0)
    /\ IF op = "TXS" THEN frames' = {} /\ depth' = 0 ELSE UNCHANGED history
    /\ UNCHANGED <<mem, stop, armed, group>>

-----------------------------------------------------------------------------
(* Jumps, calls and interrupts. *)

FlowsTo(op, cycles, logged) ==
    /\ group = "flow" /\ steps > 0 /\ ~stop /\ steps' = steps - 1
    /\ Did(op, "imp", FALSE, 0, 0, cycles, logged)
    /\ UNCHANGED group
Flows(op, cycles) == FlowsTo(op, cycles, 0)

(* What is open with d bytes on the stack: not returned from, and not yet  *)
(* overwritten by a stack that has gone all the way round.                 *)
OpenAt(d) == {f \in frames : f.depth <= d /\ d < f.depth + 254}

Moved(n) == depth' = depth + n /\ frames' = OpenAt(depth + n)

Opened(what, n, ret) ==
    /\ depth' = depth + n
    /\ frames' = OpenAt(depth + n)
                 \cup {[what |-> what, depth |-> depth + n, ret |-> ret, reg |-> reg]}

Taken(op) ==
    CASE op = "BCC" -> reg.C = 0 [] op = "BCS" -> reg.C = 1
      [] op = "BNE" -> reg.Z = 0 [] op = "BEQ" -> reg.Z = 1
      [] op = "BPL" -> reg.N = 0 [] op = "BMI" -> reg.N = 1
      [] op = "BVC" -> reg.V = 0 [] op = "BVS" -> reg.V = 1

Signed(b) == IF b < 128 THEN b ELSE b - 256

GetBranchCycle(taken, new, rel) ==
    2 + Flag(taken) + Flag(taken /\ Page(new) # Page((new - rel) % 65536))

Branch(op, lo) ==
    LET rel   == Signed(lo)
        new   == (pc + 2 + IF Taken(op) THEN rel ELSE 0) % 65536
        loops == Taken(op) /\ rel = -2 /\ armed
    IN  /\ FlowsTo(op, GetBranchCycle(Taken(op), new, rel), LoggedBranch(lo))
        /\ pc' = new
        /\ stop' = loops
        /\ armed' = (armed /\ ~loops)
        /\ UNCHANGED <<reg, mem, history>>

JmpTarget(mode, w) == IF mode = "abs_jmp" THEN w ELSE
    Word(mem[w], IF w % 256 = 255 THEN mem[256 * Page(w)] ELSE mem[(w + 1) % 65536])

JMP(mode, w) ==
    /\ mode = "ind_jmp" => {w, NextInPage(w)} \subseteq Cells
    /\ FlowsTo("JMP", IF mode = "abs_jmp" THEN 3 ELSE 5, LoggedJump(mode, w))
    /\ pc' = JmpTarget(mode, w)
    /\ stop' = (armed /\ JmpTarget(mode, w) = ((pc + 3) % 65536) - 1)
    /\ UNCHANGED <<reg, mem, armed, history>>

BugReturnAddress == (pc + 3) % 65536

(* What JSR pushes: the address of its own last byte.                      *)
ReturnAddress == (pc + 2) % 65536

JSR(w) ==
    /\ RoomFor(2)
    /\ FlowsTo("JSR", 6, LoggedJump("abs_jmp", w))
    /\ mem' = PushWord(mem, reg.S, ReturnAddress)
    /\ reg' = [reg EXCEPT !.S = Down(Down(@))]
    /\ pc' = w
    /\ Opened("call", 2, (pc + 3) % 65536)
    /\ UNCHANGED <<stop, armed>>

RTS ==
    /\ Holds(2)
    /\ Flows("RTS", 6)
    /\ pc' = (PopWord(reg.S) + 1) % 65536
    /\ reg' = [reg EXCEPT !.S = Up(Up(@))]
    /\ Moved(-2)
    /\ UNCHANGED <<mem, stop, armed>>

RTI ==
    /\ Holds(3)
    /\ Flows("RTI", 6)
    /\ reg' = SetStatus([reg EXCEPT !.S = Up(Up(Up(@)))], PopByte(reg.S))
    /\ pc' = PopWord(Up(reg.S))
    /\ Moved(-3)
    /\ UNCHANGED <<mem, stop, armed>>

PHA ==
    /\ RoomFor(1)
    /\ Flows("PHA", 3)
    /\ mem' = PushByte(mem, reg.S, reg.A)
    /\ reg' = [reg EXCEPT !.S = Down(@)]
    /\ pc' = (pc + 1) % 65536
    /\ Moved(1)
    /\ UNCHANGED <<stop, armed>>

PHP ==
    /\ RoomFor(1)
    /\ Flows("PHP", 3)
    /\ mem' = PushByte(mem, reg.S, Status([reg EXCEPT !.B = 1, !.U = 1]))
    /\ reg' = [reg EXCEPT !.S = Down(@)]
    /\ pc' = (pc + 1) % 65536
    /\ Moved(1)
    /\ UNCHANGED <<stop, armed>>

PLA ==
    /\ Holds(1)
    /\ Flows("PLA", 4)
    /\ reg' = SetA([reg EXCEPT !.S = Up(@)], PopByte(reg.S))
    /\ pc' = (pc + 1) % 65536
    /\ Moved(-1)
    /\ UNCHANGED <<mem, stop, armed>>

PLP ==
    /\ Holds(1)
    /\ Flows("PLP", 4)
    /\ reg' = SetStatus([reg EXCEPT !.S = Up(@)], PopByte(reg.S))
    /\ pc' = (pc + 1) % 65536
    /\ Moved(-1)
    /\ UNCHANGED <<mem, stop, armed>>

(* BRK and KIL end the run: neither is an interrupt here.                  *)
Halt(op) ==
    /\ Flows(op, IF op = "BRK" THEN 7 ELSE 0)
    /\ stop' = TRUE
    /\ pc' = (pc + 1) % 65536
    /\ UNCHANGED <<reg, mem, armed, history>>

NMI ==
    /\ RoomFor(3)
    /\ Flows("NMI", 7)
    /\ mem' = PushByte(PushWord(mem, reg.S, pc), Down(Down(reg.S)), Status([reg EXCEPT !.U = 1]))
    /\ reg' = [reg EXCEPT !.S = Down(Down(Down(@)))]
    /\ pc' = Word(mem'[65530], mem'[65531])
    /\ Opened("nmi", 3, pc)
    /\ UNCHANGED <<stop, armed>>

-----------------------------------------------------------------------------
(* Where the bound ends a behaviour.                                       *)
AtBound == (steps = 0 \/ stop) /\ UNCHANGED vars

Next ==
    \/ \E op \in DOMAIN ReadModes, lo \in Lows, hi \in Highs :
          \E mode \in ReadModes[op] : Read(op, mode, lo, hi)
    \/ \E op \in DOMAIN StoreModes, lo \in Lows, hi \in Highs :
          \E mode \in StoreModes[op] : Store(op, mode, lo, hi)
    \/ \E op \in DOMAIN ModifyModes, lo \in Lows, hi \in Highs :
          \E mode \in ModifyModes[op] : Modify(op, mode, lo, hi)
    \/ \E op \in Implied : NoOperand(op)
    \/ \E op \in Branches, lo \in Rels : Branch(op, lo)
    \/ \E mode \in {"abs_jmp", "ind_jmp"}, w \in Targets : JMP(mode, Word(w[1], w[2]))
    \/ \E w \in Targets : JSR(Word(w[1], w[2]))
    \/ RTS \/ RTI \/ PHA \/ PHP \/ PLA \/ PLP \/ NMI
    \/ \E op \in {"BRK", "KIL"} : Halt(op)
    \/ AtBound

Spec == Init /\ [][Next]_vars

-----------------------------------------------------------------------------
TypeOK ==
    /\ reg \in Registers
    /\ pc \in Nat /\ pc < 65536 /\ mem \in [Cells -> Byte]
    /\ stop \in BOOLEAN /\ armed \in BOOLEAN /\ group \in {"data", "flow"}
    /\ steps \in 0 .. 1 + FlowSteps

Adds(val, c) ==
    /\ reg'.A + (256 * reg'.C) = reg.A + val + c
    /\ reg'.V = Flag(Signed(reg.A) + Signed(val) + c \notin -128 .. 127)

Subtracts(val, c) ==
    /\ reg'.A - (256 * (1 - reg'.C)) = reg.A - val - (1 - c)
    /\ reg'.V = Flag(Signed(reg.A) - Signed(val) - (1 - c) \notin -128 .. 127)

(* The 8-bit arithmetic is arithmetic: A and the carry are the sum, V says *)
(* that the signed sum does not fit, SBC is the difference with a borrow,  *)
(* a shift keeps all nine bits, and so do the unofficial instructions that *)
(* do two things.  Whatever changes A, X or Y leaves Z and N saying what   *)
(* it has become.                                                          *)
ShowsInFlags(f) == reg'.Z = Flag(reg'[f] = 0) /\ reg'.N = Bit(reg'[f], 7)

ArithmeticIsRight ==
    [][/\ \A f \in {"A", "X", "Y"} : reg'[f] # reg[f] => ShowsInFlags(f)
       /\ did'.op = "ADC" => Adds(did'.val, reg.C)
       /\ did'.op = "SBC" => Subtracts(did'.val, reg.C)
       /\ did'.op = "RRA" => Adds(did'.result, did'.val % 2)
       /\ did'.op = "ISC" => Subtracts(did'.result, reg.C)
       /\ did'.op \in {"ASL", "SLO"} => (256 * reg'.C) + did'.result = 2 * did'.val
       /\ did'.op \in {"ROL", "RLA"} => (256 * reg'.C) + did'.result = (2 * did'.val) + reg.C
       /\ did'.op \in {"LSR", "SRE"} => (2 * did'.result) + reg'.C = did'.val
       /\ did'.op = "ROR" => (2 * did'.result) + reg'.C = did'.val + (256 * reg.C)]_vars

(* The log, which finds operands with code of its own, shows what the      *)
(* instruction works on, across every wrap: the byte it reads, the byte it *)
(* is about to write over, the place it jumps to.                          *)
LogShowsOperand ==
    [][/\ did'.op \in DOMAIN ReadModes \cup DOMAIN ModifyModes /\ did'.mode # "imp" =>
             did'.logged = did'.val
       /\ did'.op \in DOMAIN StoreModes =>
             \A a \in Cells : mem'[a] # mem[a] => mem[a] = did'.logged
       /\ did'.op \in {"JMP", "JSR"} \/ (did'.op \in Branches /\ Taken(did'.op)) =>
             did'.logged = pc']_vars

(* A return at the depth of its call or interrupt goes back to where that  *)
(* was and leaves S as it was; RTI gives back the flags too.  S may wrap.  *)
ReturnsWhereCalled ==
    [][\A f \in frames : f.depth = depth =>
          /\ f.what = "call" /\ did'.op = "RTS" => pc' = f.ret /\ reg'.S = f.reg.S
          /\ f.what = "nmi" /\ did'.op = "RTI" =>
                pc' = f.ret /\ reg'.S = f.reg.S /\ Status(reg') = Status(f.reg)]_vars

(* A 6502 cycle is a bus access: the bytes of the instruction (two at      *)
(* least), one while an index is added in zero page, a pointer's two, the  *)
(* operand, one more when the page has to be corrected, or when a write    *)
(* could not wait to know, and two to read before a write.                 *)
BusTime(d) ==
    LET writes    == d.op \in DOMAIN StoreModes \cup DOMAIN ModifyModes
        corrected == d.mode \in {"abs_x", "abs_y", "ind_y"} /\ (writes \/ d.crossing)
    IN  IF d.mode \in {"acc", "imm", "imp"} THEN 2
        ELSE Length(d.mode) + 1
             + Flag(d.mode \in {"zp_ind_x", "zp_ind_y", "ind_x"})
             + (2 * Flag(d.mode \in {"ind_x", "ind_y"}))
             + Flag(corrected) + (2 * Flag(d.op \in DOMAIN ModifyModes))

(* Every operand instruction takes as long as its bus accesses; a branch   *)
(* one cycle more when taken, and another when that leaves the page of the *)
(* next instruction.                                                       *)
TimingIsBusTime ==
    [][/\ group = "data" => did'.cycles = BusTime(did')
       /\ did'.op \in Branches =>
             LET next == (pc + 2) % 65536
             IN  did'.cycles = 2 + Flag(Taken(did'.op)) + Flag(Page(pc') # Page(next))]_vars

=============================================================================
