---------------------------- MODULE VideoMemory ----------------------------
(***************************************************************************)
(* What the memory behind $2006 and $2007 promises a program: two name     *)
(* tables that the cartridge's wiring shows at four places, a palette,     *)
(* pattern memory, and a read port that is one read late except for the    *)
(* palette.                                                                *)
(*                                                                         *)
(* The cells are those of VideoMap, not addresses: NesBus, which keeps one *)
(* array of bytes and rewrites addresses, implements this.                 *)
(***************************************************************************)
EXTENDS VideoMap

CONSTANTS
    Addresses,      \* the addresses the program uses, below $3000 or from $3f00
    Values,         \* the bytes it stores
    Increments      \* what an access adds to the address

VARIABLES
    wiring,         \* "vertical", "horizontal", "lower" or "upper"
    cell,           \* the byte in every cell
    address,        \* where the port is
    increment,
    late,           \* the byte the next read returns
    seen            \* the byte the last read has returned

vars == <<wiring, cell, address, increment, late, seen>>

Cells == {Cell(w, a) : w \in Wirings, a \in WithUnder(Addresses)}

Init ==
    /\ wiring \in Wirings
    /\ cell = [c \in Cells |-> 0]
    /\ address = 0 /\ increment = 1 /\ late = 0 /\ seen = 0

SetAddress(a) == address' = a /\ UNCHANGED <<wiring, cell, increment, late, seen>>

SetIncrement(n) == increment' = n /\ UNCHANGED <<wiring, cell, address, late, seen>>

Write(val) ==
    /\ address \in Addresses
    /\ cell' = [cell EXCEPT ![Cell(wiring, address)] = val]
    /\ address' = address + increment
    /\ UNCHANGED <<wiring, increment, late, seen>>

Read ==
    /\ address \in Addresses
    /\ IF IsPalette(address)
         THEN /\ seen' = cell[Cell(wiring, address)]
              /\ late' = cell[Cell(wiring, Under(address))]
         ELSE /\ seen' = late
              /\ late' = cell[Cell(wiring, address)]
    /\ address' = address + increment
    /\ UNCHANGED <<wiring, cell, increment>>

(* The cartridge rewires the name tables: their content stays.             *)
Rewire(w) == wiring' = w /\ UNCHANGED <<cell, address, increment, late, seen>>

Next ==
    \/ \E a \in Addresses : SetAddress(a)
    \/ \E n \in Increments : SetIncrement(n)
    \/ \E val \in Values : Write(val)
    \/ Read
    \/ \E w \in Wirings : Rewire(w)

Spec == Init /\ [][Next]_vars

=============================================================================
