------------------------------ MODULE MCNesBus ------------------------------
(* NesBus with addresses at the seams of video memory, four bytes of OAM   *)
(* and controllers of three buttons.                                       *)
EXTENDS NesBus

MCAddresses ==
    {8191, 8192, 9216, 10240, 11264,        \* $1fff, $2000, $2400, $2800, $2c00
     16128, 16129, 16144, 16160}            \* $3f00, $3f01, $3f10, $3f20
MCTables == {8192, 9216, 10240, 11264}
MCSwitches == {"vertical", "lower", "upper"}     \* all but horizontal
MCPages == {[i \in 0 .. 3 |-> 1 + (i % 2)], [i \in 0 .. 3 |-> 1 + (i \div 2)]}
MCCpuAddresses ==
    {2047, 2048, 4095, 8191,                    \* two bytes of RAM, twice each
     8192, 8200, 8199, 16383,                   \* $2000, its mirror; $2007, its mirror
     16384, 16415, 16416}                       \* the ends of the I/O page, and beyond
=============================================================================
