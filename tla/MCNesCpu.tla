------------------------------ MODULE MCNesCpu ------------------------------
(* NesCpu with bytes at the seams: operands around 0, 127 and 255, pointers *)
(* across the ends of pages, a stack that wraps and code at a page end.    *)
EXTENDS NesCpu, TLC

MCAccs == {0, 1, 15, 127, 128, 254, 255}
MCIndexes == {0, 1, 255}
MCLows == {0, 1, 127, 128, 255}
MCZeroPage == (0 :> 2) @@ (1 :> 2) @@ (2 :> 2) @@ (3 :> 2) @@ (126 :> 255) @@ (127 :> 128)
              @@ (128 :> 2) @@ (129 :> 3) @@ (130 :> 0) @@ (254 :> 127) @@ (255 :> 255)
MCData == {512, 513, 514, 515, 639, 640, 641, 766, 767, 768, 769, 770, 894, 895, 1022}
MCStack == {256 + s : s \in 0 .. 9 \cup 244 .. 255}
MCMem0 ==
    MCZeroPage @@ [a \in MCData |-> <<128, 255, 127, 0, 1>>[(a % 5) + 1]]
    @@ [a \in MCStack |-> a % 4] @@ (65530 :> 253) @@ (65531 :> 144)
MCCells == DOMAIN MCMem0
MCTargets == {<<253, 128>>, <<255, 2>>}     \* $80fd, where code begins, and $02ff
=============================================================================
