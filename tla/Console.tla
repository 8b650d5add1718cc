------------------------------ MODULE Console ------------------------------
(***************************************************************************)
(* What the machine promises a program and whoever runs it: a series of    *)
(* frames, each a picture and then a vblank, in one line of time.          *)
(*                                                                         *)
(* There are no clocks, no dots and no turns of two components here.       *)
(* NesSystem, which lets one component run ahead of the other and passes   *)
(* flags between them, implements this.                                    *)
(***************************************************************************)
EXTENDS Integers

CONSTANTS
    Limits,         \* how many frames a run may be limited to
    NoLimit         \* a run without a limit

VARIABLES
    part,           \* of the frame: "picture" or "vblank"
    flag,           \* what $2002 says of the vblank
    nmi,            \* has an NMI been raised that the program has not taken?
    frame,          \* frames completed
    limit,          \* the frame after which the run ends
    halted

vars == <<part, flag, nmi, frame, limit, halted>>

Init ==
    /\ part = "picture" /\ flag = FALSE /\ nmi = FALSE
    /\ frame = 0 /\ limit \in Limits \cup {NoLimit}
    /\ halted = FALSE

(* The one moment at which the flag rises and an NMI may be raised.  The   *)
(* previous NMI has been taken.                                            *)
BeginVBlank ==
    /\ ~halted /\ part = "picture" /\ ~nmi
    /\ part' = "vblank" /\ flag' = TRUE /\ nmi' \in BOOLEAN
    /\ UNCHANGED <<frame, limit, halted>>

(* The flag falls once: when the program reads it, or at the latest before *)
(* the frame ends.                                                         *)
LowerFlag ==
    /\ ~halted /\ part = "vblank" /\ flag
    /\ flag' = FALSE
    /\ halted' \in BOOLEAN
    /\ UNCHANGED <<part, nmi, frame, limit>>

TakeNmi ==
    /\ ~halted /\ part = "vblank" /\ nmi
    /\ nmi' = FALSE
    /\ halted' \in BOOLEAN
    /\ UNCHANGED <<part, flag, frame, limit>>

(* A frame ends with nothing of it left over, and the last one halts.      *)
EndFrame ==
    /\ ~halted /\ part = "vblank" /\ ~flag /\ ~nmi
    /\ part' = "picture" /\ frame' = frame + 1
    /\ halted' = (limit # NoLimit /\ frame + 1 > limit)
    /\ UNCHANGED <<flag, nmi, limit>>

Halt ==
    /\ ~halted /\ halted' = TRUE
    /\ UNCHANGED <<part, flag, nmi, frame, limit>>

Next == BeginVBlank \/ LowerFlag \/ TakeNmi \/ EndFrame \/ Halt

Spec == Init /\ [][Next]_vars
=============================================================================
