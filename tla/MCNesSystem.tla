---------------------------- MODULE MCNesSystem ----------------------------
(* NesSystem on a console with a tiny screen, short instructions and an    *)
(* OAM DMA of 3 or 4 cycles.                                               *)
EXTENDS NesSystem

MCInstrCycles == {1, 2}
MCStepSizes == {1, 2}
MCStopFrames == {0, 1}
=============================================================================
