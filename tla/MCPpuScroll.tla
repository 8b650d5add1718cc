---------------------------- MODULE MCPpuScroll ----------------------------
(* PpuScroll on a screen of two by two tiles, with one row of attributes   *)
(* below each name table.  The guest acts in vblank, between two accesses  *)
(* of a fetch and in a prefetch.                                           *)
EXTENDS PpuScroll

MCSlots == {<<4, 0>>, <<1, 5>>, <<1, 12>>}
MCVBlank == {<<4, 0>>}
=============================================================================
