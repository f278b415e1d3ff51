---------------------------- MODULE MCFrameRendering ----------------------------
(* Model-checking instance of FrameRendering.  Glyphs are only compared for *)
(* equality.                                                               *)
EXTENDS FrameRendering

Symmetry == Permutations(Glyphs)
===============================================================================
