---------------------------- MODULE MCRenderQueue ----------------------------
(* Instances of RenderQueue for TLC: model values come from the .cfg files.  *)
EXTENDS RenderQueue, TLC

\* Renders and processes are interchangeable (safety runs only).
RowSymmetry == Permutations(Renders) \cup Permutations(Procs)
=============================================================================
