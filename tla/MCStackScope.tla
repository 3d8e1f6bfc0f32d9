--------------------------- MODULE MCStackScope ---------------------------
(* Instances of StackScope for TLC.  The isolates are interchangeable, and *)
(* so are the Fibers other than the root Fiber.                            *)
EXTENDS StackScope, TLC

Symmetry == Permutations(Isolates) \cup Permutations(Fibers \ {MainFiber})
=============================================================================
