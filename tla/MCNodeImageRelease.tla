------------------------- MODULE MCNodeImageRelease -------------------------
(* Small instances of NodeImageRelease for TLC.                            *)
EXTENDS NodeImageRelease

CONSTANT x

(* Every release its own image, or all of them one.                        *)
OneImage == [r \in Releases |-> x]
=============================================================================
