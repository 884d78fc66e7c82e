------------------------------- MODULE MCMesh -------------------------------
(***************************************************************************)
(* Instances of Mesh for TLC: a host h and two joiners, of whom those named *)
(* may leave or crash, and links that may break.                           *)
(***************************************************************************)
EXTENDS Mesh, TLC

CONSTANTS h, a, b

Two == {a, b}
OnlyA == {a}
HAndB == {h, b}
All == {h, a, b}
None == {}
LinkA == {JoinLink(a)}

\* Whichever joiner dials the other, its first attempt may break.
FirstDials == {MeshLink(a, b, 1), MeshLink(b, a, 1)}

Symmetry == Permutations(Two)
=============================================================================
