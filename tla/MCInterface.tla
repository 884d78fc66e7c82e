---------------------------- MODULE MCInterface ----------------------------
(***************************************************************************)
(* Three attempts, so that one can fail late while another is shown and a  *)
(* third is begun; two requests and two offers, in either room.            *)
(***************************************************************************)
EXTENDS Interface, TLC

CONSTANTS n1, n2, n3, r1, r2, o1, o2

Three == {n1, n2, n3}
TwoRequests == {r1, r2}
TwoOffers == {o1, o2}
Alike == Permutations(Three) \cup Permutations(TwoRequests) \cup Permutations(TwoOffers)
=============================================================================
