------------------------------- MODULE MCChat -------------------------------
(***************************************************************************)
(* A host and a member who write, and a member who reads and may leave; the *)
(* link of the two writers may break, and the members' link may never have  *)
(* been made.  The window followed, a's, can hold fewer rows than there are.*)
(***************************************************************************)
EXTENDS Chat

CONSTANTS h, a, b

Three == {h, a, b}
OnlyA == {a}
OnlyB == {b}
HAndA == {h, a}
LinkHA == {{h, a}}
FullOrNot == {Links, Links \ {{a, b}}}
OneByA == [n \in Three |-> IF n = a THEN 1 ELSE 0]
=============================================================================
