----------------------------- MODULE MCSession -----------------------------
(***************************************************************************)
(* The threads of MCSecureLink, on a link that begins with its handshake,   *)
(* with messages that take two reads.                                      *)
(***************************************************************************)
EXTENDS Session, TLC

CONSTANTS u, v, w

Three == {u, v, w}
Here == u :> "left" @@ v :> "left" @@ w :> "right"
Both == Ends
OnlyLeft == {"left"}
=============================================================================
