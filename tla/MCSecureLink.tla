---- MODULE MCSecureLink ----
(***************************************************************************)
(* Two senders at one end and one at the other: frames of two pieces, and  *)
(* room for fewer pieces than are sent, so that both directions fill up.   *)
(***************************************************************************)
EXTENDS SecureLink, TLC

CONSTANTS u, v, w

Three == {u, v, w}
Here == u :> "left" @@ v :> "left" @@ w :> "right"
Neither == {}
Both == Ends
OnlyLeft == {"left"}
OnlyRight == {"right"}
====
