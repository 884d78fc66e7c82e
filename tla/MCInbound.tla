----------------------------- MODULE MCInbound -----------------------------
(***************************************************************************)
(* Two callers, a queue that one of them fills, and budgets that run out.  *)
(***************************************************************************)
EXTENDS Inbound

CONSTANTS p, q

Pair == {p, q}
=============================================================================
