------------------------------ MODULE MCWsAccept ------------------------------
(***************************************************************************)
(* Two clients, so that one is accepted or verified while the other is the *)
(* last to leave, and two calls of close().  The negotiation of the        *)
(* extension, whose failure is one of the refusals of WsAccept, is         *)
(* evaluated for every pair of options over three window sizes.            *)
(***************************************************************************)
EXTENDS WsAccept, Negotiation

ASSUME NegotiationAgrees
=============================================================================
