------------------------- MODULE MCPerMessageDeflate -------------------------
(***************************************************************************)
(* Two connections over a limiter with one slot: the job of one waits for  *)
(* that of the other, in both directions, while either is cleaned up.      *)
(***************************************************************************)
EXTENDS PerMessageDeflate

MCMaxCalls == [deflate |-> 2, inflate |-> 1]
=============================================================================
