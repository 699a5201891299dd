------------------------------ MODULE MCLimiter ------------------------------
(***************************************************************************)
(* Four jobs and two slots: the queue reaches length two and slots are     *)
(* handed over in every order.                                             *)
(***************************************************************************)
EXTENDS Limiter, TLC
=============================================================================
