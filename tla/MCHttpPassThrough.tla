-------------------------- MODULE MCHttpPassThrough --------------------------
(***************************************************************************)
(* Two requests, with and without an injection, and a list of up to three  *)
(* agents that is replaced once, with the index anywhere: it may point     *)
(* beyond a shorter list.                                                  *)
(***************************************************************************)
EXTENDS HttpPassThrough
=============================================================================
