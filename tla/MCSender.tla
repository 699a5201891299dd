------------------------------- MODULE MCSender -------------------------------
(***************************************************************************)
(* Four calls of two sizes around the threshold.  With NoTakeover the small*)
(* messages go uncompressed, so compressed and plain frames mix in the     *)
(* queue; without permessage-deflate nothing may ever wait.                *)
(***************************************************************************)
EXTENDS Sender
=============================================================================
