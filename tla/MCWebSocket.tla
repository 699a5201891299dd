------------------------------ MODULE MCWebSocket ------------------------------
(***************************************************************************)
(* A connection with permessage-deflate and a receiver that is full with   *)
(* two frames: three frames from the peer are enough for one to be         *)
(* inflated, one to wait behind it and one to stay in the paused socket.   *)
(***************************************************************************)
EXTENDS WebSocket
=============================================================================
