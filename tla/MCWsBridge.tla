------------------------------ MODULE MCWsBridge ------------------------------
(***************************************************************************)
(* The two joined connections under three configurations:                  *)
(*   Messages: three client messages, so that two can wait in queueData    *)
(*             while the third is sent directly; close frames with and     *)
(*             without a code, and a destination that may leave abruptly;  *)
(*   Close:    every kind of frame and both peers free to leave abruptly;  *)
(*   Stuck:    a close frame without a code.                               *)
(***************************************************************************)
EXTENDS WsBridge
=============================================================================
