------------------------------ MODULE MCReceiver ------------------------------
(***************************************************************************)
(* A server with the extension and a limit of three bytes a message, and   *)
(* streams of three frames: enough for a control frame inside a fragmented *)
(* message, for a message after another, and for an error at each place.   *)
(***************************************************************************)
EXTENDS Receiver

Data(op, last, form, length) ==
    [fin |-> last, rsv1 |-> FALSE, rsv23 |-> FALSE, opcode |-> op, masked |-> TRUE,
     form |-> form, length |-> length, inflated |-> 0, text |-> "ok", code |-> 0]

Deflating(f, inflated) == [f EXCEPT !.rsv1 = TRUE, !.inflated = inflated]

MCFrames == {
    Data(1, TRUE, 7, 2),
    [Data(1, FALSE, 16, 1) EXCEPT !.text = "head"],
    [Data(0, TRUE, 7, 2) EXCEPT !.text = "tail", !.inflated = 2],
    Data(0, FALSE, 7, 0),
    Data(2, TRUE, 64, 3),
    Deflating(Data(2, FALSE, 7, 1), 2),
    Deflating(Data(1, TRUE, 7, 1), 1),
    Data(9, TRUE, 7, 1),
    Data(8, TRUE, 7, 0),
    [Data(8, TRUE, 7, 2) EXCEPT !.code = 1000]}

MCFaulty == {
    [Data(1, TRUE, 7, 1) EXCEPT !.text = "bad"],
    [Data(2, TRUE, 7, 1) EXCEPT !.masked = FALSE],
    Data(2, TRUE, 64, Unsafe),
    Data(9, FALSE, 7, 0),
    Deflating(Data(1, TRUE, 7, 1), Corrupt),
    [Data(8, TRUE, 7, 2) EXCEPT !.code = 1005]}

MCAll == MCFrames \cup MCFaulty
=============================================================================
