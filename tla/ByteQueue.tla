------------------------------ MODULE ByteQueue ------------------------------
(***************************************************************************)
(* What a Buffer promises: a sequence of bytes.  Bytes are put at the back,*)
(* taken from either end, and a header may be put in front.  op is the     *)
(* call that was made: its kind, its bytes and its count.                  *)
(***************************************************************************)
EXTENDS Naturals, Sequences

VARIABLES content, op

vars == <<content, op>>

Init == content = <<>> /\ op = [kind |-> "none", data |-> <<>>, n |-> 0]

Put == op'.kind = "put" /\ content' = content \o op'.data
PutFront == op'.kind = "putFront" /\ content' = op'.data \o content
Take == op'.kind = "take" /\ content' = SubSeq(content, op'.n + 1, Len(content))
TakeBack == op'.kind = "takeBack" /\ content' = SubSeq(content, 1, Len(content) - op'.n)
MakeRoom == op'.kind = "none" /\ content' = content

Next == Put \/ PutFront \/ Take \/ TakeBack \/ MakeRoom

Spec == Init /\ [][Next]_vars
=============================================================================
