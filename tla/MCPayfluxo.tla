----------------------------- MODULE MCPayfluxo -----------------------------
(* Instances of Payfluxo for TLC. *)
EXTENDS Payfluxo

CONSTANTS t1, t2, p1, p2  \* model values

=============================================================================
