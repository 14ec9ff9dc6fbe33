-------------------------- MODULE MCLossAccounting --------------------------
(* A small instance of LossAccounting: prices at which averages are whole.  *)
EXTENDS LossAccounting

Fill(b, q, pr) == [buy |-> b, qty |-> q, price |-> pr]
MCFills == {Fill(TRUE, 1, 6), Fill(FALSE, 2, 3)}
MCMarks == {-2}
=============================================================================
