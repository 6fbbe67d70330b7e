------------------------------- MODULE MCWithdraw -------------------------------
(* Three transactions are enough for redeem, order and refund, or redeem and
   two routes: a refund left behind also frees a form that a route holds, which
   goes on up to its broadcast. *)
EXTENDS Withdraw, TLC
=============================================================================
