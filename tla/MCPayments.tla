----------------------------- MODULE MCPayments -----------------------------
(***************************************************************************)
(* Small instances of the payment path for TLC.                            *)
(***************************************************************************)
EXTENDS PaymentSafety

CONSTANTS rep, worker    \* the buyers

\* Two ticks' worth of trust but for a little; input and intake but for one of them.
SmallFunds == [b \in Buyers |-> IF b = rep THEN 11 ELSE 15]
=============================================================================
