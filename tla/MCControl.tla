------------------------------ MODULE MCControl -----------------------------
(***************************************************************************)
(* Small instances of the control plane for TLC.                           *)
(***************************************************************************)
EXTENDS ControlSafety, TLC

CONSTANTS m1, m2, b1, b2,    \* requests: two markets and two bets
          q1, q2             \* questions of custom markets

Alike == Permutations({m1, m2}) \cup Permutations({b1, b2}) \cup Permutations({q1, q2})
=============================================================================
