------------------------------ MODULE MCAgents ------------------------------
(***************************************************************************)
(* A small fleet for TLC.                                                  *)
(***************************************************************************)
EXTENDS AgentSafety

SmallFleet == <<"worker", "validator", "bettorRep", "bettorSkeptic", "bettorMirror">>
SmallNeedsUsdc == <<"worker", "bettorRep", "bettorSkeptic", "bettorMirror">>
SmallNeedsGas == SmallFleet \o <<"relayer">>
\* No record, a bad and a good one.
SomeHistories == {[n |-> 0, wins |-> 0], [n |-> 3, wins |-> 1], [n |-> 3, wins |-> 2]}
\* The worker has lost stakes, the skeptic nearly all it had, RepBot has won.
SomePurses ==
    {[r \in ToSet(SmallNeedsGas) |->
        CASE r = "worker" -> 1500 [] r = "bettorSkeptic" -> 1895 [] r = "bettorRep" -> -100 [] OTHER -> 0]}
SomeModelBets ==
    {[action |-> "bet", side |-> "No", amount |-> 0],
     [action |-> "bet", side |-> "Yes", amount |-> 250]}
=============================================================================
