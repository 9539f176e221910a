------------------------------- MODULE MCFeed -------------------------------
(***************************************************************************)
(* Small instances of the console's data path for TLC.                     *)
(***************************************************************************)
EXTENDS FeedSafety

CONSTANTS t1, t2    \* tasks

YesAndNo == {[outcome |-> "Yes", score |-> 80], [outcome |-> "No", score |-> 79]}

\* What a run recorded when t1 was new: its row, its first bet, an item.
EarlierRun ==
    {[type |-> "task", task |-> t1, row |-> [state |-> "Created", yes |-> 0, no |-> 0,
                                             outcome |-> "-", score |-> -1]],
     [type |-> "bet", task |-> t1, bet |-> [id |-> 1, task |-> t1, yes |-> 3, no |-> 0,
                                                     amount |-> 1, pBps |-> 10000]],
     [type |-> "item", item |-> 0]}
=============================================================================
