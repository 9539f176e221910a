------------------------------ MODULE MCBettor ------------------------------
(***************************************************************************)
(* Small instances of one bettor among others for TLC.                     *)
(***************************************************************************)
EXTENDS BettorDaemon

CONSTANTS client, worker, validator, bettor,    \* accounts
          aWorker, aValidator, aBettor          \* agents

BettableJob ==
    {[client |-> client, workerAgentId |-> aWorker, validatorAgentId |-> aValidator,
      reward |-> 1, deadlineIn |-> 4]}

BettorOwners ==
    [agent \in Agents |-> CASE agent = aWorker -> worker
                            [] agent = aValidator -> validator
                            [] agent = aBettor -> bettor]

ClockSkews == {-1, 0, 1}
RightRequest == {[validator |-> validator, agentId |-> aWorker]}
=============================================================================
