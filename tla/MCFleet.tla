------------------------------ MODULE MCFleet ------------------------------
(***************************************************************************)
(* Small instances of the fleet for TLC.                                   *)
(***************************************************************************)
EXTENDS Fleet

CONSTANTS client, worker, validator, rival,     \* accounts
          aWorker, aValidator, aRival           \* agents

FleetJob(workerAgent, deadlineIn) ==
    {[client |-> client, workerAgentId |-> workerAgent, validatorAgentId |-> aValidator,
      reward |-> 1, deadlineIn |-> deadlineIn]}

OpenJob == FleetJob(NoAgent, 2)
AssignedJob == FleetJob(aWorker, 2)

FleetOwners ==
    [agent \in Agents |-> CASE agent = aWorker -> worker
                            [] agent = aValidator -> validator
                            [] agent = aRival -> rival]

ClockSkews == {-1, 0, 1}
OneRival == {[account |-> rival, agent |-> aRival]}
\* The slot named for the client, so the validator cannot answer.
Squatter == {[validator |-> client, agentId |-> aWorker]}
=============================================================================
