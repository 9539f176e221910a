------------------------------ MODULE MCOracle ------------------------------
(***************************************************************************)
(* Small instances of OracleCore for TLC.                                  *)
(***************************************************************************)
EXTENDS OracleSafety

CONSTANTS client, worker, validator, bettor, skeptic,   \* accounts
          aWorker, aValidator, aBettor, aSkeptic, aNew  \* agents

JobOf(poster, workerAgent, reward, deadlineIn) ==
    [client |-> poster, workerAgentId |-> workerAgent, validatorAgentId |-> aValidator,
     reward |-> reward, deadlineIn |-> deadlineIn]

Registered ==
    [agent \in Agents |-> CASE agent = aWorker -> worker
                            [] agent = aValidator -> validator
                            [] agent = aNew -> NoAccount
                            [] agent = aBettor -> bettor
                            [] agent = aSkeptic -> skeptic]

Assigned == [validator |-> validator, agentId |-> aWorker]
Misfiled == {[validator |-> bettor, agentId |-> aWorker],
             [validator |-> validator, agentId |-> aBettor]}
RightRequest == {Assigned}
SlotRequests == {Assigned, [validator |-> client, agentId |-> aWorker]}
AnyRequest == {Assigned} \cup Misfiled

\* An open job with no slack: windows collapse to the block they start in.
QuickJob == {JobOf(client, NoAgent, 3, 2)}
\* A pre-assigned job, for two instances side by side.
TwinJob == {JobOf(client, aWorker, 1, 2)}
OpenOrAssigned == {JobOf(client, NoAgent, 1, 2), JobOf(client, aWorker, 1, 3)}
\* An open job, a pre-assigned one, and one the worker posts for itself.
AllJobs == {JobOf(client, NoAgent, 1, 2), JobOf(client, aWorker, 1, 3),
            JobOf(worker, aWorker, 1, 2)}

\* The worker agent's wallet rotates to the bettor and back; the validator
\* agent is sold to the bettor.
Rotations == {[agent |-> aWorker, wallet |-> bettor], [agent |-> aWorker, wallet |-> NoAccount]}
Sales == {[agent |-> aValidator, to |-> bettor]}

\* The hypothesis of BooksExact and EarlySweepsAreDust, evaluated on every instance.
ASSUME StakesArePositive == PositiveStakes
=============================================================================
