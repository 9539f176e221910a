------------------------- MODULE ValidationRegistry -------------------------
(***************************************************************************)
(* The ERC-8004 validation registry OracleCore settles from.  A request is *)
(* filed once per request hash, by anyone, and fixes who may answer and    *)
(* about which agent; the named validator answers once.                    *)
(***************************************************************************)
EXTENDS Integers

CONSTANTS Accounts, NoAccount, Agents, NoAgent,
          RequestHashes     \* the keccak values the deployment can meet

VARIABLE status             \* request hash -> stored Status

NoStatus == [validator |-> NoAccount, agentId |-> NoAgent,
             response |-> 0, respondedAt |-> 0]

ValidationTypeOK ==
    status \in [RequestHashes -> [validator : Accounts \cup {NoAccount},
                                  agentId : Agents \cup {NoAgent},
                                  response : 0..100, respondedAt : Nat]]

MayRequest(hash) == status[hash].validator = NoAccount

ValidationRequest(validator, agent, hash) ==
    /\ MayRequest(hash)
    /\ status' = [status EXCEPT ![hash] =
                    [validator |-> validator, agentId |-> agent,
                     response |-> 0, respondedAt |-> 0]]

\* Seeded fault: the score is not checked against 100.
ResponseUnchecked(sender, hash, response) ==
    status[hash].validator = sender /\ status[hash].respondedAt = 0

MayRespond(sender, hash, response) ==
    /\ status[hash].validator = sender
    /\ status[hash].respondedAt = 0
    /\ response <= 100

ValidationResponse(sender, hash, response, time) ==
    /\ MayRespond(sender, hash, response)
    /\ status' = [status EXCEPT ![hash].response = response,
                                ![hash].respondedAt = time]
=============================================================================
