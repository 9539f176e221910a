---------------------------- MODULE Transactions ----------------------------
(***************************************************************************)
(* agents/src/lib/chain.ts: how a daemon writes to the chain.  A write     *)
(* simulates the call, broadcasts it and waits for its receipt; in between *)
(* the transaction is pending, and the daemon may give up or stop without  *)
(* it.  A pending transaction is mined at any later time and in any order, *)
(* and changes nothing if it reverts by then.  The receipt's status is not *)
(* looked at.                                                              *)
(***************************************************************************)
EXTENDS OracleCore

CONSTANT MaxFaults      \* bound: how often an RPC or HTTP call fails for good

VARIABLES pool,         \* pending transactions
          faults

ASSUME FaultsAssumption == MaxFaults \in Nat

AcceptTx(from, id, agent, stake) ==
    [op |-> "acceptAndStake", from |-> from, id |-> id, agent |-> agent, stake |-> stake]
BetTx(from, id, agent, side, amount, copy) ==
    [op |-> "placeBet", from |-> from, id |-> id, agent |-> agent, side |-> side,
     amount |-> amount, copy |-> copy]
RequestTx(from, id, validator, agent, hash) ==
    [op |-> "validationRequest", from |-> from, id |-> id, validator |-> validator,
     agent |-> agent, hash |-> hash]
DeliverTx(from, id, hash) ==
    [op |-> "submitDelivery", from |-> from, id |-> id, hash |-> hash]
ResponseTx(from, id, hash, response) ==
    [op |-> "validationResponse", from |-> from, id |-> id, hash |-> hash,
     response |-> response]
\* claim, settleWithValidation, settleByTimeout, withdrawValidatorFees
PlainTx(op, from, id) == [op |-> op, from |-> from, id |-> id]

\* The contract call a transaction makes.
Execute(tx) ==
    \/ tx.op = "acceptAndStake" /\ AcceptAndStake(tx.from, tx.id, tx.agent, tx.stake)
    \/ tx.op = "placeBet" /\ PlaceBet(tx.from, tx.id, tx.agent, tx.side, tx.amount)
    \/ tx.op = "validationRequest" /\ FileRequest(tx.validator, tx.agent, <<tx.id, tx.hash>>)
    \/ tx.op = "submitDelivery" /\ SubmitDelivery(tx.from, tx.id, tx.hash)
    \/ tx.op = "validationResponse" /\ Respond(tx.from, <<tx.id, tx.hash>>, tx.response)
    \/ tx.op = "settleWithValidation" /\ SettleWithValidation(tx.id)
    \/ tx.op = "settleByTimeout" /\ SettleByTimeout(tx.id)
    \/ tx.op = "withdrawValidatorFees" /\ WithdrawValidatorFees(tx.from)
    \/ tx.op = "claim" /\ Claim(tx.from, tx.id)

\* Its conditions, which are the call's guards.
Accepts(tx) ==
    \/ tx.op = "acceptAndStake" /\ MayAccept(tx.from, tx.id, tx.agent, tx.stake)
    \/ tx.op = "placeBet" /\ MayBet(tx.from, tx.id, tx.agent, tx.side, tx.amount)
    \/ tx.op = "validationRequest" /\ Validation!MayRequest(<<tx.id, tx.hash>>)
    \/ tx.op = "submitDelivery" /\ MayDeliver(tx.from, tx.id)
    \/ /\ tx.op = "validationResponse"
       /\ Validation!MayRespond(tx.from, <<tx.id, tx.hash>>, tx.response)
    \/ tx.op = "settleWithValidation" /\ MaySettle(tx.id)
    \/ tx.op = "settleByTimeout" /\ (Undelivered(tx.id) \/ Unanswered(tx.id))
    \/ tx.op = "withdrawValidatorFees" /\ MayWithdraw(tx.from)
    \/ tx.op = "claim" /\ MayClaim(tx.from, tx.id)

Reverts(tx) == ~Accepts(tx)

\* A block includes the transaction; a reverting one is included as well.
Mine(tx) ==
    /\ tx \in pool
    /\ pool' = pool \ {tx}
    /\ \/ Execute(tx)
       \/ Reverts(tx) /\ UNCHANGED vars
    /\ UNCHANGED faults

-----------------------------------------------------------------------------
(* writeAndWait, as seen by the handler that awaits it.  A handler's run    *)
(* records where it is and, while it writes, the transaction.               *)

NoRun == [at |-> "idle", sent |-> FALSE, tx |-> [op |-> "none"]]
At(stage) == [NoRun EXCEPT !.at = stage]
Writing(tx) == [at |-> tx.op, sent |-> FALSE, tx |-> tx]
InWrite(run) == run.tx.op # "none"

\* The simulation passes; the transaction is pending from now on.
Broadcast(run) ==
    /\ InWrite(run) /\ ~run.sent
    /\ ~Reverts(run.tx)
    /\ pool' = pool \cup {run.tx}
    /\ UNCHANGED <<vars, faults>>

\* The simulation reverts; withRpcRetry does not retry it.
Refused(run) ==
    /\ InWrite(run) /\ ~run.sent
    /\ Reverts(run.tx)
    /\ UNCHANGED <<vars, pool, faults>>

\* The receipt arrives; whether the call reverted is not looked at.
Receipt(run) ==
    /\ InWrite(run) /\ run.sent
    /\ run.tx \notin pool
    /\ UNCHANGED <<vars, pool, faults>>

\* Some step fails for good after its retries; a broadcast one stays pending.
CallFails ==
    /\ faults < MaxFaults
    /\ faults' = faults + 1
    /\ UNCHANGED <<vars, pool>>
=============================================================================
