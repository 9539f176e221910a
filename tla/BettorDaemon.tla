---------------------------- MODULE BettorDaemon ----------------------------
(***************************************************************************)
(* agents/src/lib/bettor-runtime.ts: the loop the three bettors share.     *)
(* Each tick reads the server's task list and the clock once and then      *)
(* works from that copy, one transaction at a time; the list lags behind   *)
(* the chain and the copy behind the list.  The decision is an input.      *)
(***************************************************************************)
EXTENDS Transactions

CONSTANTS Bettor, BettorAgent,
          Skews,            \* Date.now() minus the chain's clock
          BET_MARGIN,       \* seconds a bet needs to land (2 in the code)
          MaxRestarts

VARIABLES rows,             \* the tick's copy of the task list
          bRun,             \* the write in progress
          acted, betOn, claimedBets,
          restarts

ASSUME BettorAssumption ==
    /\ Bettor \in Accounts /\ BettorAgent \in Agents
    /\ Skews \subseteq Int /\ BET_MARGIN \in Nat /\ MaxRestarts \in Nat

memory == <<acted, betOn, claimedBets>>
bettorVars == <<vars, pool, faults, rows, bRun, memory, restarts>>

\* Too late to land a bet, by the tick's clock.
TooLate(id, skew) ==
    tasks[id].betCutoff # 0 /\ tasks[id].betCutoff <= now + skew + BET_MARGIN

\* What a tick may read.
Readings ==
    {[id \in TaskIds |-> [state |-> tasks[id].state, late |-> TooLate(id, skew)]] :
        skew \in Skews}

BettorInit ==
    /\ Init /\ pool = {} /\ faults = 0 /\ restarts = 0
    /\ rows \in Readings
    /\ bRun = NoRun
    /\ acted = {} /\ betOn = {} /\ claimedBets = {}

\* A tick begins.
Polls ==
    /\ bRun = NoRun
    /\ rows' \in Readings
    /\ UNCHANGED <<vars, pool, faults, bRun, memory, restarts>>

\* Seeded fault: what was decided is not looked up.
NothingDecided == {}

\* Tasks already decided on, bet or abstain.
Decided == acted

\* The bet is marked before it is placed.
Decides(id) ==
    /\ bRun = NoRun
    /\ rows[id].state = "Open" /\ ~rows[id].late
    /\ id \notin Decided
    /\ acted' = acted \cup {id}
    /\ \/ bRun' = NoRun                                    \* abstain
       \/ \E side \in Sides, amount \in Bets :
             bRun' = Writing(BetTx(Bettor, id, BettorAgent, side, amount, 1))
    /\ UNCHANGED <<vars, pool, faults, rows, betOn, claimedBets, restarts>>

\* Seeded fault: a delivered task is taken for a settled one.
DeliveredWillDo(row) == row.state \in {"Delivered", "Settled"}

ReadyToClaim(row) == row.state = "Settled"

\* One attempt: the mark stays whatever becomes of the call.
Claims(id) ==
    /\ bRun = NoRun
    /\ id \in betOn \ claimedBets
    /\ ReadyToClaim(rows[id])
    /\ claimedBets' = claimedBets \cup {id}
    /\ bRun' = Writing(PlainTx("claim", Bettor, id))
    /\ UNCHANGED <<vars, pool, faults, rows, acted, betOn, restarts>>

Sends ==
    /\ Broadcast(bRun)
    /\ bRun' = [bRun EXCEPT !.sent = TRUE]
    /\ UNCHANGED <<rows, memory, restarts>>

\* The node took the bet but its reply was lost: withRpcRetry broadcasts it again.
Resends ==
    /\ bRun.at = "placeBet" /\ bRun.sent /\ bRun.tx.copy = 1
    /\ faults < MaxFaults /\ faults' = faults + 1
    /\ ~Reverts(bRun.tx)
    /\ bRun' = [bRun EXCEPT !.tx.copy = 2]
    /\ pool' = pool \cup {[bRun.tx EXCEPT !.copy = 2]}
    /\ UNCHANGED <<vars, rows, memory, restarts>>

Hears ==
    /\ Receipt(bRun)
    /\ bRun' = NoRun
    /\ betOn' = IF bRun.at = "placeBet" THEN betOn \cup {bRun.tx.id} ELSE betOn
    /\ UNCHANGED <<rows, acted, claimedBets, restarts>>

\* A revert or a failed call is logged, whichever write it was.
GivesUp ==
    /\ InWrite(bRun)
    /\ Refused(bRun) \/ CallFails
    /\ bRun' = NoRun
    /\ UNCHANGED <<rows, memory, restarts>>

BettorRestarts ==
    /\ restarts < MaxRestarts /\ restarts' = restarts + 1
    /\ bRun' = NoRun
    /\ acted' = {} /\ betOn' = {} /\ claimedBets' = {}
    /\ rows' \in Readings
    /\ UNCHANGED <<vars, pool, faults>>

BettorStep == Polls \/ Sends \/ Hears \/ GivesUp \/ \E id \in TaskIds : Claims(id)

-----------------------------------------------------------------------------
(* Everybody else calls the contracts as they like. *)

Settles == \E id \in TaskIds : SettleWithValidation(id) \/ SettleByTimeout(id)

Others ==
    \/ \E job \in Jobs : CreateTask(job)
    \/ Settles
    \/ \E a \in Accounts \ {Bettor}, id \in TaskIds :
          \/ \E agent \in Agents, stake \in Stakes : AcceptAndStake(a, id, agent, stake)
          \/ \E hash \in Hashes : SubmitDelivery(a, id, hash)
    \/ \E request \in Requests, hash \in RequestHashes :
          FileRequest(request.validator, request.agentId, hash)
    \/ \E a \in Accounts, hash \in RequestHashes, response \in Responses :
          Respond(a, hash, response)

ChainStep == Tick \/ Others

BettorNext ==
    \/ ChainStep /\ UNCHANGED <<pool, faults, rows, bRun, memory, restarts>>
    \/ \E tx \in pool : Mine(tx) /\ UNCHANGED <<rows, bRun, memory, restarts>>
    \/ BettorStep
    \/ \E id \in TaskIds : Decides(id)
    \/ Resends
    \/ BettorRestarts

BettorSpec == BettorInit /\ [][BettorNext]_bettorVars

(* The loop runs, every 3 s; pending transactions are mined.  Whether to    *)
(* bet is a free choice, and nobody else is fair.                           *)
FairBettor ==
    /\ BettorSpec
    /\ WF_bettorVars(Polls) /\ WF_bettorVars(Sends) /\ WF_bettorVars(Hears)
    /\ WF_bettorVars(bRun.tx.op # "none" /\ ~bRun.sent /\ GivesUp)
    /\ \A id \in TaskIds : WF_bettorVars(Claims(id))
    /\ WF_bettorVars(\E tx \in pool : Mine(tx) /\ UNCHANGED <<rows, bRun, memory, restarts>>)

-----------------------------------------------------------------------------

Position(id) == positions[id][Bettor]["Yes"] + positions[id][Bettor]["No"]
Failures == restarts + faults

(* However the list lags, the loop interleaves with the chain and pending   *)
(* bets outlive the process: a bettor has at most one bet on a task, plus   *)
(* one for every restart and every lost reply.                              *)
EachFailureCostsOneBet ==
    \A id \in TaskIds, most \in Bets :
        (\A amount \in Bets : amount <= most) => Position(id) <= most * (1 + Failures)

(* A bettor that is owed money on a settled task gets it, provided that its *)
(* process has not been restarted and its calls have returned.              *)
BettorIsPaid ==
    \A id \in TaskIds :
        PreviewPayout(id, Bettor) > 0 ~> Bettor \in claimed[id] \/ Failures > 0
=============================================================================
