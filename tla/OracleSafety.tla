---------------------------- MODULE OracleSafety ----------------------------
(***************************************************************************)
(* What OracleCore must never do, stated over the state of module          *)
(* OracleCore.                                                             *)
(***************************************************************************)
EXTENDS OracleCore, Sums

TaskStates == {"None", "Created", "Open", "Delivered", "Settled", "Cancelled"}
Terminal == {"Settled", "Cancelled"}

Task == [client : Accounts \cup {NoAccount}, workerAgentId : Agents \cup {NoAgent},
         validatorAgentId : Agents \cup {NoAgent},
         validatorWallet : Accounts \cup {NoAccount},
         reward : Nat, createdAt : Nat, deadline : Nat,
         workerWallet : Accounts \cup {NoAccount}, selfStake : Nat, betCutoff : Nat,
         deliveredAt : Nat, deliverableHash : Hashes \cup {NoHash},
         state : TaskStates, outcome : Sides \cup {"Unresolved"},
         pool : [Sides -> Nat]]

MarketTypeOK ==
    /\ tasks \in [TaskIds -> Task]
    /\ positions \in [TaskIds -> [Accounts -> [Sides -> Nat]]]
    /\ nextTaskId \in 1..(MaxTasks + 1)
    /\ bettorCount \in [TaskIds -> [Sides -> Nat]]

BooksTypeOK ==
    /\ claimed \in [TaskIds -> SUBSET Accounts]
    /\ treasuryAccrued \in Nat
    /\ validatorAccrued \in [Accounts -> Nat]
    /\ settledAt \in [TaskIds -> Nat]
    /\ claimedTotal \in [TaskIds -> Nat]
    /\ pendingClaims \in [TaskIds -> Nat]
    /\ dustSwept \in [TaskIds -> BOOLEAN]
    /\ viaRule \in [TaskIds -> 0..5]
    /\ feedback \in [TaskIds -> Seq({0, 100})]

RegistriesTypeOK == Validation!ValidationTypeOK /\ Identity!IdentityTypeOK

(* Every variable has the type the contracts' storage gives it.             *)
TypeOK ==
    /\ now \in Nat /\ paused \in BOOLEAN /\ escrow \in Nat
    /\ MarketTypeOK
    /\ BooksTypeOK
    /\ RegistriesTypeOK

-----------------------------------------------------------------------------
(* Money. *)

\* The part of the contract's USDC that still belongs to task id.
Held(id) ==
    LET t == tasks[id] IN
    IF dustSwept[id] THEN 0
    ELSE Pot(t) - claimedTotal[id]
           - (IF t.state = "Settled" THEN Fee(Losing(t)) ELSE 0)

EscrowAddsUp ==
    escrow = Total([id \in TaskIds |-> Held(id)], TaskIds)
               + treasuryAccrued + Total(validatorAccrued, Accounts)

PotsCoverClaims ==
    \A id \in TaskIds :
        Total([a \in Accounts |-> PreviewPayout(id, a)], Accounts) <= Held(id)

(* I-1, S7: the contract holds exactly what it owes to tasks, treasury and  *)
(* validators, and what a finished task still holds covers every payout its *)
(* participants can still claim.  Fails if a fee is taken twice, a floor is *)
(* rounded up, a sweep takes unclaimed money, or a pool misses a position.  *)
Solvency == EscrowAddsUp /\ PotsCoverClaims

(* _pendingClaims, which unlocks the early dust sweep, is the number of     *)
(* accounts that can still claim: bettors, plus the client after a NO, each *)
(* counted once whatever sides and roles they have.                         *)
PendingClaimsExact ==
    \A id \in TaskIds : tasks[id].state \in Terminal /\ ~dustSwept[id] =>
        pendingClaims[id] = Cardinality({a \in Accounts : PreviewPayout(id, a) > 0})

PositionsOn(id, side) == [a \in Accounts |-> positions[id][a][side]]

(* The pools payouts are divided by are the sums of the positions they are  *)
(* paid on.                                                                 *)
PoolsBackedByPositions ==
    \A id \in TaskIds, side \in Sides :
        tasks[id].pool[side] = Total(PositionsOn(id, side), Accounts)

(* The bettor counts are the numbers of non-zero positions.                 *)
BettorsCounted ==
    \A id \in TaskIds, side \in Sides :
        bettorCount[id][side] = Cardinality({a \in Accounts : positions[id][a][side] > 0})

(* The books that decide on payouts and sweeps are those of the positions:  *)
(* claims to wait for, pools and bettors.                                   *)
BooksMatchPositions == PendingClaimsExact /\ PoolsBackedByPositions /\ BettorsCounted

(* A sweep before the 30 days takes rounding dust only: less than one unit  *)
(* per winner (docs 6.5), never a claim somebody has yet to make.           *)
EarlySweepTakesOnlyDust ==
    [][\A id \in TaskIds :
          dustSwept'[id] # dustSwept[id] /\ now < settledAt[id] + DUST_SWEEP_DELAY
             => Held(id) = 0 \/ Held(id) < bettorCount[id][tasks[id].outcome]]_vars

(* R6: once a task is finished, what each account can claim from it can     *)
(* only go to zero (by its claim or by the sweep); no later call, registry  *)
(* answer or wallet change alters an amount.                                *)
EntitlementsFrozen ==
    [][\A id \in TaskIds : tasks[id].state \in Terminal =>
          /\ tasks'[id] = tasks[id]
          /\ \A a \in Accounts : PreviewPayout(id, a)' \in {0, PreviewPayout(id, a)}]_vars

-----------------------------------------------------------------------------
(* Evidence and roles. *)

(* The market freeze: from the first instant at which the worker could     *)
(* deliver, and for good once it has, no position and no pool changes, so   *)
(* nobody who sees a delivery coming can still bet on it.                   *)
NoBetAgainstADelivery ==
    [][\A id \in TaskIds :
          MayDeliver(tasks[id].workerWallet, id) \/ tasks[id].deliveredAt # 0
             => positions'[id] = positions[id] /\ tasks'[id].pool = tasks[id].pool]_vars

\* The rule and outcome of a settled task are the ones its evidence calls for.
DecidedByEvidence(id) ==
    LET t == tasks[id] IN
    IF t.deliveredAt = 0
    THEN viaRule[id] = 1 /\ t.outcome = "No" /\ settledAt[id] > t.deadline
    ELSE IF HasValidResponse(id)
    THEN IF StatusOf(id).response >= VALIDATION_THRESHOLD
         THEN viaRule[id] = 2 /\ t.outcome = "Yes"
         ELSE viaRule[id] = 3 /\ t.outcome = "No"
    ELSE /\ settledAt[id] > RespondUntil(t)
         /\ \/ viaRule[id] = 4 /\ settledAt[id] <= AttestUntil(t) /\ t.outcome \in Sides
            \/ viaRule[id] = 5 /\ settledAt[id] > AttestUntil(t) /\ t.outcome = "Yes"

(* R1-R5, judged at any later time: undelivered means R1; a timely answer   *)
(* of the assigned validator means R2/R3 by its score, whatever the client  *)
(* attested and whichever crank ran first; otherwise R4 in the grace window *)
(* or R5 after it.  No later answer, request or wallet change makes the     *)
(* outcome look wrong.  At most one reputation row is posted, with it.      *)
DecidedByTheBestEvidence ==
    \A id \in TaskIds : tasks[id].state = "Settled" =>
        /\ DecidedByEvidence(id)
        /\ feedback[id] \in {<<>>, <<IF tasks[id].outcome = "Yes" THEN 100 ELSE 0>>}

(* B2 as the code keeps it: the worker never holds NO on its own task, and  *)
(* a client or validator holds no position unless it is also the worker.    *)
RolesKeepTheirSide ==
    \A id \in TaskIds, a \in Accounts :
        LET t == tasks[id] IN
        /\ a = t.workerWallet => positions[id][a]["No"] = 0
        /\ a \in {t.client, t.validatorWallet} \ {t.workerWallet} =>
              \A side \in Sides : positions[id][a][side] = 0

(* What the parties are staking on, whatever roles rotated since: a worker  *)
(* gets its stake and the reward back only on YES, a failed worker that did *)
(* not post the job itself gets nothing on NO, and a validator that is not  *)
(* also client or worker gets nothing that depends on its own answer.       *)
IncentivesAlign ==
    \A id \in TaskIds : tasks[id].state = "Settled" =>
        LET t == tasks[id] IN
        /\ t.outcome = "Yes" => Entitlement(id, t.workerWallet) >= t.selfStake + t.reward
        /\ t.outcome = "No" /\ t.workerWallet # t.client => Entitlement(id, t.workerWallet) = 0
        /\ t.validatorWallet \notin {t.client, t.workerWallet} =>
              Entitlement(id, t.validatorWallet) = 0

(* The contract implements the abstract pots: every reachable step is one   *)
(* the promise allows, and no step moves money between two tasks.           *)
Promise == INSTANCE PotEscrow WITH
    Ids <- TaskIds,
    Payees <- Accounts \cup {NoAccount},
    Treasury <- NoAccount,
    phase <- [id \in TaskIds |-> tasks[id].state],
    outcome <- [id \in TaskIds |-> tasks[id].outcome],
    pot <- [id \in TaskIds |-> Held(id)],
    accrued <- [p \in Accounts \cup {NoAccount} |->
                  IF p = NoAccount THEN treasuryAccrued ELSE validatorAccrued[p]]

ImplementsPotEscrow == Promise!Spec

-----------------------------------------------------------------------------
(* The inductive invariant behind the theorems: what has to be true of a    *)
(* task in each state for the properties above to survive every step.       *)

TaskShape ==
    \A id \in TaskIds :
        /\ id >= nextTaskId => tasks[id] = NoTask
        /\ tasks[id].state \notin {"Open", "Delivered", "Settled"} =>
              tasks[id].pool = [s \in Sides |-> 0]
        /\ \A a \in Accounts, s \in Sides : positions[id][a][s] <= tasks[id].pool[s]
        /\ tasks[id].state # "None" => tasks[id].validatorWallet \in Accounts

\* A stored answer is not from the future, and its request cannot be refiled.
AnswerShape ==
    \A hash \in RequestHashes :
        /\ status[hash].respondedAt <= now
        /\ status[hash].respondedAt # 0 => status[hash].validator # NoAccount

EvidenceShape ==
    \A id \in TaskIds :
        /\ settledAt[id] <= now
        /\ tasks[id].state = "Delivered" => tasks[id].deliveredAt # 0
        /\ tasks[id].deliveredAt # 0 =>
              tasks[id].state \in {"Delivered", "Settled"}
                /\ tasks[id].deliverableHash \in Hashes
        /\ tasks[id].state # "Settled" =>
              tasks[id].outcome = "Unresolved" /\ feedback[id] = <<>>

\* The worker's self-stake is part of its YES position for good.
StakeKept ==
    \A id \in TaskIds : tasks[id].state \in {"Open", "Delivered", "Settled"} =>
        /\ tasks[id].workerWallet \in Accounts
        /\ tasks[id].selfStake <= positions[id][tasks[id].workerWallet]["Yes"]

\* What the claims have taken out of task id's pot so far, account by account.
ClaimedOf(id) == [a \in Accounts |-> IF a \in claimed[id] THEN Entitlement(id, a) ELSE 0]

\* Claims and the sweep come after the outcome, and the pot's books are theirs.
PotShape ==
    \A id \in TaskIds :
        /\ tasks[id].state # "None" =>
              tasks[id].client \in Accounts /\ tasks[id].reward >= MIN_REWARD
        /\ tasks[id].state \notin Terminal => claimed[id] = {}
        /\ dustSwept[id] => tasks[id].state = "Settled"
        /\ tasks[id].state = "Settled" <=> tasks[id].outcome \in Sides
        /\ claimedTotal[id] = Total(ClaimedOf(id), Accounts)

(* A deployment where nobody stakes or bets nothing.  The constructor does  *)
(* not ask for it; the repository's deployments have it (10% of a reward of *)
(* at least 1 USDC, bets of at least 0.1 USDC).  A zero stake would be      *)
(* counted as a bettor without a position, and counted again with one.      *)
PositiveStakes ==
    /\ \A stake \in Stakes : stake >= MinSelfStake(MIN_REWARD) => stake > 0
    /\ \A amount \in Bets : amount >= MIN_BET => amount > 0

StakePositive ==
    \A id \in TaskIds :
        tasks[id].state \in {"Open", "Delivered", "Settled"} => tasks[id].selfStake > 0

Inv ==
    /\ TypeOK
    /\ TaskShape
    /\ now > 0 /\ AnswerShape
    /\ EvidenceShape
    /\ DecidedByTheBestEvidence

-----------------------------------------------------------------------------
(* Progress. *)

(* What docs T5 and 6.4 leave to anyone: the clock advances and the         *)
(* permissionless cranks are eventually called.  No fairness is assumed of  *)
(* the worker, the validator, the client's attestation or the owner.        *)
CrankSpec ==
    /\ Spec
    /\ WF_vars(Tick)
    /\ \A id \in TaskIds : /\ WF_vars(SettleWithValidation(id))
                           /\ WF_vars(SettleByTimeout(id))
                           /\ WF_vars(CancelUnaccepted(id))

(* In addition accounts claim what is theirs and somebody sweeps the dust.  *)
ClaimSpec ==
    /\ CrankSpec
    /\ \A id \in TaskIds : /\ WF_vars(SweepDust(id))
                           /\ \A a \in Accounts : WF_vars(Claim(a, id))

\* The model's clock leaves the whole ladder of task id room to run.
LadderFits(id) ==
    /\ tasks[id].deadline + DISPUTE_WINDOW + GRACE_WINDOW < MaxTime
    /\ AcceptUntil(tasks[id]) < MaxTime

(* Every posted task ends, whatever was delivered, answered, filed for the  *)
(* wrong validator or paused: no state of the ladder is a dead end.         *)
EveryTaskEnds ==
    \A id \in TaskIds :
        tasks[id].state = "Created" /\ LadderFits(id) ~> tasks[id].state \in Terminal

(* All USDC of a task leaves its pot: to claimants, fees or the treasury.   *)
EveryPotEmpties ==
    \A id \in TaskIds :
        tasks[id].state \in Terminal /\ LadderFits(id)
              /\ settledAt[id] + DUST_SWEEP_DELAY <= MaxTime
           ~> Held(id) = 0
=============================================================================
