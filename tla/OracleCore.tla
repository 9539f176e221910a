----------------------------- MODULE OracleCore -----------------------------
(***************************************************************************)
(* OracleCore.sol: outcome markets for agent tasks, with the two ERC-8004  *)
(* registries it reads and the USDC balance it holds.  One action per      *)
(* external function; a revert is an action that is not enabled.           *)
(* nonReentrant makes each function one atomic step; steps of different    *)
(* callers interleave freely, several may share one block timestamp, and   *)
(* time passes between any two of them.                                    *)
(***************************************************************************)
EXTENDS OracleParams, FiniteSets, Sequences

CONSTANTS
    Accounts, NoAccount,    \* addresses, address(0)
    Agents, NoAgent,        \* ERC-8004 agent ids, 0 (an open job)
    Owner,                  \* the contract's owner
    Hashes, NoHash,         \* deliverable hashes, bytes32(0)
    \* Inputs the environment chooses from, and the model's bounds.
    Jobs, Stakes, Bets, Responses, Requests,
    InitialOwners, WalletUpdates, Transfers, ReputationResults,
    PauseTimes, MaxTasks, MaxTime

VARIABLES
    now,                    \* block.timestamp
    paused,
    tasks, positions, claimed, nextTaskId,
    treasuryAccrued, validatorAccrued,
    settledAt, claimedTotal, pendingClaims, bettorCount, dustSwept,
    escrow,                 \* USDC.balanceOf(address(this))
    viaRule,                \* rule of the task's OutcomeResolved event, 0 before
    feedback,               \* per task, the values posted to the reputation registry
    status,                 \* ValidationRegistry
    agentOwner, agentWallet \* IdentityRegistry

(* Types of the inputs; whatever the callers choose, it is of these types.  *)
ASSUME EnvironmentAssumption ==
    /\ IsFiniteSet(Accounts)
    /\ NoAccount \notin Accounts /\ NoAgent \notin Agents /\ NoHash \notin Hashes
    /\ Owner \in Accounts
    /\ Jobs \subseteq [client : Accounts, workerAgentId : Agents \cup {NoAgent},
                       validatorAgentId : Agents \cup {NoAgent},
                       reward : Nat, deadlineIn : Nat]
    /\ Stakes \subseteq Nat /\ Bets \subseteq Nat /\ Responses \subseteq Nat
    /\ Requests \subseteq [validator : Accounts, agentId : Agents]
    /\ InitialOwners \in [Agents -> Accounts \cup {NoAccount}]
    /\ WalletUpdates \subseteq [agent : Agents, wallet : Accounts \cup {NoAccount}]
    /\ Transfers \subseteq [agent : Agents, to : Accounts]
    /\ ReputationResults \subseteq BOOLEAN
    /\ MaxTasks \in Nat /\ MaxTime \in Nat

TaskIds == 1..MaxTasks
Sides == {"Yes", "No"}
Other(side) == IF side = "Yes" THEN "No" ELSE "Yes"
RequestHashes == TaskIds \X Hashes     \* keccak256(abi.encode(taskId, hash))

Identity == INSTANCE IdentityRegistry
Validation == INSTANCE ValidationRegistry

market == <<tasks, positions, nextTaskId, bettorCount>>
books == <<claimed, treasuryAccrued, validatorAccrued, settledAt, claimedTotal,
           pendingClaims, dustSwept, viaRule, feedback>>
registries == <<status, agentOwner, agentWallet>>
vars == <<now, paused, market, books, escrow, registries>>

NoTask == [client |-> NoAccount, workerAgentId |-> NoAgent,
           validatorAgentId |-> NoAgent, validatorWallet |-> NoAccount,
           reward |-> 0, createdAt |-> 0, deadline |-> 0,
           workerWallet |-> NoAccount, selfStake |-> 0, betCutoff |-> 0,
           deliveredAt |-> 0, deliverableHash |-> NoHash,
           state |-> "None", outcome |-> "Unresolved",
           pool |-> [s \in Sides |-> 0]]           \* yesPool, noPool

Init ==
    /\ now = 1
    /\ paused = FALSE
    /\ tasks = [id \in TaskIds |-> NoTask]
    /\ positions = [id \in TaskIds |-> [a \in Accounts |-> [s \in Sides |-> 0]]]
    /\ claimed = [id \in TaskIds |-> {}]
    /\ nextTaskId = 1
    /\ treasuryAccrued = 0
    /\ validatorAccrued = [a \in Accounts |-> 0]
    /\ settledAt = [id \in TaskIds |-> 0]
    /\ claimedTotal = [id \in TaskIds |-> 0]
    /\ pendingClaims = [id \in TaskIds |-> 0]
    /\ bettorCount = [id \in TaskIds |-> [s \in Sides |-> 0]]
    /\ dustSwept = [id \in TaskIds |-> FALSE]
    /\ escrow = 0
    /\ viaRule = [id \in TaskIds |-> 0]
    /\ feedback = [id \in TaskIds |-> <<>>]
    /\ status = [hash \in RequestHashes |-> Validation!NoStatus]
    /\ agentOwner = InitialOwners
    /\ agentWallet = [agent \in Agents |-> NoAccount]

-----------------------------------------------------------------------------
(* Windows and evidence. *)

AcceptUntil(t) == t.createdAt + ACCEPT_WINDOW
RespondUntil(t) == t.deliveredAt + DISPUTE_WINDOW
AttestUntil(t) == RespondUntil(t) + GRACE_WINDOW

StatusOf(id) == status[<<id, tasks[id].deliverableHash>>]

\* The assigned validator answered about the assigned worker, in time (DR-6).
HasValidResponse(id) ==
    LET t == tasks[id]  s == StatusOf(id) IN
    /\ s.respondedAt # 0
    /\ s.respondedAt <= RespondUntil(t)
    /\ s.validator = t.validatorWallet
    /\ s.agentId = t.workerAgentId

-----------------------------------------------------------------------------
(* Task lifecycle. *)

\* job.deadlineIn is the deadline as an offset from the block it is posted in.
CreateTask(job) ==
    /\ ~paused
    /\ job.reward >= MIN_REWARD
    /\ job.validatorAgentId # NoAgent
    /\ job.workerAgentId # NoAgent =>
          /\ job.workerAgentId # job.validatorAgentId
          /\ agentOwner[job.workerAgentId] # NoAccount
    /\ job.deadlineIn > BETTING_WINDOW
    /\ Identity!WalletOf(job.validatorAgentId) # NoAccount
    /\ nextTaskId <= MaxTasks
    /\ tasks' = [tasks EXCEPT ![nextTaskId] =
          [NoTask EXCEPT !.client = job.client,
                         !.workerAgentId = job.workerAgentId,
                         !.validatorAgentId = job.validatorAgentId,
                         !.validatorWallet = Identity!WalletOf(job.validatorAgentId),
                         !.reward = job.reward,
                         !.createdAt = now,
                         !.deadline = now + job.deadlineIn,
                         !.state = "Created"]]
    /\ nextTaskId' = nextTaskId + 1
    /\ escrow' = escrow + job.reward
    /\ UNCHANGED <<now, paused, positions, bettorCount, books, registries>>

\* Seeded fault: only the window is checked, not the state.
CancelAnything(id) ==
    /\ now > AcceptUntil(tasks[id])
    /\ tasks' = [tasks EXCEPT ![id].state = "Cancelled"]
    /\ pendingClaims' = [pendingClaims EXCEPT ![id] = 1]
    /\ UNCHANGED <<now, paused, positions, nextTaskId, bettorCount, claimed,
                   treasuryAccrued, validatorAccrued, settledAt, claimedTotal,
                   dustSwept, viaRule, feedback, escrow, registries>>

\* R0
CancelUnaccepted(id) ==
    /\ tasks[id].state = "Created"
    /\ now > AcceptUntil(tasks[id])
    /\ tasks' = [tasks EXCEPT ![id].state = "Cancelled"]
    /\ pendingClaims' = [pendingClaims EXCEPT ![id] = 1]
    /\ UNCHANGED <<now, paused, positions, nextTaskId, bettorCount, claimed,
                   treasuryAccrued, validatorAccrued, settledAt, claimedTotal,
                   dustSwept, viaRule, feedback, escrow, registries>>

\* The role bans on the worker are applied to open jobs only.
MayAccept(sender, id, agent, stake) ==
    LET t == tasks[id] IN
    /\ ~paused
    /\ t.state = "Created"
    /\ IF t.workerAgentId = NoAgent
       THEN agent # t.validatorAgentId /\ sender # t.client
       ELSE agent = t.workerAgentId
    /\ now <= AcceptUntil(t)
    /\ Identity!IsAgentController(agent, sender)
    /\ stake >= MinSelfStake(t.reward)
    /\ stake <= MAX_POOL_PER_SIDE

AcceptAndStake(sender, id, agent, stake) ==
    LET t == tasks[id] IN
    /\ MayAccept(sender, id, agent, stake)
    /\ tasks' = [tasks EXCEPT ![id] =
          [t EXCEPT !.workerAgentId = agent,
                    !.workerWallet = sender,
                    !.selfStake = stake,
                    !.betCutoff = now + BETTING_WINDOW,
                    !.pool = [t.pool EXCEPT !["Yes"] = stake],
                    !.state = "Open"]]
    /\ positions' = [positions EXCEPT ![id][sender]["Yes"] = stake]
    /\ bettorCount' = [bettorCount EXCEPT ![id]["Yes"] = 1]
    /\ escrow' = escrow + stake
    /\ UNCHANGED <<now, paused, nextTaskId, books, registries>>

\* Seeded fault: the worker is recognised by its agent id only.
BannedByAgentOnly(t, sender, agent, side) ==
    \/ sender \in {t.client, t.validatorWallet}
    \/ agent = t.validatorAgentId
    \/ side = "No" /\ agent = t.workerAgentId

\* B2, by address and by agent id.
RoleBanned(t, sender, agent, side) ==
    \/ sender \in {t.client, t.validatorWallet}
    \/ agent = t.validatorAgentId
    \/ side = "No" /\ (sender = t.workerWallet \/ agent = t.workerAgentId)

\* Seeded fault: a returning bettor is counted again.
CountsEveryBet(sender, id, side) == bettorCount[id][side] + 1

\* _bettorCount counts an account's first bet on a side.
BettorsWith(sender, id, side) ==
    bettorCount[id][side] + (IF positions[id][sender][side] = 0 THEN 1 ELSE 0)

MayBet(sender, id, agent, side, amount) ==
    LET t == tasks[id] IN
    /\ ~paused
    /\ t.state = "Open"
    /\ now < t.betCutoff
    /\ amount >= MIN_BET
    /\ Identity!IsAgentController(agent, sender)
    /\ ~RoleBanned(t, sender, agent, side)
    /\ t.pool[side] + amount <= MAX_POOL_PER_SIDE

PlaceBet(sender, id, agent, side, amount) ==
    /\ MayBet(sender, id, agent, side, amount)
    /\ tasks' = [tasks EXCEPT ![id].pool[side] = @ + amount]
    /\ bettorCount' = [bettorCount EXCEPT ![id][side] = BettorsWith(sender, id, side)]
    /\ positions' = [positions EXCEPT ![id][sender][side] = @ + amount]
    /\ escrow' = escrow + amount
    /\ UNCHANGED <<now, paused, nextTaskId, books, registries>>

\* Seeded fault: the market need not be closed.
DeliversInTheMarket(sender, id) ==
    /\ ~paused
    /\ tasks[id].state = "Open"
    /\ sender = tasks[id].workerWallet
    /\ now <= tasks[id].deadline

MayDeliver(sender, id) ==
    LET t == tasks[id] IN
    /\ ~paused
    /\ t.state = "Open"
    /\ sender = t.workerWallet
    /\ now >= t.betCutoff
    /\ now <= t.deadline

SubmitDelivery(sender, id, hash) ==
    /\ MayDeliver(sender, id)
    /\ tasks' = [tasks EXCEPT ![id] =
          [@ EXCEPT !.deliveredAt = now, !.deliverableHash = hash, !.state = "Delivered"]]
    /\ UNCHANGED <<now, paused, positions, nextTaskId, bettorCount, books, escrow,
                   registries>>

-----------------------------------------------------------------------------
(* Resolution ladder. *)

\* Seeded fault: the client's refund is not counted.
WinnersOnly(id, outcome) == bettorCount[id][outcome]

\* The claims to wait for: the winning bettors, and the client's refund on NO.
Claimants(id, outcome) ==
    bettorCount[id][outcome] + (IF outcome = "No" THEN 1 ELSE 0)

\* _finalize: the one place an outcome is written.  The reputation registry may
\* revert; the try/catch swallows it.
Finalize(id, outcome, rule) ==
    LET t == tasks[id]
        fee == Fee(t.pool[Other(outcome)])
    IN
    /\ t.outcome = "Unresolved"
    /\ tasks' = [tasks EXCEPT ![id].state = "Settled", ![id].outcome = outcome]
    /\ settledAt' = [settledAt EXCEPT ![id] = now]
    /\ validatorAccrued' = [validatorAccrued EXCEPT ![t.validatorWallet] =
                              @ + ValidatorFee(fee, rule)]
    /\ treasuryAccrued' = treasuryAccrued + TreasuryFee(fee, rule)
    /\ pendingClaims' = [pendingClaims EXCEPT ![id] = Claimants(id, outcome)]
    /\ viaRule' = [viaRule EXCEPT ![id] = rule]
    /\ \E posted \in ReputationResults :
          feedback' = IF posted
                      THEN [feedback EXCEPT ![id] =
                              Append(@, IF outcome = "Yes" THEN 100 ELSE 0)]
                      ELSE feedback
    /\ UNCHANGED <<now, paused, positions, nextTaskId, bettorCount, claimed,
                   claimedTotal, dustSwept, escrow, registries>>

\* R2, R3: from the registry's stored status for the delivered hash, by anyone.
MaySettle(id) ==
    /\ tasks[id].state = "Delivered"
    /\ tasks[id].outcome = "Unresolved"
    /\ HasValidResponse(id)

SettleWithValidation(id) ==
    /\ MaySettle(id)
    /\ IF StatusOf(id).response >= VALIDATION_THRESHOLD
       THEN Finalize(id, "Yes", 2)
       ELSE Finalize(id, "No", 3)

\* Seeded fault: the client may overrule a validator that answered in time.
AttestAlways(sender, id, approved) ==
    /\ tasks[id].state = "Delivered"
    /\ sender = tasks[id].client
    /\ now > RespondUntil(tasks[id])
    /\ now <= AttestUntil(tasks[id])
    /\ Finalize(id, IF approved THEN "Yes" ELSE "No", 4)

\* R4
Attest(sender, id, approved) ==
    /\ tasks[id].state = "Delivered"
    /\ sender = tasks[id].client
    /\ now > RespondUntil(tasks[id])
    /\ now <= AttestUntil(tasks[id])
    /\ ~HasValidResponse(id)
    /\ Finalize(id, IF approved THEN "Yes" ELSE "No", 4)

\* Seeded fault: R5 waits for silence, so a late or misfiled answer blocks it.
TimeoutIfSilent(id) ==
    /\ tasks[id].state = "Delivered" /\ tasks[id].outcome = "Unresolved"
    /\ now > AttestUntil(tasks[id])
    /\ StatusOf(id).respondedAt = 0

\* R1's condition and R5's.
Undelivered(id) ==
    /\ tasks[id].state = "Open" /\ tasks[id].outcome = "Unresolved"
    /\ now > tasks[id].deadline
Unanswered(id) ==
    /\ tasks[id].state = "Delivered" /\ tasks[id].outcome = "Unresolved"
    /\ now > AttestUntil(tasks[id])
    /\ ~HasValidResponse(id)

\* By anyone.
SettleByTimeout(id) ==
    \/ Undelivered(id) /\ Finalize(id, "No", 1)
    \/ Unanswered(id) /\ Finalize(id, "Yes", 5)

-----------------------------------------------------------------------------
(* Money out. *)

Pot(t) == t.pool["Yes"] + t.pool["No"] + t.reward
Losing(t) == t.pool[Other(t.outcome)]

Entitlement(id, account) ==
    LET t == tasks[id]
        w == positions[id][account]
        ifIs(role, amount) == IF account = role THEN amount ELSE 0
    IN CASE t.state = "Cancelled" ->
              ifIs(t.client, t.reward) + w["Yes"] + w["No"]
         [] t.outcome = "Yes" ->
              WinnerPayout(w["Yes"], t.pool["No"], t.pool["Yes"])
                + ifIs(t.workerWallet, t.reward)
         [] t.outcome = "No" ->
              WinnerPayout(w["No"], t.pool["Yes"], t.pool["No"])
                + ifIs(t.client, t.reward
                     + (IF t.pool["No"] = 0 THEN Distributable(t.pool["Yes"]) ELSE 0))
         [] OTHER -> 0

\* Seeded fault: a cancelled task pays nobody back.
OpenIfSettled(sender, id) ==
    /\ tasks[id].state = "Settled"
    /\ sender \notin claimed[id]
    /\ ~dustSwept[id]

\* The guards claim and previewPayout share.
ClaimOpen(sender, id) ==
    /\ tasks[id].state \in {"Settled", "Cancelled"}
    /\ sender \notin claimed[id]
    /\ ~dustSwept[id]

PreviewPayout(id, account) == IF ClaimOpen(account, id) THEN Entitlement(id, account) ELSE 0

MayClaim(sender, id) ==
    /\ ClaimOpen(sender, id)
    /\ Entitlement(id, sender) > 0
    /\ Entitlement(id, sender) <= escrow             \* else the transfer reverts

Claim(sender, id) ==
    LET amount == Entitlement(id, sender) IN
    /\ MayClaim(sender, id)
    /\ claimed' = [claimed EXCEPT ![id] = @ \cup {sender}]
    /\ claimedTotal' = [claimedTotal EXCEPT ![id] = @ + amount]
    /\ pendingClaims' = [pendingClaims EXCEPT ![id] = IF @ > 0 THEN @ - 1 ELSE 0]
    /\ escrow' = escrow - amount
    /\ UNCHANGED <<now, paused, market, treasuryAccrued, validatorAccrued, settledAt,
                   dustSwept, viaRule, feedback, registries>>

\* Seeded faults: the last claim is not waited for; the fee is swept a second time.
SweepTooEarly(id) ==
    pendingClaims[id] <= 1 \/ now >= settledAt[id] + DUST_SWEEP_DELAY
FeeLeftIn(id) == claimedTotal[id]

SweepAllowed(id) ==
    pendingClaims[id] = 0 \/ now >= settledAt[id] + DUST_SWEEP_DELAY

\* What has left the pot already.
Taken(id) == Fee(Losing(tasks[id])) + claimedTotal[id]

SweepDust(id) ==
    LET t == tasks[id] IN
    /\ t.state = "Settled"
    /\ ~dustSwept[id]
    /\ SweepAllowed(id)
    /\ Taken(id) <= Pot(t)                           \* else the subtraction reverts
    /\ dustSwept' = [dustSwept EXCEPT ![id] = TRUE]
    /\ treasuryAccrued' = treasuryAccrued + (Pot(t) - Taken(id))
    /\ UNCHANGED <<now, paused, market, claimed, validatorAccrued, settledAt,
                   claimedTotal, pendingClaims, viaRule, feedback, escrow, registries>>

WithdrawTreasury(sender) ==
    /\ sender = Owner
    /\ treasuryAccrued > 0
    /\ treasuryAccrued <= escrow
    /\ escrow' = escrow - treasuryAccrued
    /\ treasuryAccrued' = 0
    /\ UNCHANGED <<now, paused, market, claimed, validatorAccrued, settledAt,
                   claimedTotal, pendingClaims, dustSwept, viaRule, feedback, registries>>

MayWithdraw(sender) ==
    /\ validatorAccrued[sender] > 0
    /\ validatorAccrued[sender] <= escrow

WithdrawValidatorFees(sender) ==
    /\ MayWithdraw(sender)
    /\ escrow' = escrow - validatorAccrued[sender]
    /\ validatorAccrued' = [validatorAccrued EXCEPT ![sender] = 0]
    /\ UNCHANGED <<now, paused, market, claimed, treasuryAccrued, settledAt,
                   claimedTotal, pendingClaims, dustSwept, viaRule, feedback, registries>>

\* pause() and unpause().
SetPaused(sender) ==
    /\ sender = Owner
    /\ paused' = ~paused
    /\ UNCHANGED <<now, market, books, escrow, registries>>

-----------------------------------------------------------------------------
(* The chain around the contract. *)

Tick ==
    /\ now < MaxTime
    /\ now' = now + 1
    /\ UNCHANGED <<paused, market, books, escrow, registries>>

FileRequest(validator, agent, hash) ==
    /\ Validation!ValidationRequest(validator, agent, hash)
    /\ UNCHANGED <<now, paused, market, books, escrow, agentOwner, agentWallet>>

Respond(sender, hash, response) ==
    /\ Validation!ValidationResponse(sender, hash, response, now)
    /\ UNCHANGED <<now, paused, market, books, escrow, agentOwner, agentWallet>>

IdentityChange ==
    /\ \/ \E agent \in Agents, a \in Accounts : Identity!Register(a, agent)
       \/ \E u \in WalletUpdates : Identity!SetAgentWallet(agentOwner[u.agent], u.agent, u.wallet)
       \/ \E u \in Transfers : Identity!TransferFrom(agentOwner[u.agent], u.agent, u.to)
    /\ UNCHANGED <<now, paused, market, books, escrow, status>>

Next ==
    \/ Tick
    \/ \E job \in Jobs : CreateTask(job)
    \/ \E id \in TaskIds :
          \/ CancelUnaccepted(id)
          \/ SettleWithValidation(id)
          \/ SettleByTimeout(id)
          \/ SweepDust(id)
          \/ \E a \in Accounts :
                \/ \E agent \in Agents, stake \in Stakes : AcceptAndStake(a, id, agent, stake)
                \/ \E agent \in Agents, side \in Sides, amount \in Bets :
                      PlaceBet(a, id, agent, side, amount)
                \/ \E hash \in Hashes : SubmitDelivery(a, id, hash)
                \/ \E approved \in BOOLEAN : Attest(a, id, approved)
                \/ Claim(a, id)
    \/ \E a \in Accounts :
          \/ WithdrawTreasury(a)
          \/ WithdrawValidatorFees(a)
          \/ now \in PauseTimes /\ SetPaused(a)
    \/ \E request \in Requests, hash \in RequestHashes :
          FileRequest(request.validator, request.agentId, hash)
    \/ \E a \in Accounts, hash \in RequestHashes, response \in Responses :
          Respond(a, hash, response)
    \/ IdentityChange

Spec == Init /\ [][Next]_vars
=============================================================================
