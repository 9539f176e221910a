---------------------------- MODULE OracleProofs ----------------------------
(***************************************************************************)
(* OracleCore keeps its types, so that no payout is negative or divides by *)
(* nothing, and keeps the parties apart: the role bans are checked call by *)
(* call, against the wallets and agents of that moment, and add up to a    *)
(* statement about positions, and from there to one about payouts.  The    *)
(* second part is about evidence: when payouts and the market freeze, and  *)
(* what a task is settled by.  The third is the money: a pool is the sum   *)
(* of its positions, and rounding down pays out at most a pool, so a pot   *)
(* covers its claims; a step changes one pot and what leaves it is booked  *)
(* elsewhere, so the escrow adds up, and the contract keeps the promise of *)
(* the abstract pots.  The last is about the daemons that call it.         *)
(***************************************************************************)
EXTENDS OracleSafety, Fleet, DataProofs

(* A rate of at most 100% takes between nothing and everything.            *)
LEMMA BpsBound ==
    ASSUME NEW amount \in Nat, NEW rate \in 0..BPS
    PROVE  Bps(amount, rate) \in 0..amount
<1> DEFINE x == amount * rate
           y == amount * (10000 - rate)
<1>1. x \in Nat /\ y \in Nat
  BY DEF BPS
<1>2. x + y = amount * 10000
  BY DEF BPS
<1>3. \A z, w \in Nat : z + w = amount * 10000 => z \div 10000 \in 0..amount
  OBVIOUS
<1> HIDE DEF x, y
<1>4. x \div 10000 \in 0..amount
  BY <1>1, <1>2, <1>3
<1> QED
  BY <1>4 DEF Bps, BPS, x

LEMMA FloorNat ==
    ASSUME NEW a \in Nat, NEW b \in Nat \ {0}
    PROVE  a \div b \in Nat
OBVIOUS

USE DEF TaskIds

LEMMA NoTaskType == NoTask \in Task
BY DEF NoTask, Task, Sides, TaskStates

LEMMA InitType == Init => TypeOK
<1> SUFFICES ASSUME Init PROVE TypeOK
  OBVIOUS
<1> USE EnvironmentAssumption DEF Init
<1>1. MarketTypeOK
  <2>1. positions \in [TaskIds -> [Accounts -> [Sides -> Nat]]]
    OBVIOUS
  <2> QED
    BY <2>1, NoTaskType DEF MarketTypeOK
<1>2. BooksTypeOK
  BY DEF BooksTypeOK
<1>3. Validation!ValidationTypeOK
  BY DEF Validation!ValidationTypeOK, Validation!NoStatus
<1>4. Identity!IdentityTypeOK
  BY DEF Identity!IdentityTypeOK, Identity!Account0
<1> QED
  BY <1>1, <1>2, <1>3, <1>4 DEF TypeOK, RegistriesTypeOK

LEMMA TypeFrame ==
    /\ MarketTypeOK /\ UNCHANGED market => MarketTypeOK'
    /\ BooksTypeOK /\ UNCHANGED books => BooksTypeOK'
    /\ RegistriesTypeOK /\ UNCHANGED registries => RegistriesTypeOK'
<1>1. MarketTypeOK /\ UNCHANGED market => MarketTypeOK'
  BY DEF MarketTypeOK, market
<1>2. BooksTypeOK /\ UNCHANGED books => BooksTypeOK'
  BY DEF BooksTypeOK, books
<1>3. RegistriesTypeOK /\ UNCHANGED registries => RegistriesTypeOK'
  BY DEF RegistriesTypeOK, registries, Validation!ValidationTypeOK,
         Identity!IdentityTypeOK, Identity!Account0
<1> QED
  BY <1>1, <1>2, <1>3

(* What an account can claim is a number: the pool a share is divided by    *)
(* is not empty when somebody has a share in it.                            *)
LEMMA EntitlementNat ==
    ASSUME TypeOK, TaskShape, NEW id \in TaskIds, NEW a \in Accounts
    PROVE  Entitlement(id, a) \in Nat
<1> DEFINE t == tasks[id]  w == positions[id][a]
<1>1. t \in Task /\ w \in [Sides -> Nat]
  BY DEF TypeOK, MarketTypeOK
<1>2. \A s \in Sides : w[s] \in Nat /\ t.pool[s] \in Nat /\ w[s] <= t.pool[s]
  BY <1>1 DEF TaskShape, Task
<1>3. \A x \in Nat : Distributable(x) \in Nat
  BY BpsBound, ParamsAssumption DEF Distributable, Fee
<1>4. \A s, r \in Sides : WinnerPayout(w[s], t.pool[r], t.pool[s]) \in Nat
  <2> SUFFICES ASSUME NEW s \in Sides, NEW r \in Sides, w[s] > 0
               PROVE  w[s] + (w[s] * Distributable(t.pool[r])) \div t.pool[s] \in Nat
    BY DEF WinnerPayout
  <2>1. t.pool[s] \in Nat \ {0}
    BY <1>2
  <2>2. w[s] * Distributable(t.pool[r]) \in Nat
    BY <1>2, <1>3
  <2> QED
    BY <1>2, <2>1, <2>2, FloorNat
<1>5. "Yes" \in Sides /\ "No" \in Sides
  BY DEF Sides
<1>6. t.reward \in Nat /\ t.outcome \in Sides \cup {"Unresolved"}
  BY <1>1 DEF Task
<1> HIDE DEF t, w
<1> QED
  BY <1>2, <1>3, <1>4, <1>5, <1>6 DEF Entitlement, t, w

(* Types, one action at a time. *)

LEMMA FinalizeType ==
    ASSUME TypeOK, TaskShape, NEW id \in TaskIds, tasks[id].state # "None",
           NEW outcome \in Sides, NEW rule \in 1..5, Finalize(id, outcome, rule)
    PROVE  TypeOK'
<1> DEFINE t == tasks[id]
           fee == Fee(t.pool[Other(outcome)])
           validatorFee == ValidatorFee(fee, rule)
<1>1. t \in Task /\ t.validatorWallet \in Accounts
  BY DEF TypeOK, MarketTypeOK, TaskShape
<1>2. Other(outcome) \in Sides /\ t.pool[Other(outcome)] \in Nat
  BY <1>1 DEF Other, Sides, Task
<1>3. fee \in Nat
  BY <1>2, BpsBound, ParamsAssumption DEF Fee
<1>4. validatorFee \in 0..fee
  BY <1>3, BpsBound, ParamsAssumption DEF ValidatorFee
<1>5. MarketTypeOK'
  <2>1. [t EXCEPT !.state = "Settled", !.outcome = outcome] \in Task
    BY <1>1 DEF Task, TaskStates
  <2>2. tasks' = [tasks EXCEPT ![id] = [t EXCEPT !.state = "Settled", !.outcome = outcome]]
    BY DEF Finalize, TypeOK, MarketTypeOK
  <2> QED
    BY <2>1, <2>2 DEF Finalize, TypeOK, MarketTypeOK
<1>6. BooksTypeOK'
  <2> USE DEF Finalize, TypeOK, BooksTypeOK
  <2>1. feedback' \in [TaskIds -> Seq({0, 100})]
    <3>1. CASE feedback' = feedback
      BY <3>1
    <3>2. ASSUME NEW v \in {0, 100}, feedback' = [feedback EXCEPT ![id] = Append(@, v)]
          PROVE  feedback' \in [TaskIds -> Seq({0, 100})]
      <4>1. Append(feedback[id], v) \in Seq({0, 100})
        OBVIOUS
      <4> QED
        BY <3>2, <4>1
    <3> QED
      BY <3>1, <3>2
  <2>2. validatorAccrued' \in [Accounts -> Nat] /\ treasuryAccrued' \in Nat
    <3>1. /\ validatorAccrued' = [validatorAccrued EXCEPT ![t.validatorWallet] = @ + validatorFee]
          /\ treasuryAccrued' = treasuryAccrued + (fee - validatorFee)
      BY DEF TreasuryFee
    <3>2. validatorAccrued \in [Accounts -> Nat] /\ treasuryAccrued \in Nat
      OBVIOUS
    <3> HIDE DEF fee, validatorFee, t, Finalize, TypeOK, BooksTypeOK
    <3>3. fee - validatorFee \in Nat /\ validatorFee \in Nat
      BY <1>3, <1>4
    <3> QED
      BY <1>1, <3>1, <3>2, <3>3
  <2>3. pendingClaims' \in [TaskIds -> Nat]
    <3>1. Claimants(id, outcome) \in Nat
      BY DEF Claimants, MarketTypeOK
    <3> QED
      BY <3>1
  <2>4. /\ claimed' = claimed /\ claimedTotal' = claimedTotal /\ dustSwept' = dustSwept
        /\ settledAt' \in [TaskIds -> Nat] /\ viaRule' \in [TaskIds -> 0..5]
    OBVIOUS
  <2> HIDE DEF Finalize
  <2> QED
    BY <2>1, <2>2, <2>3, <2>4
<1> QED
  BY <1>5, <1>6, TypeFrame DEF Finalize, TypeOK

LEMMA CreateTaskType ==
    ASSUME TypeOK, NEW job \in Jobs, CreateTask(job)
    PROVE  TypeOK'
<1> DEFINE t == [NoTask EXCEPT !.client = job.client,
                               !.workerAgentId = job.workerAgentId,
                               !.validatorAgentId = job.validatorAgentId,
                               !.validatorWallet = Identity!WalletOf(job.validatorAgentId),
                               !.reward = job.reward,
                               !.createdAt = now,
                               !.deadline = now + job.deadlineIn,
                               !.state = "Created"]
<1>1. /\ job.client \in Accounts
      /\ job.workerAgentId \in Agents \cup {NoAgent}
      /\ job.validatorAgentId \in Agents
      /\ job.reward \in Nat /\ job.deadlineIn \in Nat
  BY EnvironmentAssumption DEF CreateTask
<1>2. Identity!WalletOf(job.validatorAgentId) \in Accounts
  BY <1>1 DEF CreateTask, Identity!WalletOf, TypeOK, RegistriesTypeOK, Identity!IdentityTypeOK,
              Identity!Account0
<1>3. t \in Task
  <2>1. now \in Nat /\ now + job.deadlineIn \in Nat
    BY <1>1 DEF TypeOK
  <2> QED
    BY <1>1, <1>2, <2>1, NoTaskType DEF Task, TaskStates
<1>4. nextTaskId \in TaskIds /\ tasks' = [tasks EXCEPT ![nextTaskId] = t]
  BY EnvironmentAssumption DEF CreateTask, TypeOK, MarketTypeOK
<1>5. MarketTypeOK'
  BY <1>3, <1>4, EnvironmentAssumption DEF CreateTask, TypeOK, MarketTypeOK
<1> QED
  BY <1>1, <1>5, TypeFrame DEF CreateTask, TypeOK

LEMMA AcceptAndStakeType ==
    ASSUME TypeOK, NEW sender \in Accounts, NEW id \in TaskIds, NEW agent \in Agents,
           NEW stake \in Stakes, AcceptAndStake(sender, id, agent, stake)
    PROVE  TypeOK'
<1> DEFINE t == tasks[id]
           u == [t EXCEPT !.workerAgentId = agent, !.workerWallet = sender,
                          !.selfStake = stake, !.betCutoff = now + BETTING_WINDOW,
                          !.pool = [t.pool EXCEPT !["Yes"] = stake], !.state = "Open"]
<1>1. stake \in Nat /\ now + BETTING_WINDOW \in Nat /\ t \in Task
  BY EnvironmentAssumption, ParamsAssumption DEF TypeOK, MarketTypeOK
<1>2. u \in Task
  <2>1. [t.pool EXCEPT !["Yes"] = stake] \in [Sides -> Nat]
    BY <1>1 DEF Task
  <2> QED
    BY <1>1, <2>1 DEF Task, TaskStates
<1>3. tasks' = [tasks EXCEPT ![id] = u]
  BY DEF AcceptAndStake, MayAccept
<1>4. MarketTypeOK'
  BY <1>1, <1>2, <1>3 DEF AcceptAndStake, MayAccept, TypeOK, MarketTypeOK, Sides
<1> QED
  BY <1>1, <1>4, TypeFrame DEF AcceptAndStake, MayAccept, TypeOK

LEMMA PlaceBetType ==
    ASSUME TypeOK, NEW sender \in Accounts, NEW id \in TaskIds, NEW agent \in Agents,
           NEW side \in Sides, NEW amount \in Bets,
           PlaceBet(sender, id, agent, side, amount)
    PROVE  TypeOK'
<1> DEFINE t == tasks[id]
           u == [t EXCEPT !.pool = [t.pool EXCEPT ![side] = @ + amount]]
<1>1. amount \in Nat /\ t \in Task
  BY EnvironmentAssumption DEF TypeOK, MarketTypeOK
<1>2. u \in Task
  <2>1. [t.pool EXCEPT ![side] = @ + amount] \in [Sides -> Nat]
    BY <1>1 DEF Task
  <2> QED
    BY <1>1, <2>1 DEF Task
<1>3. tasks' = [tasks EXCEPT ![id] = u]
  BY DEF PlaceBet, MayBet, TypeOK, MarketTypeOK, Task
<1>4. BettorsWith(sender, id, side) \in Nat
  BY DEF BettorsWith, TypeOK, MarketTypeOK
<1>5. MarketTypeOK'
  BY <1>1, <1>2, <1>3, <1>4 DEF PlaceBet, MayBet, TypeOK, MarketTypeOK
<1> QED
  BY <1>1, <1>5, TypeFrame DEF PlaceBet, MayBet, TypeOK

LEMMA SubmitDeliveryType ==
    ASSUME TypeOK, NEW sender \in Accounts, NEW id \in TaskIds, NEW hash \in Hashes,
           SubmitDelivery(sender, id, hash)
    PROVE  TypeOK'
<1> DEFINE t == tasks[id]
           u == [t EXCEPT !.deliveredAt = now, !.deliverableHash = hash,
                          !.state = "Delivered"]
<1>1. u \in Task
  <2>1. t \in Task /\ now \in Nat
    BY DEF TypeOK, MarketTypeOK
  <2> QED
    BY <2>1 DEF Task, TaskStates
<1>2. MarketTypeOK'
  BY <1>1 DEF SubmitDelivery, MayDeliver, TypeOK, MarketTypeOK
<1> QED
  BY <1>2, TypeFrame DEF SubmitDelivery, MayDeliver, TypeOK

LEMMA CancelUnacceptedType ==
    ASSUME TypeOK, NEW id \in TaskIds, CancelUnaccepted(id)
    PROVE  TypeOK'
<1> DEFINE t == tasks[id]
           u == [t EXCEPT !.state = "Cancelled"]
<1>1. u \in Task
  <2>1. t \in Task
    BY DEF TypeOK, MarketTypeOK
  <2> QED
    BY <2>1 DEF Task, TaskStates
<1>2. MarketTypeOK'
  BY <1>1 DEF CancelUnaccepted, TypeOK, MarketTypeOK
<1> QED
  BY <1>2, TypeFrame DEF CancelUnaccepted, TypeOK, BooksTypeOK

LEMMA ClaimType ==
    ASSUME TypeOK, TaskShape, NEW sender \in Accounts, NEW id \in TaskIds,
           Claim(sender, id)
    PROVE  TypeOK'
<1>1. Entitlement(id, sender) \in Nat
  BY EntitlementNat
<1>2. escrow' \in Nat
  BY <1>1 DEF Claim, MayClaim, TypeOK
<1>3. BooksTypeOK'
  <2> USE DEF Claim, MayClaim, TypeOK, BooksTypeOK
  <2>1. claimed' \in [TaskIds -> SUBSET Accounts]
    BY Zenon
  <2>2. claimedTotal' \in [TaskIds -> Nat]
    BY <1>1
  <2>3. pendingClaims' \in [TaskIds -> Nat]
    OBVIOUS
  <2> QED
    BY <2>1, <2>2, <2>3
<1> QED
  BY <1>2, <1>3, TypeFrame DEF Claim, MayClaim, TypeOK

LEMMA SweepDustType ==
    ASSUME TypeOK, NEW id \in TaskIds, SweepDust(id)
    PROVE  TypeOK'
<1> DEFINE t == tasks[id]
<1>1. t \in Task /\ Pot(t) \in Nat
  BY DEF TypeOK, MarketTypeOK, Task, Pot, Sides
<1>2. Losing(t) \in Nat
  BY <1>1 DEF Losing, Other, Task, Sides
<1>3. Taken(id) \in Nat
  <2>1. Fee(Losing(t)) \in Nat
    BY <1>2, BpsBound, ParamsAssumption DEF Fee
  <2> QED
    BY <2>1 DEF Taken, TypeOK, BooksTypeOK
<1>4. treasuryAccrued' \in Nat
  BY <1>1, <1>3 DEF SweepDust, TypeOK, BooksTypeOK
<1> QED
  BY <1>4, TypeFrame DEF SweepDust, TypeOK, BooksTypeOK

LEMMA WithdrawType ==
    ASSUME TypeOK, NEW sender \in Accounts,
           WithdrawTreasury(sender) \/ WithdrawValidatorFees(sender)
    PROVE  TypeOK'
<1> USE TypeFrame DEF TypeOK, BooksTypeOK
<1>1. CASE WithdrawTreasury(sender)
  BY <1>1 DEF WithdrawTreasury
<1>2. CASE WithdrawValidatorFees(sender)
  BY <1>2 DEF WithdrawValidatorFees, MayWithdraw
<1> QED
  BY <1>1, <1>2

LEMMA RegistryType ==
    ASSUME TypeOK,
           \/ \E validator \in Accounts, agent \in Agents, hash \in RequestHashes :
                 FileRequest(validator, agent, hash)
           \/ \E a \in Accounts, hash \in RequestHashes, response \in Responses :
                 Respond(a, hash, response)
           \/ IdentityChange
    PROVE  TypeOK'
<1> USE DEF TypeOK, RegistriesTypeOK
<1>1. ASSUME NEW validator \in Accounts, NEW agent \in Agents,
             NEW hash \in RequestHashes, FileRequest(validator, agent, hash)
      PROVE  TypeOK'
  <2>1. Validation!ValidationTypeOK'
    BY <1>1 DEF FileRequest, Validation!ValidationTypeOK,
                      Validation!ValidationRequest, Validation!MayRequest
  <2> QED
    BY <1>1, <2>1, TypeFrame DEF FileRequest, Identity!IdentityTypeOK
<1>2. ASSUME NEW a \in Accounts, NEW hash \in RequestHashes, NEW response \in Responses,
             Respond(a, hash, response)
      PROVE  TypeOK'
  <2> DEFINE Status == [validator : Accounts \cup {NoAccount},
                        agentId : Agents \cup {NoAgent},
                        response : 0..100, respondedAt : Nat]
  <2>1. [status[hash] EXCEPT !.response = response, !.respondedAt = now] \in Status
    <3>1. status[hash] \in Status
      BY DEF Validation!ValidationTypeOK
    <3>2. response \in 0..100 /\ now \in Nat
      BY <1>2, EnvironmentAssumption DEF Respond, Validation!ValidationResponse, Validation!MayRespond
    <3> QED
      BY <3>1, <3>2
  <2>2. status' = [status EXCEPT ![hash] =
                     [status[hash] EXCEPT !.response = response, !.respondedAt = now]]
    BY <1>2 DEF Respond, Validation!ValidationTypeOK, Validation!ValidationResponse, Validation!MayRespond
  <2>3. Validation!ValidationTypeOK'
    BY <2>1, <2>2 DEF Validation!ValidationTypeOK
  <2> QED
    BY <1>2, <2>3, TypeFrame DEF Respond, Identity!IdentityTypeOK
<1>3. CASE IdentityChange
  <2>1. Identity!IdentityTypeOK'
    BY <1>3, EnvironmentAssumption
       DEF IdentityChange, Identity!IdentityTypeOK, Identity!Account0,
                Identity!Register, Identity!SetAgentWallet, Identity!TransferFrom
  <2> QED
    BY <1>3, <2>1, TypeFrame DEF IdentityChange, Validation!ValidationTypeOK
<1> QED
  BY <1>1, <1>2, <1>3

(* The shape of a task in each of its states. *)

LEMMA InitShape == Init => TaskShape
BY DEF Init, TaskShape, NoTask, Sides

LEMMA ShapeFrame == TaskShape /\ UNCHANGED market => TaskShape'
BY DEF TaskShape, market

LEMMA CreateTaskShape ==
    ASSUME TypeOK, TaskShape, NEW job \in Jobs, CreateTask(job)
    PROVE  TaskShape'
<1>1. /\ nextTaskId \in TaskIds /\ nextTaskId' = nextTaskId + 1
      /\ positions' = positions /\ tasks[nextTaskId] = NoTask
  BY EnvironmentAssumption DEF CreateTask, TypeOK, MarketTypeOK, TaskShape
<1>2. /\ tasks'[nextTaskId].pool = [s \in Sides |-> 0]
      /\ tasks'[nextTaskId].state = "Created"
      /\ tasks'[nextTaskId].validatorWallet = Identity!WalletOf(job.validatorAgentId)
  BY <1>1 DEF CreateTask, TypeOK, MarketTypeOK, NoTask
<1>3. \A id \in TaskIds \ {nextTaskId} : tasks'[id] = tasks[id]
  BY <1>1 DEF CreateTask, TypeOK, MarketTypeOK
<1>4. Identity!WalletOf(job.validatorAgentId) \in Accounts
  <2>1. job.validatorAgentId \in Agents
    BY EnvironmentAssumption DEF CreateTask
  <2> QED
    BY <2>1 DEF CreateTask, Identity!WalletOf, TypeOK, RegistriesTypeOK,
                Identity!IdentityTypeOK, Identity!Account0
<1>5. \A a \in Accounts, s \in Sides : positions[nextTaskId][a][s] <= 0
  BY <1>1 DEF TaskShape, NoTask
<1>6. \A id \in TaskIds : id >= nextTaskId' => id # nextTaskId /\ id >= nextTaskId
  BY <1>1, EnvironmentAssumption
<1> QED
  BY <1>1, <1>2, <1>3, <1>4, <1>5, <1>6 DEF TaskShape

(* A step on one existing task keeps the shape of every task if it keeps     *)
(* the validator's wallet and leaves positions covered by the pools.         *)
LEMMA ShapeStep ==
    ASSUME TypeOK, TaskShape, NEW id \in TaskIds, tasks[id].state # "None",
           nextTaskId' = nextTaskId,
           \A i \in TaskIds \ {id} : tasks'[i] = tasks[i] /\ positions'[i] = positions[i],
           tasks'[id].state \notin {"Open", "Delivered", "Settled"} =>
              tasks'[id].pool = [s \in Sides |-> 0],
           \A a \in Accounts, s \in Sides : positions'[id][a][s] <= tasks'[id].pool[s],
           tasks'[id].validatorWallet = tasks[id].validatorWallet
    PROVE  TaskShape'
<1>1. ~(id >= nextTaskId)
  BY DEF TaskShape, NoTask
<1>2. tasks[id].validatorWallet \in Accounts
  BY DEF TaskShape
<1> SUFFICES ASSUME NEW i \in TaskIds
             PROVE  /\ i >= nextTaskId' => tasks'[i] = NoTask
                    /\ tasks'[i].state \notin {"Open", "Delivered", "Settled"} =>
                          tasks'[i].pool = [s \in Sides |-> 0]
                    /\ \A a \in Accounts, s \in Sides :
                          positions'[i][a][s] <= tasks'[i].pool[s]
                    /\ tasks'[i].state # "None" => tasks'[i].validatorWallet \in Accounts
  BY DEF TaskShape
<1>3. CASE i = id
  BY <1>1, <1>2, <1>3
<1>4. CASE i # id
  <2>1. i \in TaskIds \ {id}
    BY <1>4
  <2>2. tasks'[i] = tasks[i] /\ positions'[i] = positions[i]
    BY <2>1
  <2> QED
    BY <2>2 DEF TaskShape
<1> QED
  BY <1>3, <1>4

LEMMA AcceptAndStakeShape ==
    ASSUME TypeOK, TaskShape, NEW sender \in Accounts, NEW id \in TaskIds,
           NEW agent \in Agents, NEW stake \in Stakes,
           AcceptAndStake(sender, id, agent, stake)
    PROVE  TaskShape'
<1>1. stake \in Nat
  BY EnvironmentAssumption
<1>2. \A i \in TaskIds \ {id} : tasks'[i] = tasks[i] /\ positions'[i] = positions[i]
  BY DEF AcceptAndStake, MayAccept, TypeOK, MarketTypeOK
<1>3. tasks[id] \in Task
  BY DEF TypeOK, MarketTypeOK
<1>4. /\ tasks'[id].state = "Open"
      /\ tasks'[id].validatorWallet = tasks[id].validatorWallet
      /\ tasks'[id].pool = [tasks[id].pool EXCEPT !["Yes"] = stake]
      /\ tasks[id].state = "Created"
  <2>1. tasks'[id] = [tasks[id] EXCEPT !.workerAgentId = agent,
                    !.workerWallet = sender,
                    !.selfStake = stake,
                    !.betCutoff = now + BETTING_WINDOW,
                    !.pool = [tasks[id].pool EXCEPT !["Yes"] = stake],
                    !.state = "Open"]
    BY DEF AcceptAndStake, MayAccept, TypeOK, MarketTypeOK
  <2>2. tasks[id].state = "Created"
    BY DEF AcceptAndStake, MayAccept
  <2> QED
    BY <1>3, <2>1, <2>2 DEF Task
<1>5. \A a \in Accounts, s \in Sides : positions'[id][a][s] <= tasks'[id].pool[s]
  <2> SUFFICES ASSUME NEW a \in Accounts, NEW s \in Sides
               PROVE  positions'[id][a][s] <= tasks'[id].pool[s]
    OBVIOUS
  <2>1. tasks[id].pool = [x \in Sides |-> 0] /\ positions[id][a][s] <= tasks[id].pool[s]
    BY <1>4 DEF TaskShape
  <2>2. positions'[id][a][s] = IF a = sender /\ s = "Yes" THEN stake
                               ELSE positions[id][a][s]
    BY DEF AcceptAndStake, MayAccept, TypeOK, MarketTypeOK
  <2>3. positions[id][a][s] \in Nat
    BY DEF TypeOK, MarketTypeOK
  <2>4. tasks'[id].pool[s] = IF s = "Yes" THEN stake ELSE 0
    BY <2>1, <1>4
  <2> QED
    BY <1>1, <2>1, <2>2, <2>3, <2>4
<1>6. nextTaskId' = nextTaskId
  BY DEF AcceptAndStake, MayAccept
<1> QED
  BY <1>2, <1>4, <1>5, <1>6, ShapeStep

LEMMA PlaceBetShape ==
    ASSUME TypeOK, TaskShape, NEW sender \in Accounts, NEW id \in TaskIds,
           NEW agent \in Agents, NEW side \in Sides, NEW amount \in Bets,
           PlaceBet(sender, id, agent, side, amount)
    PROVE  TaskShape'
<1>1. amount \in Nat /\ nextTaskId' = nextTaskId
  BY EnvironmentAssumption DEF PlaceBet, MayBet
<1>2. \A i \in TaskIds \ {id} : tasks'[i] = tasks[i] /\ positions'[i] = positions[i]
  BY DEF PlaceBet, MayBet, TypeOK, MarketTypeOK
<1>3. tasks[id] \in Task
  BY DEF TypeOK, MarketTypeOK
<1>4. /\ tasks'[id].state = "Open" /\ tasks[id].state = "Open"
      /\ tasks'[id].validatorWallet = tasks[id].validatorWallet
      /\ tasks'[id].pool = [tasks[id].pool EXCEPT ![side] = @ + amount]
  BY <1>3 DEF PlaceBet, MayBet, TypeOK, MarketTypeOK, Task
<1>5. \A a \in Accounts, s \in Sides : positions'[id][a][s] <= tasks'[id].pool[s]
  <2> SUFFICES ASSUME NEW a \in Accounts, NEW s \in Sides
               PROVE  positions'[id][a][s] <= tasks'[id].pool[s]
    OBVIOUS
  <2>1. positions[id][a][s] <= tasks[id].pool[s]
    BY DEF TaskShape
  <2>2. positions'[id][a][s] = IF a = sender /\ s = side THEN positions[id][a][s] + amount
                               ELSE positions[id][a][s]
    BY DEF PlaceBet, MayBet, TypeOK, MarketTypeOK
  <2>3. positions[id][a][s] \in Nat /\ tasks[id].pool[s] \in Nat
    BY <1>3 DEF TypeOK, MarketTypeOK, Task
  <2>4. tasks'[id].pool[s] = IF s = side THEN tasks[id].pool[s] + amount
                             ELSE tasks[id].pool[s]
    BY <1>3, <1>4 DEF Task
  <2> QED
    BY <1>1, <2>1, <2>2, <2>3, <2>4
<1> QED
  BY <1>1, <1>2, <1>4, <1>5, ShapeStep

(* Deliveries, cancellations and settlements move a task along and leave    *)
(* its pools and positions alone.                                           *)
LEMMA MoveShape ==
    ASSUME TypeOK, TaskShape, NEW id \in TaskIds, tasks[id].state # "None",
           \A i \in TaskIds \ {id} : tasks'[i] = tasks[i],
           tasks'[id].state \in {"Open", "Delivered", "Settled"}
             \/ tasks[id].state \notin {"Open", "Delivered", "Settled"},
           tasks'[id].pool = tasks[id].pool,
           tasks'[id].validatorWallet = tasks[id].validatorWallet,
           UNCHANGED <<positions, nextTaskId>>
    PROVE  TaskShape'
<1>1. \A a \in Accounts, s \in Sides : positions'[id][a][s] <= tasks'[id].pool[s]
  BY DEF TaskShape
<1>2. tasks'[id].state \notin {"Open", "Delivered", "Settled"} =>
              tasks'[id].pool = [s \in Sides |-> 0]
  BY DEF TaskShape
<1>3. \A i \in TaskIds \ {id} : tasks'[i] = tasks[i] /\ positions'[i] = positions[i]
  OBVIOUS
<1> QED
  BY <1>1, <1>2, <1>3, ShapeStep

LEMMA SubmitDeliveryShape ==
    ASSUME TypeOK, TaskShape, NEW sender \in Accounts, NEW id \in TaskIds,
           NEW hash \in Hashes, SubmitDelivery(sender, id, hash)
    PROVE  TaskShape'
<1>1. tasks[id] \in Task
  BY DEF TypeOK, MarketTypeOK
<1>2. tasks'[id] = [tasks[id] EXCEPT !.deliveredAt = now, !.deliverableHash = hash,
                                     !.state = "Delivered"]
  BY DEF SubmitDelivery, MayDeliver, TypeOK, MarketTypeOK
<1>3. /\ tasks[id].state # "None" /\ UNCHANGED <<positions, nextTaskId>>
      /\ \A i \in TaskIds \ {id} : tasks'[i] = tasks[i]
  BY DEF SubmitDelivery, MayDeliver, TypeOK, MarketTypeOK
<1>4. /\ tasks'[id].state = "Delivered" /\ tasks'[id].pool = tasks[id].pool
      /\ tasks'[id].validatorWallet = tasks[id].validatorWallet
  BY <1>1, <1>2 DEF Task
<1> QED
  BY <1>3, <1>4, MoveShape

LEMMA CancelUnacceptedShape ==
    ASSUME TypeOK, TaskShape, NEW id \in TaskIds, CancelUnaccepted(id)
    PROVE  TaskShape'
<1>1. tasks[id] \in Task
  BY DEF TypeOK, MarketTypeOK
<1>2. tasks'[id] = [tasks[id] EXCEPT !.state = "Cancelled"]
  BY DEF CancelUnaccepted, TypeOK, MarketTypeOK
<1>3. /\ tasks[id].state = "Created" /\ UNCHANGED <<positions, nextTaskId>>
      /\ \A i \in TaskIds \ {id} : tasks'[i] = tasks[i]
  BY DEF CancelUnaccepted, TypeOK, MarketTypeOK
<1>4. /\ tasks'[id].pool = tasks[id].pool
      /\ tasks'[id].validatorWallet = tasks[id].validatorWallet
  BY <1>1, <1>2 DEF Task
<1> QED
  BY <1>3, <1>4, MoveShape

LEMMA FinalizeShape ==
    ASSUME TypeOK, TaskShape, NEW id \in TaskIds, tasks[id].state # "None",
           NEW outcome, NEW rule, Finalize(id, outcome, rule)
    PROVE  TaskShape'
<1>1. tasks[id] \in Task
  BY DEF TypeOK, MarketTypeOK
<1>2. tasks'[id] = [tasks[id] EXCEPT !.state = "Settled", !.outcome = outcome]
  BY <1>1 DEF Finalize, TypeOK, MarketTypeOK
<1>3. /\ UNCHANGED <<positions, nextTaskId>>
      /\ \A i \in TaskIds \ {id} : tasks'[i] = tasks[i]
  BY DEF Finalize, TypeOK, MarketTypeOK
<1>4. /\ tasks'[id].state = "Settled" /\ tasks'[id].pool = tasks[id].pool
      /\ tasks'[id].validatorWallet = tasks[id].validatorWallet
  BY <1>1, <1>2 DEF Task
<1> QED
  BY <1>3, <1>4, MoveShape

(***************************************************************************)
(* The four ways a task settles are all _finalize, applied to an open or a *)
(* delivered task with an outcome and the number of the rule.              *)
(***************************************************************************)
Settles(id) ==
    \/ SettleWithValidation(id)
    \/ SettleByTimeout(id)
    \/ \E a \in Accounts, approved \in BOOLEAN : Attest(a, id, approved)

Finalizes(id) ==
    /\ tasks[id].state \in {"Open", "Delivered"}
    /\ \E outcome \in Sides, rule \in 1..5 : Finalize(id, outcome, rule)

LEMMA SettlementIsFinalize ==
    ASSUME NEW id \in TaskIds, Settles(id)
    PROVE  Finalizes(id)
<1> USE DEF Finalizes, Sides
<1>1. CASE SettleWithValidation(id)
  BY <1>1 DEF SettleWithValidation, MaySettle
<1>2. CASE SettleByTimeout(id)
  BY <1>2 DEF SettleByTimeout, Undelivered, Unanswered
<1>3. CASE \E a \in Accounts, approved \in BOOLEAN : Attest(a, id, approved)
  BY <1>3 DEF Attest
<1> QED
  BY <1>1, <1>2, <1>3 DEF Settles

(***************************************************************************)
(* Next, sorted by what a step touches: the market, its books, or only the *)
(* clock, the pause flag, the registries and the withdrawable fees.        *)
(***************************************************************************)
Posts == \E job \in Jobs : CreateTask(job)
Stands(id) ==
    \E a \in Accounts, agent \in Agents, stake \in Stakes : AcceptAndStake(a, id, agent, stake)
Backs(id) ==
    \E a \in Accounts, agent \in Agents, side \in Sides, amount \in Bets :
        PlaceBet(a, id, agent, side, amount)
Delivers(id) == \E a \in Accounts, hash \in Hashes : SubmitDelivery(a, id, hash)
Pays(id) == SweepDust(id) \/ \E a \in Accounts : Claim(a, id)
Collects == \E a \in Accounts : WithdrawTreasury(a) \/ WithdrawValidatorFees(a)
Answers ==
    \/ \E validator \in Accounts, agent \in Agents, hash \in RequestHashes :
          FileRequest(validator, agent, hash)
    \/ \E a \in Accounts, hash \in RequestHashes, response \in Responses :
          Respond(a, hash, response)
    \/ IdentityChange
Waits == Tick \/ \E a \in Accounts : SetPaused(a)

Step ==
    \/ Posts \/ Collects \/ Answers \/ Waits \/ UNCHANGED vars
    \/ \E id \in TaskIds : \/ Stands(id) \/ Backs(id) \/ Delivers(id)
                           \/ CancelUnaccepted(id) \/ Settles(id) \/ Pays(id)

(* Step is Next and a little more: a request may name any validator and any *)
(* agent.  The lemmas about steps are about Step, so that they hold of a    *)
(* chain with daemons on it as well.                                        *)
LEMMA StepCases == ASSUME [Next]_vars PROVE Step
<1> SUFFICES ASSUME Next PROVE Step
  BY DEF Step
<1> USE DEF Posts, Collects, Answers, Waits, Stands, Backs, Delivers, Pays
<1>1. ASSUME NEW id \in TaskIds,
             \/ CancelUnaccepted(id)
             \/ SettleWithValidation(id)
             \/ SettleByTimeout(id)
             \/ SweepDust(id)
             \/ \E a \in Accounts :
                   \/ \E agent \in Agents, stake \in Stakes : AcceptAndStake(a, id, agent, stake)
                   \/ \E agent \in Agents, side \in Sides, amount \in Bets :
                         PlaceBet(a, id, agent, side, amount)
                   \/ \E hash \in Hashes : SubmitDelivery(a, id, hash)
                   \/ \E approved \in BOOLEAN : Attest(a, id, approved)
                   \/ Claim(a, id)
      PROVE  \/ Stands(id) \/ Backs(id) \/ Delivers(id)
             \/ CancelUnaccepted(id) \/ Settles(id) \/ Pays(id)
  BY <1>1 DEF Settles
<1>2. \A request \in Requests : request.validator \in Accounts /\ request.agentId \in Agents
  BY EnvironmentAssumption
<1> QED
  BY <1>1, <1>2 DEF Next, Step

LEMMA PaysFrame == ASSUME NEW id \in TaskIds, Pays(id) PROVE UNCHANGED market
BY DEF Pays, SweepDust, Claim, MayClaim

LEMMA QuietFrame ==
    ASSUME Collects \/ Answers \/ Waits \/ UNCHANGED vars
    PROVE  UNCHANGED market
<1>1. CASE Collects
  BY <1>1 DEF Collects, WithdrawTreasury, WithdrawValidatorFees, MayWithdraw
<1>2. CASE Answers
  BY <1>2 DEF Answers, FileRequest, Respond, IdentityChange
<1>3. CASE Waits
  BY <1>3 DEF Waits, Tick, SetPaused
<1>4. CASE UNCHANGED vars
  BY <1>4 DEF vars, market
<1> QED
  BY <1>1, <1>2, <1>3, <1>4

LEMMA NextType == ASSUME TypeOK, TaskShape, Step PROVE TypeOK'
<1>1. CASE Posts
  BY <1>1, CreateTaskType DEF Posts
<1>2. CASE Collects
  BY <1>2, WithdrawType DEF Collects
<1>3. CASE Answers
  BY <1>3, RegistryType DEF Answers
<1>4. CASE Waits
  <2>1. now' \in Nat /\ escrow' \in Nat
    BY <1>4 DEF Waits, Tick, SetPaused, TypeOK
  <2>2. paused' \in BOOLEAN
    BY <1>4, Zenon DEF Waits, Tick, SetPaused, TypeOK
  <2>3. UNCHANGED <<market, books, registries>>
    BY <1>4 DEF Waits, Tick, SetPaused
  <2> QED
    BY <2>1, <2>2, <2>3, TypeFrame DEF TypeOK
<1>5. CASE UNCHANGED vars
  BY <1>5, TypeFrame DEF vars, TypeOK
<1>6. ASSUME NEW id \in TaskIds, Settles(id) PROVE TypeOK'
  BY <1>6, SettlementIsFinalize, FinalizeType DEF Finalizes
<1>7. ASSUME NEW id \in TaskIds, Stands(id) PROVE TypeOK'
  BY <1>7, AcceptAndStakeType DEF Stands
<1>8. ASSUME NEW id \in TaskIds, Backs(id) PROVE TypeOK'
  BY <1>8, PlaceBetType DEF Backs
<1>9. ASSUME NEW id \in TaskIds, Delivers(id) PROVE TypeOK'
  BY <1>9, SubmitDeliveryType DEF Delivers
<1>10. ASSUME NEW id \in TaskIds, Pays(id) PROVE TypeOK'
  BY <1>10, SweepDustType, ClaimType DEF Pays
<1> QED
  BY <1>1, <1>2, <1>3, <1>4, <1>5, <1>6, <1>7, <1>8, <1>9, <1>10,
     CancelUnacceptedType DEF Step

LEMMA NextShape == ASSUME TypeOK, TaskShape, Step PROVE TaskShape'
<1>1. CASE Posts
  BY <1>1, CreateTaskShape DEF Posts
<1>2. CASE Collects \/ Answers \/ Waits \/ UNCHANGED vars
  BY <1>2, QuietFrame, ShapeFrame
<1>3. ASSUME NEW id \in TaskIds, Settles(id) PROVE TaskShape'
  BY <1>3, SettlementIsFinalize, FinalizeShape DEF Finalizes
<1>4. ASSUME NEW id \in TaskIds, Stands(id) PROVE TaskShape'
  BY <1>4, AcceptAndStakeShape DEF Stands
<1>5. ASSUME NEW id \in TaskIds, Backs(id) PROVE TaskShape'
  BY <1>5, PlaceBetShape DEF Backs
<1>6. ASSUME NEW id \in TaskIds, Delivers(id) PROVE TaskShape'
  BY <1>6, SubmitDeliveryShape DEF Delivers
<1>7. ASSUME NEW id \in TaskIds, Pays(id) PROVE TaskShape'
  BY <1>7, PaysFrame, ShapeFrame
<1> QED
  BY <1>1, <1>2, <1>3, <1>4, <1>5, <1>6, <1>7, CancelUnacceptedShape DEF Step

(* Every reachable state has the types the contracts' storage declares, for *)
(* all parameters the constructor accepts and all callers: in particular    *)
(* fees, shares and payouts (lines 559-618) are never negative, and no      *)
(* payout divides by an empty pool, so neither a settlement nor a claim can *)
(* be blocked by a failing computation.                                     *)
THEOREM TypeCorrect == Spec => []TypeOK
<1>1. Init => TypeOK /\ TaskShape
  BY InitType, InitShape
<1>2. TypeOK /\ TaskShape /\ [Next]_vars => (TypeOK /\ TaskShape)'
  BY StepCases, NextType, NextShape
<1> QED
  BY <1>1, <1>2, PTL DEF Spec

-----------------------------------------------------------------------------
(* Who stands where.                                                       *)

\* RolesKeepTheirSide and StakeKept, for one task.
RolesOf(t, w) ==
    /\ \A a \in Accounts :
          /\ a = t.workerWallet => w[a]["No"] = 0
          /\ a \in {t.client, t.validatorWallet} \ {t.workerWallet} =>
                \A side \in Sides : w[a][side] = 0
    /\ t.state \in {"Open", "Delivered", "Settled"} =>
          t.workerWallet \in Accounts /\ t.selfStake <= w[t.workerWallet]["Yes"]

LEMMA RolesPerTask ==
    RolesKeepTheirSide /\ StakeKept <=> \A id \in TaskIds : RolesOf(tasks[id], positions[id])
BY DEF RolesKeepTheirSide, StakeKept, RolesOf

\* Deliveries, cancellations and settlements change neither parties nor stakes.
SameParties(t, u) ==
    /\ u.client = t.client /\ u.validatorWallet = t.validatorWallet
    /\ u.workerWallet = t.workerWallet /\ u.selfStake = t.selfStake
    /\ u.state \in {"Open", "Delivered", "Settled"} =>
          t.state \in {"Open", "Delivered", "Settled"}

LEMMA SamePartiesKeep ==
    ASSUME NEW t, NEW u, NEW w, RolesOf(t, w), SameParties(t, u)
    PROVE  RolesOf(u, w)
BY DEF RolesOf, SameParties

LEMMA EmptyRoles ==
    ASSUME NEW t, NEW w, t.state \notin {"Open", "Delivered", "Settled"},
           \A a \in Accounts, side \in Sides : w[a][side] = 0
    PROVE  RolesOf(t, w)
BY DEF RolesOf, Sides

(* Nobody has a position in a task that is not open yet.                    *)
LEMMA NoPositionYet ==
    ASSUME TypeOK, TaskShape, NEW id \in TaskIds,
           tasks[id].state \in {"None", "Created"}
    PROVE  \A a \in Accounts, side \in Sides : positions[id][a][side] = 0
<1> SUFFICES ASSUME NEW a \in Accounts, NEW side \in Sides
             PROVE  positions[id][a][side] = 0
  OBVIOUS
<1>1. positions[id][a][side] <= tasks[id].pool[side] /\ tasks[id].pool = [s \in Sides |-> 0]
  BY DEF TaskShape
<1>2. positions[id][a][side] \in Nat
  BY DEF TypeOK, MarketTypeOK
<1> QED
  BY <1>1, <1>2

LEMMA AcceptRoles ==
    ASSUME TypeOK, TaskShape, NEW sender \in Accounts, NEW id \in TaskIds,
           NEW agent \in Agents, NEW stake \in Stakes,
           AcceptAndStake(sender, id, agent, stake)
    PROVE  RolesOf(tasks'[id], positions'[id])
<1>1. tasks[id] \in Task /\ stake \in Nat
  BY EnvironmentAssumption DEF TypeOK, MarketTypeOK
<1>2. tasks'[id] = [tasks[id] EXCEPT !.workerAgentId = agent, !.workerWallet = sender,
                        !.selfStake = stake, !.betCutoff = now + BETTING_WINDOW,
                        !.pool = [tasks[id].pool EXCEPT !["Yes"] = stake], !.state = "Open"]
  BY DEF AcceptAndStake, MayAccept, TypeOK, MarketTypeOK
<1>3. tasks'[id].workerWallet = sender /\ tasks'[id].selfStake = stake
  BY <1>1, <1>2 DEF Task
<1>4. \A a \in Accounts, side \in Sides : positions[id][a][side] = 0
  <2>1. tasks[id].state = "Created"
    BY DEF AcceptAndStake, MayAccept
  <2> QED
    BY <2>1, NoPositionYet
<1>5. \A a \in Accounts, side \in Sides :
         positions'[id][a][side] = IF a = sender /\ side = "Yes" THEN stake ELSE 0
  BY <1>4 DEF AcceptAndStake, MayAccept, TypeOK, MarketTypeOK
<1> QED
  BY <1>1, <1>3, <1>5 DEF RolesOf, Sides

LEMMA BetRoles ==
    ASSUME TypeOK, NEW sender \in Accounts, NEW id \in TaskIds,
           NEW agent \in Agents, NEW side \in Sides, NEW amount \in Bets,
           PlaceBet(sender, id, agent, side, amount),
           RolesOf(tasks[id], positions[id])
    PROVE  RolesOf(tasks'[id], positions'[id])
<1> DEFINE t == tasks[id]  u == tasks'[id]
<1>1. t \in Task /\ amount \in Nat
  BY EnvironmentAssumption DEF TypeOK, MarketTypeOK
<1>2. u = [t EXCEPT !.pool = [t.pool EXCEPT ![side] = @ + amount]]
  BY <1>1 DEF PlaceBet, MayBet, TypeOK, MarketTypeOK, Task
<1>3. /\ u.client = t.client /\ u.validatorWallet = t.validatorWallet
      /\ u.workerWallet = t.workerWallet /\ u.selfStake = t.selfStake /\ t.state = "Open"
  BY <1>1, <1>2 DEF Task, PlaceBet, MayBet
<1>4. /\ sender \notin {t.client, t.validatorWallet}
      /\ side = "No" => sender # t.workerWallet
  BY DEF PlaceBet, MayBet, RoleBanned
<1>5. \A a \in Accounts, s \in Sides :
         /\ positions[id][a][s] \in Nat
         /\ positions'[id][a][s] = IF a = sender /\ s = side
                                   THEN positions[id][a][s] + amount
                                   ELSE positions[id][a][s]
  BY DEF PlaceBet, MayBet, TypeOK, MarketTypeOK
<1>6. t.workerWallet \in Accounts /\ t.selfStake <= positions[id][t.workerWallet]["Yes"]
  BY <1>3 DEF RolesOf
<1>7. t.selfStake \in Nat /\ "Yes" \in Sides /\ "No" \in Sides
  BY <1>1 DEF Task, Sides
<1>8. t.selfStake <= positions'[id][t.workerWallet]["Yes"]
  BY <1>1, <1>5, <1>6, <1>7
<1>9. \A a \in Accounts : a = t.workerWallet => positions'[id][a]["No"] = 0
  BY <1>4, <1>5, <1>7 DEF RolesOf
<1>10. \A a \in Accounts : a \in {t.client, t.validatorWallet} \ {t.workerWallet} =>
          \A s \in Sides : positions'[id][a][s] = 0
  BY <1>4, <1>5 DEF RolesOf
<1> QED
  BY <1>3, <1>6, <1>8, <1>9, <1>10 DEF RolesOf

RoleInv == TypeOK /\ TaskShape /\ RolesKeepTheirSide /\ StakeKept

LEMMA NextRoles ==
    ASSUME RoleInv, Step
    PROVE  (RolesKeepTheirSide /\ StakeKept)'
<1> USE DEF RoleInv
<1>a. \A i \in TaskIds : RolesOf(tasks[i], positions[i])
  BY RolesPerTask
<1> SUFFICES ASSUME NEW i \in TaskIds PROVE RolesOf(tasks'[i], positions'[i])
  BY DEF RolesKeepTheirSide, StakeKept, RolesOf
<1>0. RolesOf(tasks[i], positions[i]) /\ tasks[i] \in Task
  BY <1>a DEF TypeOK, MarketTypeOK
<1>1. CASE tasks'[i] = tasks[i] /\ positions'[i] = positions[i]
  BY <1>0, <1>1
<1>2. CASE Posts
  <2>1. PICK job \in Jobs : CreateTask(job)
    BY <1>2 DEF Posts
  <2>2. CASE i # nextTaskId
    BY <1>1, <2>1, <2>2 DEF CreateTask, TypeOK, MarketTypeOK
  <2>3. CASE i = nextTaskId
    <3>1. tasks[i].state = "None" /\ tasks'[i].state = "Created" /\ positions' = positions
      <4>1. tasks[i] = NoTask
        BY <2>3 DEF TaskShape, TypeOK, MarketTypeOK
      <4>2. tasks'[i].state = "Created" /\ positions' = positions
        BY <2>1, <2>3 DEF CreateTask, TypeOK, MarketTypeOK, NoTask
      <4> QED
        BY <4>1, <4>2 DEF NoTask
    <3> QED
      BY <3>1, NoPositionYet, EmptyRoles
  <2> QED
    BY <2>2, <2>3
<1>3. CASE Collects \/ Answers \/ Waits \/ UNCHANGED vars
  BY <1>1, <1>3, QuietFrame DEF market
<1>4. ASSUME NEW id \in TaskIds, Pays(id) PROVE RolesOf(tasks'[i], positions'[i])
  BY <1>1, <1>4, PaysFrame DEF market
<1>5. ASSUME NEW id \in TaskIds, Stands(id) PROVE RolesOf(tasks'[i], positions'[i])
  <2>1. PICK a \in Accounts, agent \in Agents, stake \in Stakes :
            AcceptAndStake(a, id, agent, stake)
    BY <1>5 DEF Stands
  <2>2. CASE i # id
    BY <1>1, <2>1, <2>2 DEF AcceptAndStake, MayAccept, TypeOK, MarketTypeOK
  <2> QED
    BY <2>1, <2>2, AcceptRoles
<1>6. ASSUME NEW id \in TaskIds, Backs(id) PROVE RolesOf(tasks'[i], positions'[i])
  <2>1. PICK a \in Accounts, agent \in Agents, side \in Sides, amount \in Bets :
            PlaceBet(a, id, agent, side, amount)
    BY <1>6 DEF Backs
  <2>2. CASE i # id
    BY <1>1, <2>1, <2>2 DEF PlaceBet, MayBet, TypeOK, MarketTypeOK
  <2> QED
    BY <1>0, <2>1, <2>2, BetRoles
<1>7. ASSUME positions' = positions, SameParties(tasks[i], tasks'[i])
      PROVE  RolesOf(tasks'[i], positions'[i])
  BY <1>0, <1>7, SamePartiesKeep
<1>8. ASSUME NEW id \in TaskIds, Delivers(id) PROVE RolesOf(tasks'[i], positions'[i])
  <2>1. PICK a \in Accounts, hash \in Hashes : SubmitDelivery(a, id, hash)
    BY <1>8 DEF Delivers
  <2>2. tasks[i] = tasks'[i] \/ /\ tasks[i].state = "Open"
                                /\ tasks'[i] = [tasks[i] EXCEPT !.deliveredAt = now,
                                       !.deliverableHash = hash, !.state = "Delivered"]
    BY <2>1 DEF SubmitDelivery, MayDeliver, TypeOK, MarketTypeOK
  <2>3. SameParties(tasks[i], tasks'[i])
    BY <1>0, <2>2 DEF SameParties, Task
  <2> QED
    BY <1>7, <2>1, <2>3 DEF SubmitDelivery, MayDeliver
<1>9. ASSUME NEW id \in TaskIds, CancelUnaccepted(id)
      PROVE  RolesOf(tasks'[i], positions'[i])
  <2>1. tasks[i] = tasks'[i] \/ tasks'[i] = [tasks[i] EXCEPT !.state = "Cancelled"]
    BY <1>9 DEF CancelUnaccepted, TypeOK, MarketTypeOK
  <2>2. SameParties(tasks[i], tasks'[i])
    BY <1>0, <2>1 DEF SameParties, Task
  <2> QED
    BY <1>7, <1>9, <2>2 DEF CancelUnaccepted
<1>10. ASSUME NEW id \in TaskIds, Settles(id) PROVE RolesOf(tasks'[i], positions'[i])
  <2>1. PICK outcome \in Sides, rule \in 1..5 : Finalize(id, outcome, rule)
    BY <1>10, SettlementIsFinalize DEF Finalizes
  <2>2. tasks[id].state \in {"Open", "Delivered"}
    BY <1>10, SettlementIsFinalize DEF Finalizes
  <2>3. tasks[i] = tasks'[i]
          \/ /\ i = id
             /\ tasks'[i] = [tasks[i] EXCEPT !.state = "Settled", !.outcome = outcome]
    BY <1>0, <2>1 DEF Finalize, TypeOK, MarketTypeOK
  <2>4. SameParties(tasks[i], tasks'[i])
    BY <1>0, <2>2, <2>3 DEF SameParties, Task
  <2> QED
    BY <1>7, <2>1, <2>4 DEF Finalize
<1> QED
  BY <1>2, <1>3, <1>4, <1>5, <1>6, <1>8, <1>9, <1>10 DEF Step

LEMMA RoleInvariance == Spec => []RoleInv
<1>1. Init => RoleInv
  <2>1. Init => RolesKeepTheirSide /\ StakeKept
    BY DEF Init, RolesKeepTheirSide, StakeKept, NoTask, Sides
  <2> QED
    BY <2>1, InitType, InitShape DEF RoleInv
<1>2. RoleInv /\ [Next]_vars => RoleInv'
  BY StepCases, NextType, NextShape, NextRoles DEF RoleInv
<1> QED
  BY <1>1, <1>2, PTL DEF Spec

(* The role bans, checked per call, add up: a worker never stands to gain   *)
(* from NO on its own task, and client and validator never bet at all       *)
(* unless they are the worker, whatever agents and wallets were rotated.    *)
THEOREM RolesHold == Spec => []RolesKeepTheirSide
<1>1. RoleInv => RolesKeepTheirSide
  BY DEF RoleInv
<1> QED
  BY <1>1, RoleInvariance, PTL

(* A winner gets its own position back at least.                            *)
LEMMA PayoutCoversPosition ==
    ASSUME NEW w \in Nat, NEW losing \in Nat, NEW winning \in Nat, w <= winning
    PROVE  WinnerPayout(w, losing, winning) >= w
<1>1. CASE w = 0
  BY <1>1 DEF WinnerPayout
<1>2. CASE w > 0
  <2>1. Distributable(losing) \in Nat
    BY BpsBound, ParamsAssumption DEF Distributable, Fee
  <2>2. w * Distributable(losing) \in Nat /\ winning \in Nat \ {0}
    BY <1>2, <2>1
  <2>3. (w * Distributable(losing)) \div winning \in Nat
    BY <2>2, FloorNat
  <2> QED
    BY <1>2, <2>3 DEF WinnerPayout
<1> QED
  BY <1>1, <1>2

LEMMA RolesPay == RoleInv => IncentivesAlign
<1> SUFFICES ASSUME RoleInv, NEW id \in TaskIds, tasks[id].state = "Settled"
             PROVE  LET t == tasks[id] IN
                    /\ t.outcome = "Yes" =>
                          Entitlement(id, t.workerWallet) >= t.selfStake + t.reward
                    /\ t.outcome = "No" /\ t.workerWallet # t.client =>
                          Entitlement(id, t.workerWallet) = 0
                    /\ t.validatorWallet \notin {t.client, t.workerWallet} =>
                          Entitlement(id, t.validatorWallet) = 0
  BY DEF IncentivesAlign
<1> USE DEF RoleInv
<1> DEFINE t == tasks[id]  w == positions[id][t.workerWallet]
<1>1. t \in Task /\ t.workerWallet \in Accounts /\ t.selfStake <= w["Yes"]
  BY DEF StakeKept, TypeOK, MarketTypeOK
<1>2. t.validatorWallet \in Accounts
  BY DEF TaskShape
<1>3. /\ w["Yes"] \in Nat /\ t.pool["Yes"] \in Nat /\ t.pool["No"] \in Nat
      /\ t.selfStake \in Nat /\ t.reward \in Nat /\ w["Yes"] <= t.pool["Yes"]
  BY <1>1 DEF TypeOK, MarketTypeOK, Task, Sides, TaskShape
<1>4. w["No"] = 0
  BY <1>1 DEF RolesKeepTheirSide
<1>5. ASSUME t.outcome = "Yes"
      PROVE  Entitlement(id, t.workerWallet) >= t.selfStake + t.reward
  <2>1. Entitlement(id, t.workerWallet)
          = WinnerPayout(w["Yes"], t.pool["No"], t.pool["Yes"]) + t.reward
    BY <1>5 DEF Entitlement
  <2>2. WinnerPayout(w["Yes"], t.pool["No"], t.pool["Yes"]) >= w["Yes"]
    BY <1>3, PayoutCoversPosition
  <2>3. WinnerPayout(w["Yes"], t.pool["No"], t.pool["Yes"]) \in Int
    <3>1. Distributable(t.pool["No"]) \in Nat
      BY <1>3, BpsBound, ParamsAssumption DEF Distributable, Fee
    <3>2. w["Yes"] > 0 => (w["Yes"] * Distributable(t.pool["No"])) \div t.pool["Yes"] \in Nat
      <4>1. w["Yes"] > 0 => t.pool["Yes"] \in Nat \ {0}
        BY <1>3
      <4>2. w["Yes"] * Distributable(t.pool["No"]) \in Nat
        BY <1>3, <3>1
      <4> QED
        BY <4>1, <4>2, FloorNat
    <3> QED
      BY <1>3, <3>2 DEF WinnerPayout
  <2> QED
    BY <1>1, <1>3, <2>1, <2>2, <2>3
<1>6. ASSUME t.outcome = "No", t.workerWallet # t.client
      PROVE  Entitlement(id, t.workerWallet) = 0
  BY <1>4, <1>6 DEF Entitlement, WinnerPayout
<1>7. ASSUME t.validatorWallet \notin {t.client, t.workerWallet}
      PROVE  Entitlement(id, t.validatorWallet) = 0
  <2>1. \A side \in Sides : positions[id][t.validatorWallet][side] = 0
    BY <1>2, <1>7 DEF RolesKeepTheirSide
  <2> QED
    BY <1>7, <2>1 DEF Entitlement, WinnerPayout, Sides
<1> QED
  BY <1>5, <1>6, <1>7

(* What each party stands to gain follows its role, for all parameters and  *)
(* all histories: a worker's stake and reward come back exactly when the    *)
(* work is judged delivered, and a validator's answer moves no payout of    *)
(* its own (_entitlement, lines 589-618, over every state it can meet).     *)
THEOREM IncentivesHold == Spec => []IncentivesAlign
BY RoleInvariance, RolesPay, PTL

-----------------------------------------------------------------------------
(* A task is settled by the best evidence there will ever be about it, and  *)
(* stays as it was settled.  The argument follows what one step can do to   *)
(* one task (EvidenceCases) and to one registry answer (AnswersKept): an    *)
(* answer that arrives after a settlement by R4 or R5 is later than the     *)
(* response window, because those rules wait for the window to pass.        *)

(* What a step leaves alone in a task that is finished: everything.         *)
Kept(i) ==
    /\ tasks'[i] = tasks[i] /\ positions'[i] = positions[i]
    /\ settledAt'[i] = settledAt[i] /\ viaRule'[i] = viaRule[i]
    /\ feedback'[i] = feedback[i]

LEMMA SettlesKeeps ==
    ASSUME TypeOK, NEW id \in TaskIds, Settles(id), NEW i \in TaskIds, i # id
    PROVE  Kept(i)
<1>1. PICK outcome \in Sides, rule \in 1..5 : Finalize(id, outcome, rule)
  BY SettlementIsFinalize DEF Finalizes
<1>2. feedback'[i] = feedback[i]
  BY <1>1 DEF Finalize, TypeOK, BooksTypeOK
<1> QED
  BY <1>1, <1>2 DEF Kept, Finalize, TypeOK, MarketTypeOK, BooksTypeOK

LEMMA QuietKeeps ==
    ASSUME \/ Collects \/ Answers \/ Waits \/ UNCHANGED vars
           \/ \E id \in TaskIds : Pays(id),
           NEW i \in TaskIds
    PROVE  Kept(i)
<1> USE DEF Kept, market
<1>1. CASE Collects
  BY <1>1 DEF Collects, WithdrawTreasury, WithdrawValidatorFees, MayWithdraw
<1>2. CASE Answers
  BY <1>2 DEF Answers, FileRequest, Respond, IdentityChange, books
<1>3. CASE Waits
  BY <1>3 DEF Waits, Tick, SetPaused, books
<1>4. CASE UNCHANGED vars
  BY <1>4 DEF vars, books
<1>5. CASE \E id \in TaskIds : Pays(id)
  BY <1>5 DEF Pays, SweepDust, Claim, MayClaim
<1> QED
  BY <1>1, <1>2, <1>3, <1>4, <1>5

LEMMA TerminalKept ==
    ASSUME TypeOK, TaskShape, Step, NEW i \in TaskIds, tasks[i].state \in Terminal
    PROVE  Kept(i)
<1> USE DEF Terminal
<1>1. CASE Posts
  <2>1. i # nextTaskId
    BY EnvironmentAssumption DEF TaskShape, NoTask, TypeOK, MarketTypeOK
  <2> QED
    BY <1>1, <2>1 DEF Posts, CreateTask, Kept, books, TypeOK, MarketTypeOK
<1>2. ASSUME NEW id \in TaskIds, Settles(id) PROVE Kept(i)
  BY <1>2, SettlementIsFinalize, SettlesKeeps DEF Finalizes
<1>3. ASSUME NEW id \in TaskIds, Stands(id) PROVE Kept(i)
  BY <1>3 DEF Stands, AcceptAndStake, MayAccept, Kept, books, TypeOK, MarketTypeOK
<1>4. ASSUME NEW id \in TaskIds, Backs(id) PROVE Kept(i)
  BY <1>4 DEF Backs, PlaceBet, MayBet, Kept, books, TypeOK, MarketTypeOK
<1>5. ASSUME NEW id \in TaskIds, Delivers(id) PROVE Kept(i)
  BY <1>5 DEF Delivers, SubmitDelivery, MayDeliver, Kept, books, TypeOK, MarketTypeOK
<1>6. ASSUME NEW id \in TaskIds, CancelUnaccepted(id) PROVE Kept(i)
  BY <1>6 DEF CancelUnaccepted, Kept, TypeOK, MarketTypeOK
<1> QED
  BY <1>1, <1>2, <1>3, <1>4, <1>5, <1>6, QuietKeeps DEF Step

LEMMA ClosedStays ==
    ASSUME TypeOK, Step, NEW i \in TaskIds
    PROVE  claimed[i] \subseteq claimed'[i] /\ (dustSwept[i] => dustSwept'[i])
<1>1. CASE UNCHANGED <<claimed, dustSwept>>
  BY <1>1
<1>2. ASSUME NEW id \in TaskIds, SweepDust(id)
      PROVE  claimed[i] \subseteq claimed'[i] /\ (dustSwept[i] => dustSwept'[i])
  <2>1. claimed' = claimed /\ dustSwept' = [dustSwept EXCEPT ![id] = TRUE]
    BY <1>2 DEF SweepDust
  <2> QED
    BY <2>1, Zenon DEF TypeOK, BooksTypeOK
<1>3. ASSUME NEW id \in TaskIds, NEW a \in Accounts, Claim(a, id)
      PROVE  claimed[i] \subseteq claimed'[i] /\ (dustSwept[i] => dustSwept'[i])
  <2>1. dustSwept' = dustSwept /\ claimed' = [claimed EXCEPT ![id] = @ \cup {a}]
    BY <1>3 DEF Claim, MayClaim
  <2> QED
    BY <2>1, Zenon DEF TypeOK, BooksTypeOK
<1>4. CASE Posts
  BY <1>1, <1>4 DEF Posts, CreateTask, books
<1>5. CASE Collects
  BY <1>1, <1>5 DEF Collects, WithdrawTreasury, WithdrawValidatorFees, MayWithdraw
<1>6. CASE Answers
  BY <1>1, <1>6 DEF Answers, FileRequest, Respond, IdentityChange, books
<1>7. CASE Waits
  BY <1>1, <1>7 DEF Waits, Tick, SetPaused, books
<1>8. CASE UNCHANGED vars
  BY <1>1, <1>8 DEF vars, books
<1>9. ASSUME NEW id \in TaskIds, \/ Stands(id) \/ Backs(id) \/ Delivers(id)
                                \/ CancelUnaccepted(id) \/ Settles(id)
      PROVE  UNCHANGED <<claimed, dustSwept>>
  BY <1>9, SettlementIsFinalize
     DEF Stands, AcceptAndStake, MayAccept, Backs, PlaceBet, MayBet, Delivers, SubmitDelivery, MayDeliver,
         CancelUnaccepted, Finalizes, Finalize, books
<1>10. ASSUME NEW id \in TaskIds, Pays(id)
       PROVE  claimed[i] \subseteq claimed'[i] /\ (dustSwept[i] => dustSwept'[i])
  BY <1>2, <1>3, <1>10 DEF Pays
<1> QED
  BY <1>1, <1>4, <1>5, <1>6, <1>7, <1>8, <1>9, <1>10 DEF Step

(* What an account can claim from a finished task never changes, except to  *)
(* nothing once it has claimed or the dust was swept, whatever is answered, *)
(* rotated, paused or posted afterwards (R6).                               *)
THEOREM PayoutsFrozen == Spec => EntitlementsFrozen
<1>1. ASSUME TypeOK, TaskShape, Step, NEW id \in TaskIds,
             tasks[id].state \in Terminal
      PROVE  /\ tasks'[id] = tasks[id]
             /\ \A a \in Accounts : PreviewPayout(id, a)' \in {0, PreviewPayout(id, a)}
  <2>1. tasks'[id] = tasks[id] /\ positions'[id] = positions[id]
    BY <1>1, TerminalKept DEF Kept
  <2>2. \A a \in Accounts : Entitlement(id, a)' = Entitlement(id, a)
    BY <2>1 DEF Entitlement
  <2>3. claimed[id] \subseteq claimed'[id] /\ (dustSwept[id] => dustSwept'[id])
    BY <1>1, ClosedStays
  <2>4. \A a \in Accounts : PreviewPayout(id, a)' \in {0, PreviewPayout(id, a)}
    BY <1>1, <2>1, <2>2, <2>3 DEF PreviewPayout, ClaimOpen
  <2> QED
    BY <2>1, <2>4
<1>2. TypeOK /\ TaskShape /\ [Next]_vars =>
        [\A id \in TaskIds : tasks[id].state \in Terminal =>
           /\ tasks'[id] = tasks[id]
           /\ \A a \in Accounts : PreviewPayout(id, a)' \in {0, PreviewPayout(id, a)}]_vars
  BY StepCases, <1>1
<1>3. Init => TypeOK /\ TaskShape
  BY InitType, InitShape
<1>4. TypeOK /\ TaskShape /\ [Next]_vars => (TypeOK /\ TaskShape)'
  BY StepCases, NextType, NextShape
<1> QED
  BY <1>2, <1>3, <1>4, PTL DEF Spec, EntitlementsFrozen

-----------------------------------------------------------------------------
(* Registry answers. *)

(* A stored answer is never replaced, and a new one carries this block's time. *)
AnswerKept(hash) ==
    \/ status'[hash] = status[hash]
    \/ /\ status[hash].respondedAt = 0
       /\ \/ status'[hash].respondedAt = 0
          \/ status'[hash].respondedAt = now /\ status'[hash].validator # NoAccount

LEMMA AnswersKept ==
    ASSUME TypeOK, AnswerShape, Step, NEW hash \in RequestHashes
    PROVE  AnswerKept(hash)
<1>1. ASSUME NEW validator \in Accounts, NEW agent \in Agents,
             NEW h \in RequestHashes, FileRequest(validator, agent, h)
      PROVE  AnswerKept(hash)
  <2>1. status[h].respondedAt = 0
    BY <1>1 DEF FileRequest, Validation!ValidationRequest, Validation!MayRequest, AnswerShape
  <2>2. status' = [status EXCEPT ![h] =
                    [validator |-> validator, agentId |-> agent,
                     response |-> 0, respondedAt |-> 0]]
    BY <1>1 DEF FileRequest, Validation!ValidationRequest, Validation!MayRequest
  <2>3. h = hash => status'[hash].respondedAt = 0
    BY <2>2 DEF TypeOK, RegistriesTypeOK, Validation!ValidationTypeOK
  <2>4. h # hash => status'[hash] = status[hash]
    BY <2>2 DEF TypeOK, RegistriesTypeOK, Validation!ValidationTypeOK
  <2> QED
    BY <2>1, <2>3, <2>4 DEF AnswerKept
<1>2. ASSUME NEW a \in Accounts, NEW h \in RequestHashes, NEW response \in Responses,
             Respond(a, h, response)
      PROVE  AnswerKept(hash)
  <2>1. status[h].respondedAt = 0 /\ status[h].validator # NoAccount
    BY <1>2, EnvironmentAssumption DEF Respond, Validation!ValidationResponse, Validation!MayRespond
  <2>2. status' = [status EXCEPT ![h] =
                     [status[h] EXCEPT !.response = response, !.respondedAt = now]]
    BY <1>2 DEF Respond, Validation!ValidationResponse, Validation!MayRespond, TypeOK, RegistriesTypeOK,
                Validation!ValidationTypeOK
  <2>3. status[h] \in [validator : Accounts \cup {NoAccount}, agentId : Agents \cup {NoAgent},
                       response : 0..100, respondedAt : Nat]
    BY DEF TypeOK, RegistriesTypeOK, Validation!ValidationTypeOK
  <2>4. h = hash => /\ status'[hash].respondedAt = now
                    /\ status'[hash].validator = status[h].validator
    BY <2>2, <2>3 DEF TypeOK, RegistriesTypeOK, Validation!ValidationTypeOK
  <2>5. h # hash => status'[hash] = status[hash]
    BY <2>2 DEF TypeOK, RegistriesTypeOK, Validation!ValidationTypeOK
  <2> QED
    BY <2>1, <2>4, <2>5 DEF AnswerKept
<1>3. CASE UNCHANGED status
  BY <1>3 DEF AnswerKept
<1>4. CASE IdentityChange
  BY <1>3, <1>4 DEF IdentityChange
<1>5. CASE Posts \/ Collects \/ Waits \/ UNCHANGED vars
  BY <1>3, <1>5 DEF Posts, CreateTask, Collects, WithdrawTreasury, WithdrawValidatorFees, MayWithdraw,
                    Waits, Tick, SetPaused, vars, registries
<1>6. ASSUME NEW id \in TaskIds, \/ Stands(id) \/ Backs(id) \/ Delivers(id)
                                \/ CancelUnaccepted(id) \/ Settles(id) \/ Pays(id)
      PROVE  UNCHANGED status
  BY <1>6, SettlementIsFinalize
     DEF Stands, AcceptAndStake, MayAccept, Backs, PlaceBet, MayBet, Delivers, SubmitDelivery, MayDeliver,
         CancelUnaccepted, Finalizes, Finalize, Pays, SweepDust, Claim, MayClaim, registries
<1> QED
  BY <1>1, <1>2, <1>3, <1>4, <1>5, <1>6 DEF Step, Answers

LEMMA ClockAdvances == ASSUME TypeOK, Step PROVE now' \in {now, now + 1}
<1>1. CASE UNCHANGED now
  BY <1>1
<1>2. CASE Posts \/ Collects \/ Answers \/ UNCHANGED vars
  BY <1>1, <1>2 DEF Posts, CreateTask, Collects, WithdrawTreasury, WithdrawValidatorFees, MayWithdraw,
                    Answers, FileRequest, Respond, IdentityChange, vars
<1>3. CASE Waits
  BY <1>3 DEF Waits, Tick, SetPaused
<1>4. ASSUME NEW id \in TaskIds, \/ Stands(id) \/ Backs(id) \/ Delivers(id)
                                \/ CancelUnaccepted(id) \/ Settles(id) \/ Pays(id)
      PROVE  UNCHANGED now
  BY <1>4, SettlementIsFinalize
     DEF Stands, AcceptAndStake, MayAccept, Backs, PlaceBet, MayBet, Delivers, SubmitDelivery, MayDeliver,
         CancelUnaccepted, Finalizes, Finalize, Pays, SweepDust, Claim, MayClaim
<1> QED
  BY <1>1, <1>2, <1>3, <1>4 DEF Step

LEMMA NextAnswerShape ==
    ASSUME TypeOK, AnswerShape, now > 0, Step
    PROVE  AnswerShape' /\ now' > 0
<1>1. now \in Nat /\ now' \in {now, now + 1}
  BY ClockAdvances DEF TypeOK
<1>2. ASSUME NEW hash \in RequestHashes
      PROVE  /\ status'[hash].respondedAt <= now'
             /\ status'[hash].respondedAt # 0 => status'[hash].validator # NoAccount
  <2>1. status[hash].respondedAt \in Nat
    BY DEF TypeOK, RegistriesTypeOK, Validation!ValidationTypeOK
  <2>2. /\ status[hash].respondedAt <= now
        /\ status[hash].respondedAt # 0 => status[hash].validator # NoAccount
    BY DEF AnswerShape
  <2>3. AnswerKept(hash)
    BY AnswersKept
  <2> QED
    BY <1>1, <2>1, <2>2, <2>3 DEF AnswerKept
<1>3. AnswerShape'
  BY <1>2 DEF AnswerShape, RequestHashes
<1> QED
  BY <1>1, <1>3

-----------------------------------------------------------------------------
(* What one step can do to the evidence about task i. *)

SameBooks(i) ==
    /\ settledAt'[i] = settledAt[i] /\ viaRule'[i] = viaRule[i]
    /\ feedback'[i] = feedback[i]

\* Posted, accepted, bet on or cancelled: there is no evidence yet.
StaysOpen(i) ==
    /\ tasks[i].state \in {"None", "Created", "Open"}
    /\ tasks'[i].state \in {"Created", "Open", "Cancelled"}
    /\ tasks'[i].deliveredAt = 0 /\ tasks'[i].outcome = "Unresolved"
    /\ SameBooks(i)

IsDelivered(i) ==
    /\ tasks[i].state = "Open" /\ tasks'[i].state = "Delivered"
    /\ tasks'[i].deliveredAt = now /\ tasks'[i].deliverableHash \in Hashes
    /\ tasks'[i].outcome = tasks[i].outcome
    /\ SameBooks(i)

LEMMA EvidenceCases ==
    ASSUME TypeOK, TaskShape, EvidenceShape, Step, NEW i \in TaskIds
    PROVE  Kept(i) \/ StaysOpen(i) \/ IsDelivered(i) \/ Settles(i)
                  \/ (tasks'[i] = tasks[i] /\ SameBooks(i))
<1> DEFINE Goal == Kept(i) \/ StaysOpen(i) \/ IsDelivered(i) \/ Settles(i)
                   \/ (tasks'[i] = tasks[i] /\ SameBooks(i))
<1>1. tasks[i] \in Task
  BY DEF TypeOK, MarketTypeOK
<1>2. tasks[i].state \in {"Created", "Open"} =>
         tasks[i].deliveredAt = 0 /\ tasks[i].outcome = "Unresolved"
  BY DEF EvidenceShape
<1>3. CASE Posts
  <2>1. UNCHANGED books => SameBooks(i)
    BY DEF books, SameBooks
  <2>2. PICK job \in Jobs : CreateTask(job)
    BY <1>3 DEF Posts
  <2>3. CASE i # nextTaskId
    BY <2>1, <2>2, <2>3 DEF CreateTask, TypeOK, MarketTypeOK
  <2>4. CASE i = nextTaskId
    <3>1. tasks[i] = NoTask
      BY <2>4 DEF TaskShape, TypeOK, MarketTypeOK
    <3>2. /\ tasks'[i].state = "Created" /\ tasks'[i].deliveredAt = 0
          /\ tasks'[i].outcome = "Unresolved"
      BY <2>2, <2>4 DEF CreateTask, TypeOK, MarketTypeOK, NoTask
    <3>3. tasks[i].state = "None"
      BY <3>1 DEF NoTask
    <3> QED
      BY <2>1, <2>2, <3>2, <3>3 DEF CreateTask, StaysOpen
  <2> QED
    BY <2>3, <2>4
<1>4. CASE Collects \/ Answers \/ Waits \/ UNCHANGED vars
  BY <1>4, QuietKeeps
<1>5. ASSUME NEW id \in TaskIds, Pays(id) PROVE Kept(i)
  BY <1>5, QuietKeeps
<1>6. ASSUME NEW id \in TaskIds, Settles(id) PROVE Goal
  BY <1>6, SettlesKeeps
<1>7. ASSUME NEW id \in TaskIds, Stands(id) PROVE Goal
  <2>1. PICK a \in Accounts, agent \in Agents, stake \in Stakes :
            AcceptAndStake(a, id, agent, stake)
    BY <1>7 DEF Stands
  <2>2. SameBooks(i)
    BY <2>1 DEF AcceptAndStake, MayAccept, books, SameBooks
  <2>3. CASE i # id
    BY <2>1, <2>2, <2>3 DEF AcceptAndStake, MayAccept, TypeOK, MarketTypeOK
  <2>4. CASE i = id
    <3>1. tasks'[i] = [tasks[i] EXCEPT !.workerAgentId = agent, !.workerWallet = a,
                           !.selfStake = stake, !.betCutoff = now + BETTING_WINDOW,
                           !.pool = [tasks[i].pool EXCEPT !["Yes"] = stake],
                           !.state = "Open"]
      BY <2>1, <2>4 DEF AcceptAndStake, MayAccept, TypeOK, MarketTypeOK
    <3>2. tasks[i].state = "Created"
      BY <2>1, <2>4 DEF AcceptAndStake, MayAccept
    <3>3. /\ tasks'[i].state = "Open" /\ tasks'[i].deliveredAt = tasks[i].deliveredAt
          /\ tasks'[i].outcome = tasks[i].outcome
      BY <1>1, <3>1 DEF Task
    <3> QED
      BY <1>2, <2>2, <3>2, <3>3 DEF StaysOpen
  <2> QED
    BY <2>3, <2>4
<1>8. ASSUME NEW id \in TaskIds, Backs(id) PROVE Goal
  <2>1. PICK a \in Accounts, agent \in Agents, side \in Sides, amount \in Bets :
            PlaceBet(a, id, agent, side, amount)
    BY <1>8 DEF Backs
  <2>2. SameBooks(i)
    BY <2>1 DEF PlaceBet, MayBet, books, SameBooks
  <2>3. CASE i # id
    BY <2>1, <2>2, <2>3 DEF PlaceBet, MayBet, TypeOK, MarketTypeOK
  <2>4. CASE i = id
    <3>1. tasks'[i] = [tasks[i] EXCEPT !.pool = [tasks[i].pool EXCEPT ![side] = @ + amount]]
      BY <1>1, <2>1, <2>4 DEF PlaceBet, MayBet, TypeOK, MarketTypeOK, Task
    <3>2. tasks[i].state = "Open"
      BY <2>1, <2>4 DEF PlaceBet, MayBet
    <3>3. /\ tasks'[i].state = "Open" /\ tasks'[i].deliveredAt = tasks[i].deliveredAt
          /\ tasks'[i].outcome = tasks[i].outcome
      BY <1>1, <3>1, <3>2 DEF Task
    <3> QED
      BY <1>2, <2>2, <3>2, <3>3 DEF StaysOpen
  <2> QED
    BY <2>3, <2>4
<1>9. ASSUME NEW id \in TaskIds, Delivers(id) PROVE Goal
  <2>1. PICK a \in Accounts, hash \in Hashes : SubmitDelivery(a, id, hash)
    BY <1>9 DEF Delivers
  <2>2. SameBooks(i)
    BY <2>1 DEF SubmitDelivery, MayDeliver, books, SameBooks
  <2>3. CASE i # id
    BY <2>1, <2>2, <2>3 DEF SubmitDelivery, MayDeliver, TypeOK, MarketTypeOK
  <2>4. CASE i = id
    <3>1. tasks'[i] = [tasks[i] EXCEPT !.deliveredAt = now, !.deliverableHash = hash,
                                       !.state = "Delivered"]
      BY <2>1, <2>4 DEF SubmitDelivery, MayDeliver, TypeOK, MarketTypeOK
    <3>2. tasks[i].state = "Open"
      BY <2>1, <2>4 DEF SubmitDelivery, MayDeliver
    <3>3. /\ tasks'[i].state = "Delivered" /\ tasks'[i].deliveredAt = now
          /\ tasks'[i].deliverableHash = hash /\ tasks'[i].outcome = tasks[i].outcome
      BY <1>1, <3>1 DEF Task
    <3> QED
      BY <2>2, <3>2, <3>3 DEF IsDelivered
  <2> QED
    BY <2>3, <2>4
<1>10. ASSUME NEW id \in TaskIds, CancelUnaccepted(id) PROVE Goal
  <2>2. SameBooks(i)
    BY <1>10 DEF CancelUnaccepted, SameBooks
  <2>3. CASE i # id
    BY <1>10, <2>2, <2>3 DEF CancelUnaccepted, TypeOK, MarketTypeOK
  <2>4. CASE i = id
    <3>1. tasks'[i] = [tasks[i] EXCEPT !.state = "Cancelled"]
      BY <1>10, <2>4 DEF CancelUnaccepted, TypeOK, MarketTypeOK
    <3>2. tasks[i].state = "Created"
      BY <1>10, <2>4 DEF CancelUnaccepted
    <3>3. /\ tasks'[i].state = "Cancelled" /\ tasks'[i].deliveredAt = tasks[i].deliveredAt
          /\ tasks'[i].outcome = tasks[i].outcome
      BY <1>1, <3>1 DEF Task
    <3> QED
      BY <1>2, <2>2, <3>2, <3>3 DEF StaysOpen
  <2> QED
    BY <2>3, <2>4
<1> QED
  BY <1>3, <1>4, <1>5, <1>6, <1>7, <1>8, <1>9, <1>10 DEF Step

(* A settlement writes the outcome, its rule and its time, and at most one  *)
(* reputation row; the evidence itself stays as it was.                     *)
LEMMA FinalizeEffect ==
    ASSUME TypeOK, EvidenceShape, NEW i \in TaskIds,
           NEW outcome \in Sides, NEW rule, Finalize(i, outcome, rule),
           tasks[i].state \in {"Open", "Delivered"}
    PROVE  /\ tasks'[i] = [tasks[i] EXCEPT !.state = "Settled", !.outcome = outcome]
           /\ settledAt'[i] = now /\ viaRule'[i] = rule
           /\ feedback'[i] \in {<<>>, <<IF outcome = "Yes" THEN 100 ELSE 0>>}
           /\ status' = status /\ now' = now
<1>1. tasks[i] \in Task /\ feedback[i] = <<>>
  BY DEF TypeOK, MarketTypeOK, EvidenceShape
<1>2. tasks'[i] = [tasks[i] EXCEPT !.state = "Settled", !.outcome = outcome]
  BY <1>1 DEF Finalize, TypeOK, MarketTypeOK
<1>3. settledAt'[i] = now /\ viaRule'[i] = rule /\ status' = status /\ now' = now
  BY DEF Finalize, TypeOK, BooksTypeOK, registries
<1>4. feedback'[i] \in {<<>>, <<IF outcome = "Yes" THEN 100 ELSE 0>>}
  <2>1. CASE feedback' = feedback
    BY <1>1, <2>1
  <2>2. CASE feedback' = [feedback EXCEPT ![i] =
                            Append(@, IF outcome = "Yes" THEN 100 ELSE 0)]
    <3>1. feedback'[i] = Append(<<>>, IF outcome = "Yes" THEN 100 ELSE 0)
      BY <1>1, <2>2 DEF TypeOK, BooksTypeOK
    <3> QED
      BY <3>1
  <2> QED
    BY <2>1, <2>2 DEF Finalize
<1> QED
  BY <1>2, <1>3, <1>4

LEMMA NextEvidenceShape ==
    ASSUME TypeOK, TaskShape, EvidenceShape, now > 0, Step
    PROVE  EvidenceShape'
<1>1. now \in Nat /\ now' \in {now, now + 1}
  BY ClockAdvances DEF TypeOK
<1> SUFFICES ASSUME NEW i \in TaskIds
             PROVE  /\ settledAt'[i] <= now'
                    /\ tasks'[i].state = "Delivered" => tasks'[i].deliveredAt # 0
                    /\ tasks'[i].deliveredAt # 0 =>
                          tasks'[i].state \in {"Delivered", "Settled"}
                            /\ tasks'[i].deliverableHash \in Hashes
                    /\ tasks'[i].state # "Settled" =>
                          tasks'[i].outcome = "Unresolved" /\ feedback'[i] = <<>>
  BY DEF EvidenceShape
<1>2. tasks[i] \in Task /\ settledAt[i] \in Nat
  BY DEF TypeOK, MarketTypeOK, BooksTypeOK
<1>3. /\ settledAt[i] <= now
      /\ tasks[i].state = "Delivered" => tasks[i].deliveredAt # 0
      /\ tasks[i].deliveredAt # 0 =>
            tasks[i].state \in {"Delivered", "Settled"} /\ tasks[i].deliverableHash \in Hashes
      /\ tasks[i].state # "Settled" =>
            tasks[i].outcome = "Unresolved" /\ feedback[i] = <<>>
  BY DEF EvidenceShape
<1>4. CASE tasks'[i] = tasks[i] /\ SameBooks(i)
  BY <1>1, <1>2, <1>3, <1>4 DEF SameBooks
<1>5. CASE StaysOpen(i)
  BY <1>1, <1>2, <1>3, <1>5 DEF StaysOpen, SameBooks
<1>6. CASE IsDelivered(i)
  BY <1>1, <1>2, <1>3, <1>6 DEF IsDelivered, SameBooks
<1>7. CASE Settles(i)
  <2>1. PICK outcome \in Sides, rule \in 1..5 : Finalize(i, outcome, rule)
    BY <1>7, SettlementIsFinalize DEF Finalizes
  <2>2. tasks[i].state \in {"Open", "Delivered"}
    BY <1>7, SettlementIsFinalize DEF Finalizes
  <2>3. /\ tasks'[i] = [tasks[i] EXCEPT !.state = "Settled", !.outcome = outcome]
        /\ settledAt'[i] = now /\ now' = now
    BY <2>1, <2>2, FinalizeEffect
  <2>4. /\ tasks'[i].state = "Settled" /\ tasks'[i].deliveredAt = tasks[i].deliveredAt
        /\ tasks'[i].deliverableHash = tasks[i].deliverableHash
    BY <1>2, <2>3 DEF Task
  <2> QED
    BY <1>1, <1>3, <2>3, <2>4
<1>8. Kept(i) => tasks'[i] = tasks[i] /\ SameBooks(i)
  BY DEF Kept, SameBooks
<1> QED
  BY <1>4, <1>5, <1>6, <1>7, <1>8, EvidenceCases

(* Once settled, always rightly settled: an answer found later is either    *)
(* the one that was there or one that came after the response window.       *)
LEMMA DecisionStands ==
    ASSUME TypeOK, TaskShape, AnswerShape, EvidenceShape, Step, NEW i \in TaskIds,
           tasks[i].state = "Settled", DecidedByEvidence(i)
    PROVE  DecidedByEvidence(i)'
<1> DEFINE t == tasks[i]  hash == <<i, t.deliverableHash>>
<1>1. tasks'[i] = t /\ settledAt'[i] = settledAt[i] /\ viaRule'[i] = viaRule[i]
  BY TerminalKept DEF Kept, Terminal
<1>2. CASE t.deliveredAt = 0
  BY <1>1, <1>2 DEF DecidedByEvidence
<1>3. CASE t.deliveredAt # 0
  <2>1. hash \in RequestHashes
    BY <1>3 DEF EvidenceShape, RequestHashes
  <2>2. AnswerKept(hash)
    BY <2>1, AnswersKept
  <2>3. CASE status'[hash] = status[hash]
    BY <1>1, <2>3 DEF DecidedByEvidence, HasValidResponse, StatusOf
  <2>4. CASE /\ status[hash].respondedAt = 0
             /\ \/ status'[hash].respondedAt = 0
                \/ status'[hash].respondedAt = now
    <3>1. ~HasValidResponse(i)
      BY <2>4 DEF HasValidResponse, StatusOf
    <3>2. settledAt[i] > RespondUntil(t)
      BY <1>3, <3>1 DEF DecidedByEvidence
    <3>3. now > RespondUntil(t)
      <4>1. settledAt[i] <= now
        BY DEF EvidenceShape
      <4>2. settledAt[i] \in Nat /\ now \in Nat /\ t \in Task
        BY DEF TypeOK, BooksTypeOK, MarketTypeOK
      <4>3. RespondUntil(t) \in Nat
        BY <4>2, ParamsAssumption DEF RespondUntil, Task
      <4> QED
        BY <3>2, <4>1, <4>2, <4>3
    <3>4. ~HasValidResponse(i)'
      <4>1. RespondUntil(t) \in Nat /\ now \in Nat
        BY ParamsAssumption DEF RespondUntil, Task, TypeOK, MarketTypeOK
      <4> QED
        BY <1>1, <2>4, <3>3, <4>1 DEF HasValidResponse, StatusOf
    <3> QED
      BY <1>1, <1>3, <3>1, <3>4 DEF DecidedByEvidence
  <2> QED
    BY <2>2, <2>3, <2>4 DEF AnswerKept
<1> QED
  BY <1>2, <1>3

\* What a settled task says about its own outcome.
RightlySettled(i) ==
    /\ DecidedByEvidence(i)
    /\ feedback[i] \in {<<>>, <<IF tasks[i].outcome = "Yes" THEN 100 ELSE 0>>}

(* Each rule of the ladder writes what the evidence calls for.              *)
LEMMA SettlesRightly ==
    ASSUME TypeOK, TaskShape, EvidenceShape, NEW i \in TaskIds, Settles(i)
    PROVE  RightlySettled(i)'
<1> DEFINE t == tasks[i]
<1>1. t \in Task /\ tasks[i].state \in {"Open", "Delivered"}
  BY SettlementIsFinalize DEF Finalizes, TypeOK, MarketTypeOK
<1>2. ASSUME NEW outcome \in Sides, NEW rule, Finalize(i, outcome, rule)
      PROVE  /\ tasks'[i].outcome = outcome /\ settledAt'[i] = now /\ viaRule'[i] = rule
             /\ tasks'[i].deliveredAt = t.deliveredAt
             /\ feedback'[i] \in {<<>>, <<IF tasks'[i].outcome = "Yes" THEN 100 ELSE 0>>}
             /\ HasValidResponse(i)' <=> HasValidResponse(i)
             /\ StatusOf(i)' = StatusOf(i)
             /\ RespondUntil(t)' = RespondUntil(t) /\ AttestUntil(t)' = AttestUntil(t)
             /\ tasks'[i].deadline = t.deadline
  <2>1. /\ tasks'[i] = [t EXCEPT !.state = "Settled", !.outcome = outcome]
        /\ settledAt'[i] = now /\ viaRule'[i] = rule
        /\ feedback'[i] \in {<<>>, <<IF outcome = "Yes" THEN 100 ELSE 0>>}
        /\ status' = status
    BY <1>1, <1>2, FinalizeEffect
  <2>2. /\ tasks'[i].outcome = outcome /\ tasks'[i].deliveredAt = t.deliveredAt
        /\ tasks'[i].deliverableHash = t.deliverableHash /\ tasks'[i].deadline = t.deadline
        /\ tasks'[i].validatorWallet = t.validatorWallet
        /\ tasks'[i].workerAgentId = t.workerAgentId
    BY <1>1, <2>1 DEF Task
  <2> QED
    BY <2>1, <2>2 DEF HasValidResponse, StatusOf, RespondUntil, AttestUntil
<1>3. ASSUME tasks[i].state = "Delivered" PROVE t.deliveredAt # 0
  BY <1>3 DEF EvidenceShape
<1>4. ASSUME tasks[i].state = "Open" PROVE t.deliveredAt = 0
  BY <1>4 DEF EvidenceShape
<1>5. "Yes" \in Sides /\ "No" \in Sides
  BY DEF Sides
<1>6. CASE SettleWithValidation(i)
  <2>1. tasks[i].state = "Delivered" /\ HasValidResponse(i)
    BY <1>6 DEF SettleWithValidation, MaySettle
  <2>2. CASE StatusOf(i).response >= VALIDATION_THRESHOLD
    <3>1. Finalize(i, "Yes", 2)
      BY <1>6, <2>2 DEF SettleWithValidation, MaySettle
    <3> QED
      BY <1>2, <1>3, <1>5, <2>1, <2>2, <3>1 DEF RightlySettled, DecidedByEvidence
  <2>3. CASE ~(StatusOf(i).response >= VALIDATION_THRESHOLD)
    <3>1. Finalize(i, "No", 3)
      BY <1>6, <2>3 DEF SettleWithValidation, MaySettle
    <3> QED
      BY <1>2, <1>3, <1>5, <2>1, <2>3, <3>1 DEF RightlySettled, DecidedByEvidence
  <2> QED
    BY <2>2, <2>3
<1>7. ASSUME NEW a \in Accounts, NEW approved \in BOOLEAN, Attest(a, i, approved)
      PROVE  RightlySettled(i)'
  <2>1. /\ tasks[i].state = "Delivered" /\ ~HasValidResponse(i)
        /\ now > RespondUntil(t) /\ now <= AttestUntil(t)
    BY <1>7 DEF Attest
  <2>2. PICK outcome \in Sides : Finalize(i, outcome, 4)
    BY <1>5, <1>7 DEF Attest
  <2> QED
    BY <1>2, <1>3, <2>1, <2>2 DEF RightlySettled, DecidedByEvidence
<1>8. CASE tasks[i].state = "Open" /\ now > t.deadline /\ Finalize(i, "No", 1)
  BY <1>2, <1>4, <1>5, <1>8 DEF RightlySettled, DecidedByEvidence
<1>9. CASE /\ tasks[i].state = "Delivered" /\ now > AttestUntil(t)
           /\ ~HasValidResponse(i) /\ Finalize(i, "Yes", 5)
  <2>1. now > RespondUntil(t)
    <3>1. now \in Nat /\ RespondUntil(t) \in Nat /\ GRACE_WINDOW \in Nat
      BY <1>1, ParamsAssumption DEF RespondUntil, Task, TypeOK
    <3> QED
      BY <1>9, <3>1 DEF AttestUntil
  <2> QED
    BY <1>2, <1>3, <1>5, <1>9, <2>1 DEF RightlySettled, DecidedByEvidence
<1> QED
  BY <1>6, <1>7, <1>8, <1>9 DEF Settles, SettleByTimeout, Undelivered, Unanswered

LEMMA NextDecided ==
    ASSUME Inv, Step
    PROVE  DecidedByTheBestEvidence'
<1> SUFFICES ASSUME NEW i \in TaskIds, tasks'[i].state = "Settled"
             PROVE  RightlySettled(i)'
  BY DEF DecidedByTheBestEvidence, RightlySettled
<1> USE DEF Inv
<1>1. CASE tasks[i].state = "Settled"
  <2>1. RightlySettled(i)
    BY <1>1 DEF DecidedByTheBestEvidence, RightlySettled
  <2>2. DecidedByEvidence(i)'
    BY <1>1, <2>1, DecisionStands DEF RightlySettled
  <2>3. Kept(i)
    BY <1>1, TerminalKept DEF Terminal
  <2> QED
    BY <2>1, <2>2, <2>3 DEF RightlySettled, Kept
<1>2. CASE tasks[i].state # "Settled"
  <2>1. Settles(i)
    BY <1>2, EvidenceCases DEF Kept, StaysOpen, IsDelivered
  <2> QED
    BY <2>1, SettlesRightly
<1> QED
  BY <1>1, <1>2

LEMMA InitInv == Init => Inv
<1> SUFFICES ASSUME Init PROVE Inv
  OBVIOUS
<1>1. AnswerShape /\ now > 0
  BY DEF Init, AnswerShape, Validation!NoStatus
<1>2. EvidenceShape /\ DecidedByTheBestEvidence
  BY DEF Init, EvidenceShape, DecidedByTheBestEvidence, NoTask
<1> QED
  BY <1>1, <1>2, InitType, InitShape DEF Inv

LEMMA NextInv == ASSUME Inv, Step PROVE Inv'
<1>1. TypeOK' /\ TaskShape'
  BY NextType, NextShape DEF Inv
<1>2. AnswerShape' /\ now' > 0 /\ EvidenceShape'
  BY NextAnswerShape, NextEvidenceShape DEF Inv
<1> QED
  BY <1>1, <1>2, NextDecided DEF Inv

(* The inductive invariant holds in every reachable state.                  *)
THEOREM Invariance == Spec => []Inv
<1>1. Init => Inv
  BY InitInv
<1>2. Inv /\ [Next]_vars => Inv'
  BY StepCases, NextInv
<1> QED
  BY <1>1, <1>2, PTL DEF Spec

(* A settled task was settled by the rule, and with the outcome, that its   *)
(* delivery and the registry's answer call for, judged at that time or at   *)
(* any later one (docs 5, R1-R5): whoever called which settlement function  *)
(* first, and whatever was answered, filed or rotated before or after.      *)
THEOREM RightOutcome == Spec => []DecidedByTheBestEvidence
<1>1. Inv => DecidedByTheBestEvidence
  BY DEF Inv
<1> QED
  BY <1>1, Invariance, PTL

(***************************************************************************)
(* The market freeze.  Only acceptance and bets change positions and       *)
(* pools; a task that was accepted is not accepted again, and a bet needs  *)
(* an open task before its cutoff.                                         *)
(***************************************************************************)
Frozen(i) ==
    \/ tasks[i].state \in {"Delivered", "Settled"}
    \/ tasks[i].state = "Open" /\ now >= tasks[i].betCutoff
Unchanged(i) == positions'[i] = positions[i] /\ tasks'[i].pool = tasks[i].pool

LEMMA FrozenKept ==
    ASSUME TypeOK, TaskShape, Step, NEW i \in TaskIds, Frozen(i)
    PROVE  Unchanged(i)
<1> DEFINE S == tasks[i].state
<1>0. S \in {"Open", "Delivered", "Settled"} /\ now \in Nat /\ tasks[i].betCutoff \in Nat
  BY DEF Frozen, TypeOK, MarketTypeOK, Task
<1> USE DEF Unchanged
<1>1. CASE Posts
  <2>1. i # nextTaskId
    BY <1>0, EnvironmentAssumption DEF TaskShape, NoTask, TypeOK, MarketTypeOK
  <2> QED
    BY <1>1, <2>1 DEF Posts, CreateTask, TypeOK, MarketTypeOK
<1>2. ASSUME NEW id \in TaskIds, Settles(id) PROVE Unchanged(i)
  <2>1. PICK outcome \in Sides, rule \in 1..5 : Finalize(id, outcome, rule)
    BY <1>2, SettlementIsFinalize DEF Finalizes
  <2>2. /\ tasks' = [tasks EXCEPT ![id].state = "Settled", ![id].outcome = outcome]
        /\ positions' = positions
    BY <2>1 DEF Finalize
  <2> QED
    BY <2>2 DEF TypeOK, MarketTypeOK, Task
<1>3. ASSUME NEW id \in TaskIds, Stands(id) PROVE Unchanged(i)
  <2>1. i # id
    BY <1>0, <1>3 DEF Stands, AcceptAndStake, MayAccept
  <2> QED
    BY <1>3, <2>1 DEF Stands, AcceptAndStake, TypeOK, MarketTypeOK
<1>4. ASSUME NEW id \in TaskIds, Backs(id) PROVE Unchanged(i)
  <2>1. i # id
    BY <1>0, <1>4 DEF Backs, PlaceBet, MayBet, Frozen
  <2> QED
    BY <1>4, <2>1 DEF Backs, PlaceBet, TypeOK, MarketTypeOK
<1>5. ASSUME NEW id \in TaskIds, Delivers(id) PROVE Unchanged(i)
  <2>1. PICK a \in Accounts, hash \in Hashes : SubmitDelivery(a, id, hash)
    BY <1>5 DEF Delivers
  <2>2. /\ tasks' = [tasks EXCEPT ![id] = [@ EXCEPT !.deliveredAt = now,
                                     !.deliverableHash = hash, !.state = "Delivered"]]
        /\ positions' = positions
    BY <2>1 DEF SubmitDelivery
  <2> QED
    BY <2>2 DEF TypeOK, MarketTypeOK, Task
<1>6. ASSUME NEW id \in TaskIds, CancelUnaccepted(id) PROVE Unchanged(i)
  BY <1>6 DEF CancelUnaccepted, TypeOK, MarketTypeOK, Task
<1>7. ASSUME UNCHANGED market PROVE Unchanged(i)
  BY <1>7 DEF market
<1> QED
  BY <1>1, <1>2, <1>3, <1>4, <1>5, <1>6, <1>7, QuietFrame, PaysFrame DEF Step

(* From the first instant at which the worker of a task could deliver, and  *)
(* for good once it has, no step changes a position or a pool of that task  *)
(* (docs 6.3, B1): the market a delivery meets is closed.                  *)
THEOREM MarketFreezes == Spec => NoBetAgainstADelivery
<1>1. ASSUME Inv, Step, NEW id \in TaskIds,
             MayDeliver(tasks[id].workerWallet, id) \/ tasks[id].deliveredAt # 0
      PROVE  positions'[id] = positions[id] /\ tasks'[id].pool = tasks[id].pool
  <2>1. Frozen(id)
    BY <1>1 DEF Frozen, MayDeliver, Inv, EvidenceShape
  <2> QED
    BY <1>1, <2>1, FrozenKept DEF Inv, Unchanged
<1>2. Inv /\ [Next]_vars =>
        [\A id \in TaskIds :
           MayDeliver(tasks[id].workerWallet, id) \/ tasks[id].deliveredAt # 0
             => positions'[id] = positions[id] /\ tasks'[id].pool = tasks[id].pool]_vars
  BY StepCases, <1>1
<1> QED
  BY <1>2, Invariance, PTL DEF Spec, NoBetAgainstADelivery

-----------------------------------------------------------------------------
(* Payouts of one task, as sums over the accounts. *)

HIDE DEF TaskIds

LEMMA AccountsFinite == IsFiniteSet(Accounts) /\ IsFiniteSet(TaskIds)
<1>1. IsFiniteSet(1..MaxTasks)
  BY EnvironmentAssumption, FS_Interval
<1> QED
  BY <1>1, EnvironmentAssumption DEF TaskIds

LEMMA DistributableBound ==
    ASSUME NEW losing \in Nat
    PROVE  /\ Fee(losing) \in 0..losing /\ Distributable(losing) \in Nat
           /\ Fee(losing) + Distributable(losing) = losing
<1>1. Fee(losing) \in 0..losing
  BY BpsBound, ParamsAssumption DEF Fee
<1> QED
  BY <1>1 DEF Distributable

(* The winners of a pool share it and what the losers left, down to the     *)
(* dust: less than one unit each.                                           *)
LEMMA WinnersPaid ==
    ASSUME NEW w, \A a \in Accounts : w[a] \in Nat,
           NEW losing \in Nat, NEW P, P = Total(w, Accounts), NEW paid,
           \A a \in Accounts : paid[a] = WinnerPayout(w[a], losing, P)
    PROVE  /\ \A a \in Accounts : paid[a] \in Nat
           /\ P = 0 => Total(paid, Accounts) = 0
           /\ P > 0 =>
                 /\ Total(paid, Accounts) <= P + Distributable(losing)
                 /\ (P + Distributable(losing)) - Total(paid, Accounts)
                      < Cardinality(Holders(w, Accounts))
<1> DEFINE D == Distributable(losing)
           share == [a \in Accounts |-> (w[a] * D) \div P]
<1>1. P \in Nat /\ D \in Nat
  BY AccountsFinite, TotalNat, DistributableBound
<1>2. CASE P = 0
  <2>1. \A a \in Accounts : w[a] = 0
    BY <1>2, AccountsFinite, TotalZeroMeans
  <2>2. \A a \in Accounts : paid[a] = 0
    BY <2>1 DEF WinnerPayout
  <2> QED
    BY <1>2, <2>2, TotalZero
<1>3. CASE P > 0
  <2>1. /\ \A a \in Accounts : share[a] \in Nat
        /\ Total(share, Accounts) <= D
        /\ D - Total(share, Accounts) < Cardinality(Holders(w, Accounts))
    <3>1. \A a \in Accounts : share[a] = (w[a] * D) \div Total(w, Accounts)
      OBVIOUS
    <3> HIDE DEF share, D
    <3> QED
      BY <1>1, <1>3, <3>1, AccountsFinite, SharesPayOut
  <2>2. \A a \in Accounts : paid[a] = w[a] + share[a]
    <3> TAKE a \in Accounts
    <3>1. CASE w[a] > 0
      BY <3>1 DEF WinnerPayout
    <3>2. CASE w[a] = 0
      <4>1. 0 * D = 0 /\ 0 \div P = 0
        BY <1>1, <1>3
      <4> QED
        BY <3>2, <4>1 DEF WinnerPayout
    <3> QED
      BY <3>1, <3>2
  <2>3. Total(paid, Accounts) = P + Total(share, Accounts)
    <3> HIDE DEF share
    <3> QED
      BY <2>1, <2>2, AccountsFinite, TotalAdd
  <2>4. Total(share, Accounts) \in Nat
    BY <2>1, AccountsFinite, TotalNat
  <2> HIDE DEF share, D
  <2>5. \A a \in Accounts : paid[a] \in Nat
    BY <2>1, <2>2
  <2>6. Cardinality(Holders(w, Accounts)) \in Nat
    BY AccountsFinite, FS_Subset, FS_CardinalityType DEF Holders
  <2>7. /\ Total(paid, Accounts) <= P + D
        /\ (P + D) - Total(paid, Accounts) < Cardinality(Holders(w, Accounts))
    BY <1>1, <2>1, <2>3, <2>4, <2>6
  <2> QED
    BY <1>1, <1>3, <2>5, <2>7 DEF D
<1> QED
  BY <1>1, <1>2, <1>3

Owed(id) ==
    Pot(tasks[id])
      - (IF tasks[id].state = "Settled" THEN Fee(Losing(tasks[id])) ELSE 0)

Entitlements(id) == [a \in Accounts |-> Entitlement(id, a)]

\* PotShape and PoolsBackedByPositions, for one task.
PotOf(id) ==
    /\ tasks[id].state # "None" =>
          tasks[id].client \in Accounts /\ tasks[id].reward >= MIN_REWARD
    /\ tasks[id].state \notin Terminal => claimed[id] = {}
    /\ dustSwept[id] => tasks[id].state = "Settled"
    /\ tasks[id].state = "Settled" <=> tasks[id].outcome \in Sides
    /\ claimedTotal[id] = Total(ClaimedOf(id), Accounts)
    /\ \A side \in Sides : tasks[id].pool[side] = Total(PositionsOn(id, side), Accounts)

LEMMA PotsPerTask ==
    PotShape /\ PoolsBackedByPositions <=> \A id \in TaskIds : PotOf(id)
BY DEF PotShape, PoolsBackedByPositions, PotOf

LEMMA TaskNumbers ==
    ASSUME TypeOK, NEW id \in TaskIds
    PROVE  /\ tasks[id] \in Task
           /\ tasks[id].pool["Yes"] \in Nat /\ tasks[id].pool["No"] \in Nat
           /\ tasks[id].reward \in Nat /\ Pot(tasks[id]) \in Nat
           /\ Losing(tasks[id]) \in Nat /\ Fee(Losing(tasks[id])) \in 0..Losing(tasks[id])
           /\ Losing(tasks[id]) \in {tasks[id].pool["Yes"], tasks[id].pool["No"]}
           /\ Owed(id) \in Nat
           /\ \A a \in Accounts, side \in Sides :
                 positions[id][a][side] \in Nat
                   /\ PositionsOn(id, side)[a] = positions[id][a][side]
<1>1. /\ tasks[id] \in Task
      /\ \A a \in Accounts, side \in Sides : positions[id][a][side] \in Nat
  BY DEF TypeOK, MarketTypeOK
<1>2. /\ tasks[id].pool["Yes"] \in Nat /\ tasks[id].pool["No"] \in Nat
      /\ tasks[id].reward \in Nat
  BY <1>1 DEF Task, Sides
<1>3. Losing(tasks[id]) \in {tasks[id].pool["Yes"], tasks[id].pool["No"]}
  BY DEF Losing, Other
<1>4. Fee(Losing(tasks[id])) \in 0..Losing(tasks[id])
  BY <1>2, <1>3, DistributableBound
<1> QED
  BY <1>1, <1>2, <1>3, <1>4 DEF Pot, PositionsOn, Owed

(* One account gets an amount of its own, on top of its share.              *)
LEMMA PaidOnTop ==
    ASSUME NEW paid, \A a \in Accounts : paid[a] \in Nat,
           NEW who \in Accounts, NEW amount \in Nat, NEW all,
           all[who] = paid[who] + amount,
           \A a \in Accounts \ {who} : all[a] = paid[a]
    PROVE  /\ Total(all, Accounts) = Total(paid, Accounts) + amount
           /\ Total(all, Accounts) \in Nat /\ Total(paid, Accounts) \in Nat
<1>1. \A a \in Accounts : paid[a] \in Nat /\ all[a] \in Nat /\ (a # who => paid[a] = all[a])
  OBVIOUS
<1>2. Total(all, Accounts) = Total(paid, Accounts) - paid[who] + all[who]
  BY <1>1, AccountsFinite, TotalChange
<1> QED
  BY <1>1, <1>2, AccountsFinite, TotalNat

(* Once a task is finished, its pot without the fee covers all payouts from *)
(* it, and exceeds them by dust only: nothing after a cancellation or when  *)
(* nobody bet on NO, less than one unit per winner otherwise.               *)
LEMMA EntitlementsCovered ==
    ASSUME TypeOK, TaskShape, StakeKept, NEW id \in TaskIds, PotOf(id),
           tasks[id].state \in Terminal
    PROVE  LET owed == Total(Entitlements(id), Accounts) IN
           /\ owed \in Nat /\ owed <= Owed(id)
           /\ tasks[id].state = "Settled" =>
                 \/ owed = Owed(id)
                 \/ /\ tasks[id].pool[tasks[id].outcome] > 0
                    /\ Owed(id) - owed
                         < Cardinality(Holders(PositionsOn(id, tasks[id].outcome), Accounts))
                 \/ tasks[id].outcome = "Yes" /\ tasks[id].pool["Yes"] = 0
<1> DEFINE t == tasks[id]
           E == Entitlements(id)
           owed == Total(E, Accounts)
<1>0. /\ t.pool["Yes"] \in Nat /\ t.pool["No"] \in Nat /\ t.reward \in Nat
      /\ Losing(t) \in Nat /\ Fee(Losing(t)) \in 0..Losing(t)
      /\ \A a \in Accounts, side \in Sides :
            positions[id][a][side] \in Nat
              /\ PositionsOn(id, side)[a] = positions[id][a][side]
  BY TaskNumbers
<1>1. CASE t.state = "Cancelled"
  <2>1. t.client \in Accounts /\ t.outcome \notin Sides
    BY <1>1 DEF PotOf
  <2>2. t.pool = [s \in Sides |-> 0]
    BY <1>1 DEF TaskShape
  <2>3. \A a \in Accounts : positions[id][a]["Yes"] = 0 /\ positions[id][a]["No"] = 0
    <3> TAKE a \in Accounts
    <3>1. \A s \in Sides : positions[id][a][s] <= t.pool[s] /\ positions[id][a][s] \in Nat
      BY <1>0 DEF TaskShape
    <3> QED
      BY <2>2, <3>1 DEF Sides
  <2>4. \A a \in Accounts : E[a] = IF a = t.client THEN t.reward ELSE 0
    <3> TAKE a \in Accounts
    <3>1. E[a] = (IF a = t.client THEN t.reward ELSE 0)
                    + positions[id][a]["Yes"] + positions[id][a]["No"]
      BY <1>1, <2>1 DEF Entitlements, Entitlement, Sides
    <3> QED
      BY <1>0, <2>3, <3>1
  <2>5. owed = t.reward
    <3>1. E[t.client] = t.reward /\ \A a \in Accounts \ {t.client} : E[a] = 0
      BY <2>1, <2>4
    <3> QED
      BY <1>0, <2>1, <3>1, AccountsFinite, TotalSingle
  <2>6. Owed(id) = t.reward
    BY <1>0, <1>1, <2>2 DEF Owed, Pot, Sides
  <2> QED
    BY <1>0, <1>1, <2>5, <2>6
<1>2. CASE t.state = "Settled" /\ t.outcome = "Yes"
  <2> DEFINE w == PositionsOn(id, "Yes")
             paid == [a \in Accounts |-> WinnerPayout(w[a], t.pool["No"], t.pool["Yes"])]
             prize == t.reward
  <2>1. t.workerWallet \in Accounts
    BY <1>2 DEF StakeKept
  <2>2. \A a \in Accounts : w[a] = positions[id][a]["Yes"] /\ w[a] \in Nat
    BY <1>0 DEF Sides
  <2>3. t.pool["Yes"] = Total(w, Accounts)
    BY DEF PotOf, Sides
  <2>4. \A a \in Accounts : E[a] = paid[a] + (IF a = t.workerWallet THEN prize ELSE 0)
    BY <1>2, <2>2 DEF Entitlements, Entitlement
  <2>5. \A a \in Accounts : paid[a] = WinnerPayout(w[a], t.pool["No"], t.pool["Yes"])
    OBVIOUS
  <2> HIDE DEF paid, w
  <2>6. /\ \A a \in Accounts : paid[a] \in Nat
        /\ t.pool["Yes"] = 0 => Total(paid, Accounts) = 0
        /\ t.pool["Yes"] > 0 =>
              /\ Total(paid, Accounts) <= t.pool["Yes"] + Distributable(t.pool["No"])
              /\ (t.pool["Yes"] + Distributable(t.pool["No"])) - Total(paid, Accounts)
                   < Cardinality(Holders(w, Accounts))
    <3>1. t.pool["No"] \in Nat
      BY <1>0
    <3> HIDE DEF t
    <3> QED
      BY <2>2, <2>3, <2>5, <3>1, WinnersPaid
  <2>7. /\ owed = Total(paid, Accounts) + prize
        /\ owed \in Nat /\ Total(paid, Accounts) \in Nat
    <3>1. prize \in Nat /\ \A a \in Accounts : paid[a] \in Nat
      BY <1>0, <2>6
    <3>2. /\ E[t.workerWallet] = paid[t.workerWallet] + prize
          /\ \A a \in Accounts \ {t.workerWallet} : E[a] = paid[a]
      <4> HIDE DEF prize, t, E
      <4> QED
        BY <2>1, <2>4, <3>1
    <3> HIDE DEF prize, t, E
    <3> QED
      BY <2>1, <3>1, <3>2, PaidOnTop
  <2>8. Losing(t) = t.pool["No"]
    BY <1>2 DEF Losing, Other
  <2>9. Owed(id) = t.pool["Yes"] + Distributable(t.pool["No"]) + t.reward
    BY <1>0, <1>2, <2>8 DEF Owed, Pot, Distributable
  <2>10. Distributable(t.pool["No"]) \in Nat
    BY <1>0, DistributableBound
  <2> HIDE DEF owed, E
  <2> QED
    BY <1>0, <1>2, <2>6, <2>7, <2>9, <2>10 DEF w, owed, E
<1>3. CASE t.state = "Settled" /\ t.outcome = "No"
  <2> DEFINE w == PositionsOn(id, "No")
             paid == [a \in Accounts |-> WinnerPayout(w[a], t.pool["Yes"], t.pool["No"])]
             refund == t.reward + (IF t.pool["No"] = 0 THEN Distributable(t.pool["Yes"]) ELSE 0)
  <2>1. t.client \in Accounts
    BY <1>3 DEF PotOf
  <2>2. \A a \in Accounts : w[a] = positions[id][a]["No"] /\ w[a] \in Nat
    BY <1>0 DEF Sides
  <2>3. t.pool["No"] = Total(w, Accounts)
    BY DEF PotOf, Sides
  <2>4. \A a \in Accounts : E[a] = paid[a] + (IF a = t.client THEN refund ELSE 0)
    BY <1>3, <2>2 DEF Entitlements, Entitlement
  <2>5. \A a \in Accounts : paid[a] = WinnerPayout(w[a], t.pool["Yes"], t.pool["No"])
    OBVIOUS
  <2>6. Distributable(t.pool["Yes"]) \in Nat
    BY <1>0, DistributableBound
  <2>7. refund \in Nat
    BY <1>0, <2>6
  <2> HIDE DEF paid, w
  <2>8. /\ \A a \in Accounts : paid[a] \in Nat
        /\ t.pool["No"] = 0 => Total(paid, Accounts) = 0
        /\ t.pool["No"] > 0 =>
              /\ Total(paid, Accounts) <= t.pool["No"] + Distributable(t.pool["Yes"])
              /\ (t.pool["No"] + Distributable(t.pool["Yes"])) - Total(paid, Accounts)
                   < Cardinality(Holders(w, Accounts))
    <3>1. t.pool["Yes"] \in Nat
      BY <1>0
    <3> HIDE DEF t
    <3> QED
      BY <2>2, <2>3, <2>5, <3>1, WinnersPaid
  <2>9. /\ owed = Total(paid, Accounts) + refund
        /\ owed \in Nat /\ Total(paid, Accounts) \in Nat
    <3> HIDE DEF refund, t, E
    <3>1. /\ E[t.client] = paid[t.client] + refund
          /\ \A a \in Accounts \ {t.client} : E[a] = paid[a]
      BY <2>1, <2>4, <2>7, <2>8
    <3> QED
      BY <2>1, <2>7, <2>8, <3>1, PaidOnTop
  <2>10. Losing(t) = t.pool["Yes"]
    BY <1>3 DEF Losing, Other
  <2>11. Owed(id) = t.pool["No"] + Distributable(t.pool["Yes"]) + t.reward
    BY <1>0, <1>3, <2>10 DEF Owed, Pot, Distributable
  <2> HIDE DEF owed, E
  <2> QED
    BY <1>0, <1>3, <2>6, <2>8, <2>9, <2>11 DEF w, owed, E, refund
<1> QED
  BY <1>1, <1>2, <1>3 DEF Terminal, PotOf, Sides

-----------------------------------------------------------------------------
(* Steps.  A step acts on one task and leaves the others alone. *)

Untouched(i) ==
    /\ tasks'[i] = tasks[i] /\ positions'[i] = positions[i]
    /\ claimed'[i] = claimed[i] /\ claimedTotal'[i] = claimedTotal[i]
    /\ dustSwept'[i] = dustSwept[i]
    /\ pendingClaims'[i] = pendingClaims[i] /\ bettorCount'[i] = bettorCount[i]

ActsOn(id) ==
    \/ Posts /\ id = nextTaskId
    \/ Stands(id) \/ Backs(id) \/ Delivers(id) \/ CancelUnaccepted(id) \/ Settles(id)
    \/ Pays(id)

Idles == Collects \/ Answers \/ Waits \/ UNCHANGED vars

LEMMA ActCases ==
    ASSUME TypeOK, Step
    PROVE  Idles \/ \E id \in TaskIds : ActsOn(id)
<1>1. Posts => nextTaskId \in TaskIds
  BY EnvironmentAssumption DEF Posts, CreateTask, TypeOK, MarketTypeOK, TaskIds
<1> QED
  BY <1>1 DEF Step, ActsOn, Idles

LEMMA IdleUntouched == ASSUME Idles, NEW i \in TaskIds PROVE Untouched(i)
<1> USE DEF Untouched, market, books
<1>1. CASE Collects
  BY <1>1 DEF Collects, WithdrawTreasury, WithdrawValidatorFees, MayWithdraw
<1>2. CASE Answers
  BY <1>2 DEF Answers, FileRequest, Respond, IdentityChange
<1>3. CASE Waits
  BY <1>3 DEF Waits, Tick, SetPaused
<1>4. CASE UNCHANGED vars
  BY <1>4 DEF vars
<1> QED
  BY <1>1, <1>2, <1>3, <1>4 DEF Idles

LEMMA OthersUntouched ==
    ASSUME TypeOK, NEW id \in TaskIds, ActsOn(id), NEW i \in TaskIds, i # id
    PROVE  Untouched(i)
<1> USE DEF Untouched, TypeOK, MarketTypeOK, BooksTypeOK
<1>1. CASE Posts /\ id = nextTaskId
  BY <1>1 DEF Posts, CreateTask, books
<1>2. CASE Stands(id)
  BY <1>2 DEF Stands, AcceptAndStake, MayAccept, books
<1>3. CASE Backs(id)
  BY <1>3 DEF Backs, PlaceBet, MayBet, books
<1>4. CASE Delivers(id)
  BY <1>4 DEF Delivers, SubmitDelivery, MayDeliver, books
<1>5. CASE CancelUnaccepted(id)
  BY <1>5 DEF CancelUnaccepted
<1>6. CASE Settles(id)
  <2>1. PICK outcome \in Sides, rule \in 1..5 : Finalize(id, outcome, rule)
    BY <1>6, SettlementIsFinalize DEF Finalizes
  <2> QED
    BY <2>1 DEF Finalize
<1>7. CASE SweepDust(id)
  <2>1. dustSwept' = [dustSwept EXCEPT ![id] = TRUE]
    BY <1>7 DEF SweepDust
  <2>2. dustSwept'[i] = dustSwept[i]
    BY <2>1, Zenon
  <2> QED
    BY <1>7, <2>2 DEF SweepDust, market
<1>8. ASSUME NEW a \in Accounts, Claim(a, id) PROVE Untouched(i)
  <2>1. claimed' = [claimed EXCEPT ![id] = @ \cup {a}]
    BY <1>8 DEF Claim, MayClaim
  <2>2. claimed'[i] = claimed[i]
    BY <2>1
  <2> QED
    BY <1>8, <2>2 DEF Claim, MayClaim, market
<1> QED
  BY <1>1, <1>2, <1>3, <1>4, <1>5, <1>6, <1>7, <1>8 DEF ActsOn, Pays

LEMMA UntouchedKeeps ==
    ASSUME NEW i, PotOf(i), Untouched(i)
    PROVE  PotOf(i)' /\ Held(i)' = Held(i)
<1>1. \A a \in Accounts : Entitlement(i, a)' = Entitlement(i, a)
  BY DEF Untouched, Entitlement
<1>2. ClaimedOf(i)' = ClaimedOf(i)
  BY <1>1 DEF Untouched, ClaimedOf
<1>3. \A side \in Sides : PositionsOn(i, side)' = PositionsOn(i, side)
  BY DEF Untouched, PositionsOn
<1> QED
  BY <1>2, <1>3 DEF Untouched, PotOf, Held

(* While a task trades nothing has left its pot, and what a step to its     *)
(* outcome takes is the fee.                                                *)
LEMMA TradingPot ==
    ASSUME TypeOK, TypeOK', NEW id \in TaskIds, PotOf(id), tasks[id].state \notin Terminal,
           claimed'[id] = claimed[id], claimedTotal'[id] = claimedTotal[id],
           dustSwept'[id] = dustSwept[id],
           tasks'[id].client \in Accounts, tasks'[id].reward >= MIN_REWARD,
           tasks'[id].state = "Settled" <=> tasks'[id].outcome \in Sides,
           \A side \in Sides : tasks'[id].pool[side] = Total(PositionsOn(id, side)', Accounts)
    PROVE  /\ PotOf(id)'
           /\ Held(id) = Pot(tasks[id])
           /\ tasks'[id].state # "Settled" => Held(id)' = Pot(tasks'[id])
           /\ tasks'[id].state = "Settled" =>
                 Held(id)' = Pot(tasks'[id]) - Fee(Losing(tasks'[id]))
           /\ claimed[id] = {} /\ ~dustSwept[id]
<1>1. claimed[id] = {} /\ ~dustSwept[id] /\ tasks[id].state # "Settled"
  BY DEF PotOf, Terminal
<1>2. Total(ClaimedOf(id), Accounts) = 0
  <2>1. \A a \in Accounts : ClaimedOf(id)[a] = 0
    BY <1>1 DEF ClaimedOf
  <2> QED
    BY <2>1, TotalZero
<1>3. Total(ClaimedOf(id)', Accounts) = 0
  <2>1. \A a \in Accounts : ClaimedOf(id)'[a] = 0
    BY <1>1 DEF ClaimedOf
  <2> QED
    BY <2>1, TotalZero
<1>4. claimedTotal[id] = 0 /\ claimedTotal'[id] = 0
  BY <1>2 DEF PotOf
<1>5. PotOf(id)'
  BY <1>1, <1>3, <1>4 DEF PotOf
<1>6. Pot(tasks[id]) \in Nat
  BY TaskNumbers
<1>7. Held(id) = Pot(tasks[id])
  BY <1>1, <1>4, <1>6 DEF Held
<1> DEFINE fee == IF tasks'[id].state = "Settled" THEN Fee(Losing(tasks'[id])) ELSE 0
<1>8. Held(id)' = Pot(tasks'[id]) - 0 - fee
  <2>1. Pot(tasks[id])' = Pot(tasks'[id]) /\ Losing(tasks[id])' = Losing(tasks'[id])
    BY DEF Pot, Losing
  <2> QED
    BY <1>1, <1>4, <2>1 DEF Held
<1>9. Pot(tasks'[id]) \in Nat
  <2>1. tasks'[id] \in Task
    BY DEF TypeOK, MarketTypeOK
  <2> QED
    BY <2>1 DEF Task, Sides, Pot
<1> QED
  BY <1>1, <1>5, <1>7, <1>8, <1>9

(* What enters or leaves the contract is what the pot of task id, the       *)
(* treasury and the validators gain or lose together.                       *)
Balances(id) ==
    escrow' - escrow = (Held(id)' - Held(id)) + (treasuryAccrued' - treasuryAccrued)
       + (Total(validatorAccrued', Accounts) - Total(validatorAccrued, Accounts))

LEMMA AccruedNat ==
    ASSUME TypeOK
    PROVE  treasuryAccrued \in Nat /\ Total(validatorAccrued, Accounts) \in Nat /\ escrow \in Nat
BY AccountsFinite, TotalNat DEF TypeOK, BooksTypeOK

LEMMA CreatePot ==
    ASSUME TypeOK, TypeOK', TaskShape, NEW job \in Jobs, CreateTask(job),
           NEW id \in TaskIds, id = nextTaskId, PotOf(id)
    PROVE  PotOf(id)' /\ Balances(id)
<1> DEFINE u == tasks'[id]
<1>1. tasks[id] = NoTask
  BY DEF TaskShape, TypeOK, MarketTypeOK
<1>2. /\ u.client = job.client /\ u.reward = job.reward /\ u.state = "Created"
      /\ u.outcome = "Unresolved" /\ u.pool = [s \in Sides |-> 0]
      /\ positions' = positions /\ UNCHANGED books /\ escrow' = escrow + job.reward
  BY DEF CreateTask, TypeOK, MarketTypeOK, NoTask
<1>3. job.client \in Accounts /\ job.reward \in Nat /\ job.reward >= MIN_REWARD
  BY EnvironmentAssumption DEF CreateTask
<1>4. tasks[id].state = "None" /\ tasks[id].pool = [s \in Sides |-> 0] /\ tasks[id].reward = 0
  BY <1>1 DEF NoTask
<1>5. \A side \in Sides : u.pool[side] = Total(PositionsOn(id, side)', Accounts)
  <2> TAKE side \in Sides
  <2>1. \A a \in Accounts : PositionsOn(id, side)'[a] = 0
    BY <1>2, <1>4, NoPositionYet DEF PositionsOn
  <2>2. Total(PositionsOn(id, side)', Accounts) = 0
    BY <2>1, TotalZero
  <2> QED
    BY <1>2, <2>2
<1>6. u.outcome \notin Sides
  BY <1>2 DEF Sides
<1>7. UNCHANGED <<claimed, claimedTotal, dustSwept, treasuryAccrued, validatorAccrued>>
  BY <1>2 DEF books
<1> HIDE DEF u
<1>8. /\ PotOf(id)' /\ Held(id) = Pot(tasks[id]) /\ Held(id)' = Pot(u)
  <2>1. u.state # "Settled" /\ tasks[id].state \notin Terminal
    BY <1>2, <1>4 DEF Terminal
  <2> QED
    BY <1>2, <1>3, <1>5, <1>6, <1>7, <2>1, TradingPot DEF u
<1>9. Pot(tasks[id]) = 0 /\ Pot(u) = job.reward
  BY <1>2, <1>3, <1>4 DEF Pot, Sides
<1> QED
  BY <1>2, <1>3, <1>7, <1>8, <1>9, AccruedNat DEF Balances

LEMMA AcceptPot ==
    ASSUME TypeOK, TypeOK', TaskShape, NEW sender \in Accounts, NEW id \in TaskIds,
           NEW agent \in Agents, NEW stake \in Stakes,
           AcceptAndStake(sender, id, agent, stake), PotOf(id)
    PROVE  PotOf(id)' /\ Balances(id)
<1> DEFINE t == tasks[id]  u == tasks'[id]
<1>1. t \in Task /\ stake \in Nat /\ t.state = "Created"
  BY EnvironmentAssumption DEF AcceptAndStake, MayAccept, TypeOK, MarketTypeOK
<1>2. u = [t EXCEPT !.workerAgentId = agent, !.workerWallet = sender,
                    !.selfStake = stake, !.betCutoff = now + BETTING_WINDOW,
                    !.pool = [t.pool EXCEPT !["Yes"] = stake], !.state = "Open"]
  BY DEF AcceptAndStake, MayAccept, TypeOK, MarketTypeOK
<1>3. /\ u.client = t.client /\ u.reward = t.reward /\ u.state = "Open"
      /\ u.outcome = t.outcome /\ u.pool = [t.pool EXCEPT !["Yes"] = stake]
  BY <1>1, <1>2 DEF Task
<1>4. t.pool = [s \in Sides |-> 0]
  BY <1>1 DEF TaskShape
<1>5. \A a \in Accounts, side \in Sides :
         PositionsOn(id, side)'[a] = IF a = sender /\ side = "Yes" THEN stake ELSE 0
  BY <1>1, NoPositionYet DEF AcceptAndStake, MayAccept, TypeOK, MarketTypeOK, PositionsOn
<1>6. "Yes" \in Sides /\ "No" \in Sides /\ \A side \in Sides : side \in {"Yes", "No"}
  BY DEF Sides
<1>7. Total(PositionsOn(id, "Yes")', Accounts) = stake
  <2>1. /\ PositionsOn(id, "Yes")'[sender] = stake
        /\ \A a \in Accounts \ {sender} : PositionsOn(id, "Yes")'[a] = 0
    BY <1>5, <1>6
  <2> QED
    BY <1>1, <2>1, AccountsFinite, TotalSingle
<1>8. Total(PositionsOn(id, "No")', Accounts) = 0
  <2>1. \A a \in Accounts : PositionsOn(id, "No")'[a] = 0
    BY <1>5, <1>6
  <2> QED
    BY <2>1, TotalZero
<1>9. u.pool["Yes"] = stake /\ u.pool["No"] = 0
  BY <1>3, <1>4, <1>6
<1>10. \A side \in Sides : u.pool[side] = Total(PositionsOn(id, side)', Accounts)
  <2> TAKE side \in Sides
  <2> QED
    BY <1>6, <1>7, <1>8, <1>9
<1>11. /\ escrow' = escrow + stake
       /\ UNCHANGED <<claimed, claimedTotal, dustSwept, treasuryAccrued, validatorAccrued>>
  BY DEF AcceptAndStake, MayAccept, books
<1>12. t.client \in Accounts /\ t.reward >= MIN_REWARD /\ t.outcome \notin Sides
  BY <1>1 DEF PotOf
<1> HIDE DEF t, u
<1>13. PotOf(id)' /\ Held(id) = Pot(t) /\ Held(id)' = Pot(u)
  <2>1. t.state \notin Terminal /\ u.state # "Settled"
    BY <1>1, <1>3 DEF Terminal
  <2> QED
    BY <1>3, <1>10, <1>11, <1>12, <2>1, TradingPot DEF t, u
<1>14. Pot(t) = t.reward /\ Pot(u) = stake + t.reward /\ t.reward \in Nat
  BY <1>1, <1>3, <1>4, <1>6, <1>9 DEF Pot, Task
<1> QED
  BY <1>1, <1>11, <1>13, <1>14, AccruedNat DEF Balances

LEMMA BetPot ==
    ASSUME TypeOK, TypeOK', TaskShape, NEW sender \in Accounts, NEW id \in TaskIds,
           NEW agent \in Agents, NEW side \in Sides, NEW amount \in Bets,
           PlaceBet(sender, id, agent, side, amount), PotOf(id)
    PROVE  PotOf(id)' /\ Balances(id)
<1> DEFINE t == tasks[id]  u == tasks'[id]
<1>1. t \in Task /\ amount \in Nat /\ t.state = "Open"
  BY EnvironmentAssumption DEF PlaceBet, MayBet, TypeOK, MarketTypeOK
<1>2. u = [t EXCEPT !.pool = [t.pool EXCEPT ![side] = @ + amount]]
  BY <1>1 DEF PlaceBet, MayBet, TypeOK, MarketTypeOK, Task
<1>3. /\ u.client = t.client /\ u.reward = t.reward /\ u.state = "Open"
      /\ u.outcome = t.outcome /\ u.pool = [t.pool EXCEPT ![side] = @ + amount]
  BY <1>1, <1>2 DEF Task
<1>4. \A s \in Sides : t.pool[s] \in Nat
                       /\ u.pool[s] = t.pool[s] + (IF s = side THEN amount ELSE 0)
  BY <1>1, <1>3 DEF Task
<1>5. \A a \in Accounts, s \in Sides :
         /\ PositionsOn(id, s)[a] \in Nat
         /\ PositionsOn(id, s)'[a] = PositionsOn(id, s)[a]
               + (IF a = sender /\ s = side THEN amount ELSE 0)
  <2>1. \A a \in Accounts, s \in Sides :
           /\ positions[id][a][s] \in Nat
           /\ positions'[id][a][s] = IF a = sender /\ s = side
                                     THEN positions[id][a][s] + amount
                                     ELSE positions[id][a][s]
    BY DEF PlaceBet, MayBet, TypeOK, MarketTypeOK
  <2> QED
    BY <1>1, <2>1 DEF PositionsOn
<1>6. \A s \in Sides : u.pool[s] = Total(PositionsOn(id, s)', Accounts)
  <2> TAKE s \in Sides
  <2>1. t.pool[s] = Total(PositionsOn(id, s), Accounts)
    BY DEF PotOf
  <2>2. CASE s = side
    <3>1. \A a \in Accounts \ {sender} : PositionsOn(id, s)'[a] = PositionsOn(id, s)[a]
      BY <1>5
    <3>2. PositionsOn(id, s)'[sender] = PositionsOn(id, s)[sender] + amount
      BY <1>5, <2>2
    <3> QED
      BY <1>1, <1>4, <1>5, <2>1, <2>2, <3>1, <3>2, PaidOnTop
  <2>3. CASE s # side
    <3>1. \A a \in Accounts : PositionsOn(id, s)'[a] = PositionsOn(id, s)[a]
      BY <1>5, <2>3
    <3>2. Total(PositionsOn(id, s)', Accounts) = Total(PositionsOn(id, s), Accounts)
      BY <3>1, TotalSame
    <3> QED
      BY <1>4, <2>1, <2>3, <3>2
  <2> QED
    BY <2>2, <2>3
<1>7. /\ escrow' = escrow + amount
      /\ UNCHANGED <<claimed, claimedTotal, dustSwept, treasuryAccrued, validatorAccrued>>
  BY DEF PlaceBet, MayBet, books
<1>8. t.client \in Accounts /\ t.reward >= MIN_REWARD /\ t.outcome \notin Sides
  BY <1>1 DEF PotOf
<1> HIDE DEF t, u
<1>9. PotOf(id)' /\ Held(id) = Pot(t) /\ Held(id)' = Pot(u)
  <2>1. t.state \notin Terminal /\ u.state # "Settled"
    BY <1>1, <1>3 DEF Terminal
  <2> QED
    BY <1>3, <1>6, <1>7, <1>8, <2>1, TradingPot DEF t, u
<1>10. Pot(u) = Pot(t) + amount /\ Pot(t) \in Nat
  <2>1. t.reward \in Nat /\ side \in {"Yes", "No"} /\ "Yes" \in Sides /\ "No" \in Sides
    BY <1>1 DEF Task, Sides
  <2>2. /\ t.pool["Yes"] \in Nat /\ t.pool["No"] \in Nat
        /\ u.pool["Yes"] = t.pool["Yes"] + (IF side = "Yes" THEN amount ELSE 0)
        /\ u.pool["No"] = t.pool["No"] + (IF side = "No" THEN amount ELSE 0)
    BY <1>4, <2>1
  <2> QED
    BY <1>1, <1>3, <2>1, <2>2 DEF Pot
<1> QED
  BY <1>1, <1>7, <1>9, <1>10, AccruedNat DEF Balances

LEMMA DeliverPot ==
    ASSUME TypeOK, TypeOK', NEW sender \in Accounts, NEW id \in TaskIds,
           NEW hash \in Hashes, SubmitDelivery(sender, id, hash), PotOf(id)
    PROVE  PotOf(id)' /\ Balances(id)
<1> DEFINE t == tasks[id]  u == tasks'[id]
<1>1. t \in Task /\ t.state = "Open"
  BY DEF SubmitDelivery, MayDeliver, TypeOK, MarketTypeOK
<1>2. u = [t EXCEPT !.deliveredAt = now, !.deliverableHash = hash, !.state = "Delivered"]
  BY DEF SubmitDelivery, MayDeliver, TypeOK, MarketTypeOK
<1>3. /\ u.client = t.client /\ u.reward = t.reward /\ u.state = "Delivered"
      /\ u.outcome = t.outcome /\ u.pool = t.pool
  BY <1>1, <1>2 DEF Task
<1>4. UNCHANGED <<positions, claimed, claimedTotal, dustSwept, treasuryAccrued,
                  validatorAccrued, escrow>>
  BY DEF SubmitDelivery, MayDeliver, books
<1>5. \A side \in Sides : u.pool[side] = Total(PositionsOn(id, side)', Accounts)
  BY <1>3, <1>4 DEF PotOf, PositionsOn
<1>6. t.client \in Accounts /\ t.reward >= MIN_REWARD /\ t.outcome \notin Sides
  BY <1>1 DEF PotOf
<1> HIDE DEF t, u
<1>7. PotOf(id)' /\ Held(id) = Pot(t) /\ Held(id)' = Pot(u)
  <2>1. t.state \notin Terminal /\ u.state # "Settled"
    BY <1>1, <1>3 DEF Terminal
  <2> QED
    BY <1>3, <1>4, <1>5, <1>6, <2>1, TradingPot DEF t, u
<1>8. Pot(u) = Pot(t) /\ Pot(t) \in Nat
  BY <1>3, TaskNumbers DEF Pot, t
<1> QED
  BY <1>4, <1>7, <1>8, AccruedNat DEF Balances

LEMMA CancelPot ==
    ASSUME TypeOK, TypeOK', NEW id \in TaskIds, CancelUnaccepted(id), PotOf(id)
    PROVE  PotOf(id)' /\ Balances(id)
<1> DEFINE t == tasks[id]  u == tasks'[id]
<1>1. t \in Task /\ t.state = "Created"
  BY DEF CancelUnaccepted, TypeOK, MarketTypeOK
<1>2. u = [t EXCEPT !.state = "Cancelled"]
  BY DEF CancelUnaccepted, TypeOK, MarketTypeOK
<1>3. /\ u.client = t.client /\ u.reward = t.reward /\ u.state = "Cancelled"
      /\ u.outcome = t.outcome /\ u.pool = t.pool
  BY <1>1, <1>2 DEF Task
<1>4. UNCHANGED <<positions, claimed, claimedTotal, dustSwept, treasuryAccrued,
                  validatorAccrued, escrow>>
  BY DEF CancelUnaccepted
<1>5. \A side \in Sides : u.pool[side] = Total(PositionsOn(id, side)', Accounts)
  BY <1>3, <1>4 DEF PotOf, PositionsOn
<1>6. t.client \in Accounts /\ t.reward >= MIN_REWARD /\ t.outcome \notin Sides
  BY <1>1 DEF PotOf
<1> HIDE DEF t, u
<1>7. PotOf(id)' /\ Held(id) = Pot(t) /\ Held(id)' = Pot(u)
  <2>1. t.state \notin Terminal /\ u.state # "Settled"
    BY <1>1, <1>3 DEF Terminal
  <2> QED
    BY <1>3, <1>4, <1>5, <1>6, <2>1, TradingPot DEF t, u
<1>8. Pot(u) = Pot(t) /\ Pot(t) \in Nat
  BY <1>3, TaskNumbers DEF Pot, t
<1> QED
  BY <1>4, <1>7, <1>8, AccruedNat DEF Balances

(* A settlement takes the fee on the losing pool, and books all of it.      *)
LEMMA SettlePot ==
    ASSUME TypeOK, TypeOK', TaskShape, NEW id \in TaskIds, PotOf(id),
           tasks[id].state \in {"Open", "Delivered"},
           NEW outcome \in Sides, NEW rule \in 1..5, Finalize(id, outcome, rule)
    PROVE  PotOf(id)' /\ Balances(id)
<1> DEFINE t == tasks[id]  u == tasks'[id]
           fee == Fee(t.pool[Other(outcome)])
           toValidator == ValidatorFee(fee, rule)
<1>1. t \in Task /\ t.validatorWallet \in Accounts
  BY DEF TaskShape, TypeOK, MarketTypeOK
<1>2. u = [t EXCEPT !.state = "Settled", !.outcome = outcome]
  BY <1>1 DEF Finalize, TypeOK, MarketTypeOK
<1>3. /\ u.client = t.client /\ u.reward = t.reward /\ u.state = "Settled"
      /\ u.outcome = outcome /\ u.pool = t.pool
  BY <1>1, <1>2 DEF Task
<1>4. UNCHANGED <<positions, claimed, claimedTotal, dustSwept, escrow>>
  BY DEF Finalize
<1>5. \A side \in Sides : u.pool[side] = Total(PositionsOn(id, side)', Accounts)
  BY <1>3, <1>4 DEF PotOf, PositionsOn
<1>6. t.client \in Accounts /\ t.reward >= MIN_REWARD
  BY DEF PotOf
<1>7. t.pool[Other(outcome)] \in Nat /\ t.state \notin Terminal
  BY <1>1 DEF Task, Other, Sides, Terminal
<1>8. fee \in Nat /\ toValidator \in 0..fee
  <2>1. fee \in Nat
    BY <1>7, DistributableBound
  <2> QED
    BY <2>1, BpsBound, ParamsAssumption DEF ValidatorFee
<1>9. treasuryAccrued' = treasuryAccrued + (fee - toValidator)
  BY DEF Finalize, TreasuryFee
<1>10. validatorAccrued' = [validatorAccrued EXCEPT ![t.validatorWallet] = @ + toValidator]
  BY DEF Finalize
<1> HIDE DEF fee, toValidator, t, u
<1>11. Total(validatorAccrued', Accounts) = Total(validatorAccrued, Accounts) + toValidator
  <2>1. validatorAccrued \in [Accounts -> Nat] /\ toValidator \in Nat
    BY <1>8 DEF TypeOK, BooksTypeOK
  <2>2. /\ validatorAccrued'[t.validatorWallet]
              = validatorAccrued[t.validatorWallet] + toValidator
        /\ \A a \in Accounts \ {t.validatorWallet} :
              validatorAccrued'[a] = validatorAccrued[a]
    BY <1>1, <1>10, <2>1
  <2> QED
    BY <1>1, <2>1, <2>2, PaidOnTop
<1>12. PotOf(id)' /\ Held(id) = Pot(t) /\ Held(id)' = Pot(u) - Fee(Losing(u))
  BY <1>3, <1>4, <1>5, <1>6, <1>7, TradingPot DEF t, u
<1>13. Pot(u) = Pot(t) /\ Pot(t) \in Nat /\ Fee(Losing(u)) = fee
  BY <1>3, TaskNumbers DEF Pot, Losing, fee, t
<1> QED
  BY <1>4, <1>8, <1>9, <1>11, <1>12, <1>13, AccruedNat DEF Balances

LEMMA ClaimPot ==
    ASSUME TypeOK, TaskShape, NEW sender \in Accounts, NEW id \in TaskIds,
           Claim(sender, id), PotOf(id)
    PROVE  /\ PotOf(id)' /\ Balances(id)
           /\ Held(id)' = Held(id) - Entitlement(id, sender)
<1> DEFINE amount == Entitlement(id, sender)
<1>1. amount \in Nat /\ \A a \in Accounts : Entitlement(id, a) \in Nat
  BY EntitlementNat
<1>2. /\ UNCHANGED <<tasks, positions, dustSwept, treasuryAccrued, validatorAccrued>>
      /\ escrow' = escrow - amount
      /\ tasks[id].state \in Terminal /\ sender \notin claimed[id] /\ ~dustSwept[id]
  BY DEF Claim, MayClaim, ClaimOpen, market, Terminal
<1>3. claimed'[id] = claimed[id] \cup {sender} /\ claimedTotal'[id] = claimedTotal[id] + amount
  <2>1. claimed' = [claimed EXCEPT ![id] = @ \cup {sender}]
    BY DEF Claim, MayClaim
  <2>2. claimedTotal' = [claimedTotal EXCEPT ![id] = @ + amount]
    BY DEF Claim, MayClaim
  <2>3. claimed'[id] = claimed[id] \cup {sender}
    BY <2>1 DEF TypeOK, BooksTypeOK
  <2> QED
    BY <2>2, <2>3 DEF TypeOK, BooksTypeOK
<1>4. \A a \in Accounts : Entitlement(id, a)' = Entitlement(id, a)
  BY <1>2 DEF Entitlement
<1>5. Total(ClaimedOf(id)', Accounts) = Total(ClaimedOf(id), Accounts) + amount
  <2>1. \A a \in Accounts : ClaimedOf(id)[a] \in Nat
    BY <1>1 DEF ClaimedOf
  <2>2. ClaimedOf(id)[sender] = 0 /\ ClaimedOf(id)'[sender] = amount
    BY <1>2, <1>3, <1>4 DEF ClaimedOf
  <2>3. \A a \in Accounts \ {sender} : ClaimedOf(id)'[a] = ClaimedOf(id)[a]
    BY <1>3, <1>4 DEF ClaimedOf
  <2> HIDE DEF amount
  <2> QED
    BY <1>1, <2>1, <2>2, <2>3, PaidOnTop
<1>6. \A side \in Sides : PositionsOn(id, side)' = PositionsOn(id, side)
  BY <1>2 DEF PositionsOn
<1>7. PotOf(id)'
  BY <1>2, <1>3, <1>5, <1>6 DEF PotOf
<1>8. Held(id)' = Held(id) - amount /\ Held(id) \in Int
  <2>1. claimedTotal[id] \in Nat
    BY DEF TypeOK, BooksTypeOK
  <2>2. Pot(tasks[id]) \in Nat /\ Fee(Losing(tasks[id])) \in Nat
    BY TaskNumbers
  <2> HIDE DEF amount
  <2> QED
    BY <1>1, <1>2, <1>3, <2>1, <2>2 DEF Held, Pot, Losing
<1> HIDE DEF amount
<1> QED
  BY <1>1, <1>2, <1>7, <1>8, AccruedNat DEF Balances, amount

LEMMA SweepPot ==
    ASSUME TypeOK, TaskShape, NEW id \in TaskIds, SweepDust(id), PotOf(id)
    PROVE  /\ PotOf(id)' /\ Balances(id)
           /\ Held(id)' = 0 /\ treasuryAccrued' = treasuryAccrued + Held(id)
<1>1. /\ UNCHANGED <<tasks, positions, claimed, claimedTotal, validatorAccrued, escrow>>
      /\ tasks[id].state = "Settled" /\ ~dustSwept[id]
      /\ treasuryAccrued' = treasuryAccrued + (Pot(tasks[id]) - Taken(id))
  BY DEF SweepDust, market
<1>2. dustSwept'[id] = TRUE
  <2>1. dustSwept' = [dustSwept EXCEPT ![id] = TRUE]
    BY DEF SweepDust
  <2> QED
    BY <2>1, Zenon DEF TypeOK, BooksTypeOK
<1>3. Held(id) = Pot(tasks[id]) - claimedTotal[id] - Fee(Losing(tasks[id])) /\ Held(id)' = 0
  BY <1>1, <1>2 DEF Held
<1>4. \A a \in Accounts : Entitlement(id, a)' = Entitlement(id, a)
  BY <1>1 DEF Entitlement
<1>5. ClaimedOf(id)' = ClaimedOf(id)
  BY <1>1, <1>4 DEF ClaimedOf
<1>6. \A side \in Sides : PositionsOn(id, side)' = PositionsOn(id, side)
  BY <1>1 DEF PositionsOn
<1>7. PotOf(id)'
  BY <1>1, <1>5, <1>6 DEF PotOf
<1>8. treasuryAccrued' = treasuryAccrued + Held(id) /\ Held(id) \in Int
  <2>1. claimedTotal[id] \in Nat
    BY DEF TypeOK, BooksTypeOK
  <2>2. Pot(tasks[id]) \in Nat /\ Fee(Losing(tasks[id])) \in Nat
    BY TaskNumbers
  <2> QED
    BY <1>1, <1>3, <2>1, <2>2 DEF Taken
<1> QED
  BY <1>1, <1>3, <1>7, <1>8, AccruedNat DEF Balances

LEMMA ActPot ==
    ASSUME TypeOK, TypeOK', TaskShape, NEW id \in TaskIds, ActsOn(id), PotOf(id)
    PROVE  PotOf(id)' /\ Balances(id)
<1>1. CASE Posts /\ id = nextTaskId
  BY <1>1, CreatePot DEF Posts
<1>2. CASE Stands(id)
  BY <1>2, AcceptPot DEF Stands
<1>3. CASE Backs(id)
  BY <1>3, BetPot DEF Backs
<1>4. CASE Delivers(id)
  BY <1>4, DeliverPot DEF Delivers
<1>5. CASE CancelUnaccepted(id)
  BY <1>5, CancelPot
<1>6. CASE Settles(id)
  BY <1>6, SettlementIsFinalize, SettlePot DEF Finalizes
<1>7. CASE Pays(id)
  BY <1>7, ClaimPot, SweepPot DEF Pays
<1> QED
  BY <1>1, <1>2, <1>3, <1>4, <1>5, <1>6, <1>7 DEF ActsOn

PotInv == RoleInv /\ PotShape /\ PoolsBackedByPositions

LEMMA InitPots == Init => PotInv
<1> SUFFICES ASSUME Init PROVE PotInv
  OBVIOUS
<1>1. RoleInv
  <2>1. RolesKeepTheirSide /\ StakeKept
    BY DEF Init, RolesKeepTheirSide, StakeKept, NoTask, Sides
  <2> QED
    BY <2>1, InitType, InitShape DEF RoleInv
<1>2. ASSUME NEW id \in TaskIds PROVE PotOf(id)
  <2>1. \A a \in Accounts : ClaimedOf(id)[a] = 0
    BY DEF Init, ClaimedOf
  <2>2. \A side \in Sides : \A a \in Accounts : PositionsOn(id, side)[a] = 0
    BY DEF Init, PositionsOn
  <2>3. Total(ClaimedOf(id), Accounts) = 0
    BY <2>1, TotalZero
  <2>4. \A side \in Sides : Total(PositionsOn(id, side), Accounts) = 0
    BY <2>2, TotalZero
  <2> QED
    BY <2>3, <2>4 DEF Init, PotOf, NoTask, Sides
<1> QED
  BY <1>1, <1>2, PotsPerTask DEF PotInv

LEMMA NextPots == ASSUME PotInv, Step PROVE PotInv'
<1> USE DEF PotInv, RoleInv
<1>1. RoleInv'
  BY NextType, NextShape, NextRoles
<1>2. \A i \in TaskIds : PotOf(i)
  BY PotsPerTask
<1>3. ASSUME NEW i \in TaskIds PROVE PotOf(i)'
  <2>1. CASE Idles
    BY <1>2, <2>1, IdleUntouched, UntouchedKeeps
  <2>2. ASSUME NEW id \in TaskIds, ActsOn(id) PROVE PotOf(i)'
    <3>1. CASE i = id
      BY <1>1, <1>2, <2>2, <3>1, ActPot
    <3>2. CASE i # id
      BY <1>2, <2>2, <3>2, OthersUntouched, UntouchedKeeps
    <3> QED
      BY <3>1, <3>2
  <2> QED
    BY <2>1, <2>2, ActCases
<1>4. (PotShape /\ PoolsBackedByPositions)'
  BY <1>3 DEF PotShape, PoolsBackedByPositions, PotOf
<1> QED
  BY <1>1, <1>4

-----------------------------------------------------------------------------
(* What a pot holds is enough. *)

Previews(id) == [a \in Accounts |-> PreviewPayout(id, a)]

(* What is claimed and what can still be claimed are all the payouts.       *)
LEMMA ClaimsSplit ==
    ASSUME TypeOK, TaskShape, NEW id \in TaskIds, tasks[id].state \in Terminal, ~dustSwept[id]
    PROVE  Total(Entitlements(id), Accounts)
             = Total(ClaimedOf(id), Accounts) + Total(Previews(id), Accounts)
<1>1. \A a \in Accounts :
         /\ ClaimedOf(id)[a] \in Nat /\ Previews(id)[a] \in Nat
         /\ Entitlements(id)[a] = ClaimedOf(id)[a] + Previews(id)[a]
  <2> TAKE a \in Accounts
  <2>1. Entitlement(id, a) \in Nat
    BY EntitlementNat
  <2>2. ClaimedOf(id)[a] = IF a \in claimed[id] THEN Entitlement(id, a) ELSE 0
    BY DEF ClaimedOf
  <2>3. Previews(id)[a] = IF a \in claimed[id] THEN 0 ELSE Entitlement(id, a)
    BY DEF Previews, PreviewPayout, ClaimOpen, Terminal
  <2>4. Entitlements(id)[a] = Entitlement(id, a)
    BY DEF Entitlements
  <2> QED
    BY <2>1, <2>2, <2>3, <2>4
<1> QED
  BY <1>1, AccountsFinite, TotalAdd

LEMMA PotCovers ==
    ASSUME TypeOK, TaskShape, StakeKept, NEW id \in TaskIds, PotOf(id)
    PROVE  /\ Held(id) \in Nat
           /\ Total(Previews(id), Accounts) \in Nat
           /\ Total(Previews(id), Accounts) <= Held(id)
<1>1. claimedTotal[id] \in Nat /\ claimedTotal[id] = Total(ClaimedOf(id), Accounts)
  BY DEF PotOf, TypeOK, BooksTypeOK
<1>2. Owed(id) \in Nat
  BY TaskNumbers
<1>3. CASE dustSwept[id] \/ tasks[id].state \notin Terminal
  <2>1. \A a \in Accounts : Previews(id)[a] = 0
    BY <1>3 DEF Previews, PreviewPayout, ClaimOpen, Terminal
  <2>2. Total(Previews(id), Accounts) = 0
    BY <2>1, TotalZero
  <2>3. CASE dustSwept[id]
    BY <2>2, <2>3 DEF Held
  <2>4. CASE ~dustSwept[id]
    <3>1. claimed[id] = {} /\ tasks[id].state # "Settled"
      BY <1>3, <2>4 DEF PotOf, Terminal
    <3>2. \A a \in Accounts : ClaimedOf(id)[a] = 0
      BY <3>1 DEF ClaimedOf
    <3>3. Total(ClaimedOf(id), Accounts) = 0
      BY <3>2, TotalZero
    <3>4. Pot(tasks[id]) \in Nat
      BY TaskNumbers
    <3> QED
      BY <1>1, <2>2, <2>4, <3>1, <3>3, <3>4 DEF Held
  <2> QED
    BY <2>3, <2>4
<1>4. CASE ~dustSwept[id] /\ tasks[id].state \in Terminal
  <2> DEFINE preview == Total(Previews(id), Accounts)
             all == Total(Entitlements(id), Accounts)
  <2>1. all = claimedTotal[id] + preview
    BY <1>1, <1>4, ClaimsSplit
  <2>2. all \in Nat /\ all <= Owed(id)
    BY <1>4, EntitlementsCovered
  <2>3. preview \in Nat
    <3>1. \A a \in Accounts : Previews(id)[a] \in Nat
      BY EntitlementNat DEF Previews, PreviewPayout
    <3> QED
      BY <3>1, AccountsFinite, TotalNat
  <2>4. Held(id) = Owed(id) - claimedTotal[id]
    <3>1. Pot(tasks[id]) \in Nat /\ Fee(Losing(tasks[id])) \in Nat
      BY TaskNumbers
    <3> QED
      BY <1>1, <1>4, <3>1 DEF Held, Owed
  <2> HIDE DEF preview, all
  <2>5. Held(id) \in Nat /\ preview <= Held(id)
    BY <1>1, <1>2, <2>1, <2>2, <2>3, <2>4
  <2> QED
    BY <2>3, <2>5 DEF preview
<1> QED
  BY <1>3, <1>4

LEMMA PotsSound ==
    PotInv => PotsCoverClaims /\ \A id \in TaskIds : Held(id) \in Nat
<1> SUFFICES ASSUME PotInv, NEW id \in TaskIds
             PROVE  /\ Held(id) \in Nat
                    /\ Total([a \in Accounts |-> PreviewPayout(id, a)], Accounts) <= Held(id)
  BY DEF PotsCoverClaims
<1>1. PotOf(id) /\ TypeOK /\ TaskShape /\ StakeKept
  BY PotsPerTask DEF PotInv, RoleInv
<1> QED
  BY <1>1, PotCovers DEF Previews

LEMMA PotsSoundAfter == PotInv' => \A id \in TaskIds : Held(id)' \in Nat
<1>1. PotInv' => (\A id \in TaskIds : Held(id) \in Nat)'
  BY PotsSound, PTL
<1> QED
  BY <1>1

Pots == Total([id \in TaskIds |-> Held(id)], TaskIds)

LEMMA AllPotsChange ==
    ASSUME NEW f, NEW g, NEW id \in TaskIds,
           \A i \in TaskIds : f[i] \in Nat /\ g[i] \in Nat /\ (i # id => f[i] = g[i])
    PROVE  Total(g, TaskIds) = Total(f, TaskIds) - f[id] + g[id]
<1> DEFINE S == TaskIds
<1>1. /\ IsFiniteSet(S) /\ id \in S
      /\ \A i \in S : f[i] \in Nat /\ g[i] \in Nat /\ (i # id => f[i] = g[i])
  BY AccountsFinite
<1> HIDE DEF S
<1>2. Total(g, S) = Total(f, S) - f[id] + g[id]
  BY <1>1, TotalChange
<1> QED
  BY <1>2 DEF S

LEMMA NextEscrow ==
    ASSUME PotInv, PotInv', EscrowAddsUp, Step
    PROVE  EscrowAddsUp'
<1>0. TypeOK /\ TypeOK' /\ TaskShape /\ \A i \in TaskIds : PotOf(i)
  BY PotsPerTask DEF PotInv, RoleInv
<1>1. \A i \in TaskIds : Held(i) \in Nat
  BY PotsSound
<1>2. \A i \in TaskIds : Held(i)' \in Nat
  BY PotsSoundAfter
<1> DEFINE held == [i \in TaskIds |-> Held(i)]
           held1 == [i \in TaskIds |-> Held(i)']
<1>3. Pots = Total(held, TaskIds) /\ Pots' = Total(held1, TaskIds)
  BY DEF Pots, TaskIds
<1>4. /\ \A i \in TaskIds : held[i] = Held(i) /\ held1[i] = Held(i)'
      /\ \A i \in TaskIds : held[i] \in Nat /\ held1[i] \in Nat
  BY <1>1, <1>2
<1> HIDE DEF held, held1
<1>5. Pots \in Nat
  BY <1>3, <1>4, AccountsFinite, TotalNat
<1>6. escrow = Pots + treasuryAccrued + Total(validatorAccrued, Accounts)
  BY DEF EscrowAddsUp, Pots
<1>7. /\ treasuryAccrued' \in Nat /\ Total(validatorAccrued', Accounts) \in Nat
      /\ escrow' \in Nat
  BY <1>0, AccountsFinite, TotalNat DEF TypeOK, BooksTypeOK
<1>8. ASSUME escrow' = Pots' + treasuryAccrued' + Total(validatorAccrued', Accounts)
      PROVE  EscrowAddsUp'
  BY <1>8 DEF EscrowAddsUp, Pots
<1>9. ASSUME NEW id \in TaskIds, ActsOn(id) PROVE EscrowAddsUp'
  <2>1. Balances(id)
    BY <1>0, <1>9, ActPot
  <2>2. \A i \in TaskIds : held[i] \in Nat /\ held1[i] \in Nat /\ (i # id => held[i] = held1[i])
    BY <1>0, <1>4, <1>9, OthersUntouched, UntouchedKeeps
  <2>3. Pots' = Pots - Held(id) + Held(id)'
    <3>1. Total(held1, TaskIds) = Total(held, TaskIds) - held[id] + held1[id]
      BY <2>2, AllPotsChange
    <3> QED
      BY <1>3, <1>4, <3>1
  <2>4. Held(id) \in Nat /\ Held(id)' \in Nat
    BY <1>1, <1>2
  <2>5. /\ treasuryAccrued \in Nat /\ Total(validatorAccrued, Accounts) \in Nat
        /\ escrow \in Nat
    BY <1>0, AccruedNat
  <2>6. escrow' - escrow = (Held(id)' - Held(id)) + (treasuryAccrued' - treasuryAccrued)
           + (Total(validatorAccrued', Accounts) - Total(validatorAccrued, Accounts))
    BY <2>1 DEF Balances
  <2> HIDE DEF Pots
  <2>7. escrow' = Pots' + treasuryAccrued' + Total(validatorAccrued', Accounts)
    BY <1>5, <1>6, <1>7, <2>3, <2>4, <2>5, <2>6
  <2> QED
    BY <1>8, <2>7
<1>10. CASE Idles
  <2>1. \A i \in TaskIds : held[i] = held1[i]
    BY <1>0, <1>4, <1>10, IdleUntouched, UntouchedKeeps
  <2>2. Pots' = Pots
    BY <1>3, <2>1, TotalSame
  <2> HIDE DEF Pots
  <2>3. ASSUME NEW a \in Accounts, WithdrawTreasury(a) PROVE EscrowAddsUp'
    <3>1. escrow' = escrow - treasuryAccrued /\ treasuryAccrued' = 0
            /\ validatorAccrued' = validatorAccrued
      BY <2>3 DEF WithdrawTreasury
    <3> QED
      BY <1>0, <1>5, <1>6, <1>8, <2>2, <3>1, AccruedNat
  <2>4. ASSUME NEW a \in Accounts, WithdrawValidatorFees(a) PROVE EscrowAddsUp'
    <3>1. /\ escrow' = escrow - validatorAccrued[a] /\ treasuryAccrued' = treasuryAccrued
          /\ validatorAccrued' = [validatorAccrued EXCEPT ![a] = 0]
      BY <2>4 DEF WithdrawValidatorFees, MayWithdraw
    <3>2. \A b \in Accounts : /\ validatorAccrued[b] \in Nat /\ validatorAccrued'[b] \in Nat
                              /\ b # a => validatorAccrued[b] = validatorAccrued'[b]
      BY <1>0, <3>1 DEF TypeOK, BooksTypeOK
    <3>3. validatorAccrued'[a] = 0
      BY <1>0, <3>1 DEF TypeOK, BooksTypeOK
    <3>4. Total(validatorAccrued', Accounts)
            = Total(validatorAccrued, Accounts) - validatorAccrued[a] + validatorAccrued'[a]
      BY <3>2, AccountsFinite, TotalChange
    <3> QED
      BY <1>0, <1>5, <1>6, <1>8, <2>2, <3>1, <3>2, <3>3, <3>4, AccruedNat
  <2>5. ASSUME UNCHANGED <<escrow, treasuryAccrued, validatorAccrued>> PROVE EscrowAddsUp'
    BY <1>6, <1>8, <2>2, <2>5
  <2>6. CASE Answers
    BY <2>5, <2>6 DEF Answers, FileRequest, Respond, IdentityChange, books
  <2>7. CASE Waits
    BY <2>5, <2>7 DEF Waits, Tick, SetPaused, books
  <2>8. CASE UNCHANGED vars
    BY <2>5, <2>8 DEF vars, books
  <2> QED
    BY <1>10, <2>3, <2>4, <2>6, <2>7, <2>8 DEF Idles, Collects
<1> QED
  BY <1>0, <1>9, <1>10, ActCases

MoneyInv == PotInv /\ EscrowAddsUp

LEMMA InitEscrow == Init => EscrowAddsUp
<1> SUFFICES ASSUME Init PROVE EscrowAddsUp
  OBVIOUS
<1>1. \A i \in TaskIds : [id \in TaskIds |-> Held(id)][i] = 0
  <2> TAKE i \in TaskIds
  <2>1. Pot(tasks[i]) = 0 /\ dustSwept[i] = FALSE /\ claimedTotal[i] = 0
          /\ tasks[i].state = "None"
    BY DEF Init, NoTask, Pot, Sides
  <2> QED
    BY <2>1 DEF Held
<1>2. Total([id \in TaskIds |-> Held(id)], TaskIds) = 0
  BY <1>1, TotalZero
<1>3. \A a \in Accounts : validatorAccrued[a] = 0
  BY DEF Init
<1>4. Total(validatorAccrued, Accounts) = 0
  BY <1>3, TotalZero
<1>5. escrow = 0 /\ treasuryAccrued = 0
  BY DEF Init
<1> QED
  BY <1>2, <1>4, <1>5 DEF EscrowAddsUp

LEMMA MoneyInvariance == Spec => []MoneyInv
<1>1. Init => MoneyInv
  BY InitPots, InitEscrow DEF MoneyInv
<1>2. MoneyInv /\ [Next]_vars => MoneyInv'
  BY StepCases, NextPots, NextEscrow DEF MoneyInv
<1> QED
  BY <1>1, <1>2, PTL DEF Spec

(* The contract always holds exactly what it still owes to its tasks, its   *)
(* treasury and its validators, and each finished task's part of it covers  *)
(* every payout its participants can still claim: for any number of tasks,  *)
(* bettors and bets, all rates and all orders of claims, sweeps and         *)
(* withdrawals (I-1; lines 472-498, 512-557, 589-618).                      *)
THEOREM SolvencyHolds == Spec => []Solvency
<1>1. MoneyInv => Solvency
  BY PotsSound DEF MoneyInv, Solvency
<1> QED
  BY <1>1, MoneyInvariance, PTL

-----------------------------------------------------------------------------
(* OracleCore implements PotEscrow: every step of the contract is one the   *)
(* abstract pots allow on one task, a withdrawal, or no step of theirs at   *)
(* all.  The abstract pot of a task is Held(id), what the contract's        *)
(* balance still owes it.                                                   *)

\* The refinement mapping of OracleSafety!Promise, by name.
phases == [id \in TaskIds |-> tasks[id].state]
outcomes == [id \in TaskIds |-> tasks[id].outcome]
pots == [id \in TaskIds |-> Held(id)]
dues == [p \in Accounts \cup {NoAccount} |->
           IF p = NoAccount THEN treasuryAccrued ELSE validatorAccrued[p]]

(* The initial contract is the initial escrow.                              *)
LEMMA PromiseInit == Init => Promise!Init
<1> SUFFICES ASSUME Init PROVE Promise!Init
  OBVIOUS
<1>1. \A id \in TaskIds : tasks[id].state = "None" /\ tasks[id].outcome = "Unresolved"
  BY DEF Init, NoTask
<1>2. \A id \in TaskIds : Held(id) = 0
  <2> TAKE id \in TaskIds
  <2>1. Pot(tasks[id]) = 0 /\ dustSwept[id] = FALSE /\ claimedTotal[id] = 0
    BY DEF Init, NoTask, Pot, Sides
  <2> QED
    BY <1>1, <2>1 DEF Held
<1>3. treasuryAccrued = 0 /\ \A a \in Accounts : validatorAccrued[a] = 0
  BY DEF Init
<1> QED
  BY <1>1, <1>2, <1>3 DEF Promise!Init

(* A step that leaves the other tasks alone changes the abstract state at   *)
(* one task only.                                                           *)
LEMMA OneTaskMoves ==
    ASSUME NEW id \in TaskIds, \A i \in TaskIds : i # id => PotOf(i) /\ Untouched(i)
    PROVE  /\ phases' = [phases EXCEPT ![id] = tasks'[id].state]
           /\ outcomes' = [outcomes EXCEPT ![id] = tasks'[id].outcome]
           /\ pots' = [pots EXCEPT ![id] = Held(id)']
           /\ phases[id] = tasks[id].state /\ outcomes[id] = tasks[id].outcome
           /\ pots[id] = Held(id) /\ pots'[id] = Held(id)'
<1>1. \A i \in TaskIds : i # id => /\ tasks'[i] = tasks[i] /\ Held(i)' = Held(i)
  BY UntouchedKeeps DEF Untouched
<1> QED
  BY <1>1 DEF phases, outcomes, pots, TaskIds

LEMMA DuesKept ==
    ASSUME UNCHANGED <<treasuryAccrued, validatorAccrued>>
    PROVE  dues' = dues
BY DEF dues

(* What a step of the market brings in goes into the pot it acts on.        *)
LEMMA MarketDeposit ==
    ASSUME MoneyInv, MoneyInv', NEW id \in TaskIds, ActsOn(id),
           UNCHANGED <<treasuryAccrued, validatorAccrued>>,
           NEW amount \in Nat, escrow' = escrow + amount
    PROVE  /\ Held(id) \in Nat /\ Held(id)' = Held(id) + amount
           /\ dues' = dues
<1>1. TypeOK /\ TypeOK' /\ TaskShape /\ PotOf(id) /\ Held(id) \in Nat
  BY PotsPerTask, PotsSound DEF MoneyInv, PotInv, RoleInv
<1>2. Held(id)' \in Nat
  BY PotsSoundAfter DEF MoneyInv
<1>3. Balances(id)
  BY <1>1, ActPot
<1>4. escrow \in Nat /\ treasuryAccrued \in Nat /\ Total(validatorAccrued, Accounts) \in Nat
  BY <1>1, AccruedNat
<1>5. escrow' - escrow = (Held(id)' - Held(id)) + (treasuryAccrued - treasuryAccrued)
         + (Total(validatorAccrued, Accounts) - Total(validatorAccrued, Accounts))
  BY <1>3 DEF Balances
<1> QED
  BY <1>1, <1>2, <1>4, <1>5, DuesKept

LEMMA OthersWait ==
    ASSUME MoneyInv, NEW id \in TaskIds, ActsOn(id)
    PROVE  \A i \in TaskIds : i # id => PotOf(i) /\ Untouched(i)
BY PotsPerTask, OthersUntouched DEF MoneyInv, PotInv, RoleInv

LEMMA PromisePost ==
    ASSUME MoneyInv, MoneyInv', NEW job \in Jobs, CreateTask(job),
           NEW id \in TaskIds, id = nextTaskId
    PROVE  Promise!Post(id)
<1>0. ActsOn(id) /\ TypeOK /\ TaskShape
  BY DEF ActsOn, Posts, MoneyInv, PotInv, RoleInv
<1>1. tasks[id] = NoTask
  BY <1>0 DEF TaskShape, TypeOK, MarketTypeOK
<1>2. /\ tasks[id].state = "None" /\ tasks[id].outcome = "Unresolved"
      /\ tasks'[id].state = "Created" /\ tasks'[id].outcome = "Unresolved"
  BY <1>0, <1>1 DEF CreateTask, TypeOK, MarketTypeOK, NoTask
<1>3. job.reward \in Nat /\ job.reward > 0
  BY EnvironmentAssumption, ParamsAssumption DEF CreateTask
<1>4. escrow' = escrow + job.reward /\ UNCHANGED <<treasuryAccrued, validatorAccrued>>
  BY DEF CreateTask, books
<1>5. Held(id) \in Nat /\ Held(id)' = Held(id) + job.reward /\ dues' = dues
  BY <1>0, <1>3, <1>4, MarketDeposit
<1>6. \A i \in TaskIds : i # id => PotOf(i) /\ Untouched(i)
  BY <1>0, OthersWait
<1>7. /\ phases' = [phases EXCEPT ![id] = "Created"] /\ phases[id] = "None"
      /\ outcomes' = [outcomes EXCEPT ![id] = "Unresolved"] /\ outcomes[id] = "Unresolved"
      /\ pots' = [pots EXCEPT ![id] = pots'[id]] /\ pots'[id] = Held(id)' /\ pots[id] = Held(id)
  BY <1>2, <1>6, OneTaskMoves
<1>8. outcomes' = outcomes
  BY <1>7 DEF outcomes
<1>9. pots'[id] >= pots[id] /\ pots'[id] > 0
  BY <1>3, <1>5, <1>7
<1> QED
  BY <1>5, <1>7, <1>8, <1>9
     DEF Promise!Post, Promise!Move, Promise!Deposit, phases, outcomes, pots, dues

LEMMA PromiseAccept ==
    ASSUME MoneyInv, MoneyInv', NEW sender \in Accounts, NEW id \in TaskIds,
           NEW agent \in Agents, NEW stake \in Stakes,
           AcceptAndStake(sender, id, agent, stake)
    PROVE  Promise!Accept(id)
<1>0. ActsOn(id) /\ TypeOK /\ tasks[id] \in Task
  BY DEF ActsOn, Stands, MoneyInv, PotInv, RoleInv, TypeOK, MarketTypeOK
<1>1. tasks'[id] = [tasks[id] EXCEPT !.workerAgentId = agent, !.workerWallet = sender,
                        !.selfStake = stake, !.betCutoff = now + BETTING_WINDOW,
                        !.pool = [tasks[id].pool EXCEPT !["Yes"] = stake], !.state = "Open"]
  BY <1>0 DEF AcceptAndStake, MayAccept, TypeOK, MarketTypeOK
<1>2. /\ tasks[id].state = "Created" /\ tasks'[id].state = "Open"
      /\ tasks'[id].outcome = tasks[id].outcome
  <2>1. tasks'[id].state = "Open" /\ tasks'[id].outcome = tasks[id].outcome
    BY <1>0, <1>1 DEF Task
  <2> QED
    BY <2>1 DEF AcceptAndStake, MayAccept
<1>3. /\ stake \in Nat /\ escrow' = escrow + stake
      /\ UNCHANGED <<treasuryAccrued, validatorAccrued>>
  BY EnvironmentAssumption DEF AcceptAndStake, MayAccept, books
<1>4. Held(id) \in Nat /\ Held(id)' = Held(id) + stake /\ dues' = dues
  BY <1>0, <1>3, MarketDeposit
<1>5. \A i \in TaskIds : i # id => PotOf(i) /\ Untouched(i)
  BY <1>0, OthersWait
<1>6. /\ phases' = [phases EXCEPT ![id] = "Open"] /\ phases[id] = "Created"
      /\ outcomes' = [outcomes EXCEPT ![id] = outcomes[id]]
      /\ pots' = [pots EXCEPT ![id] = pots'[id]] /\ pots'[id] = Held(id)' /\ pots[id] = Held(id)
  BY <1>2, <1>5, OneTaskMoves
<1>7. outcomes' = outcomes /\ pots'[id] >= pots[id]
  <2>1. outcomes' = outcomes
    BY <1>6 DEF outcomes
  <2> QED
    BY <1>3, <1>4, <1>6, <2>1
<1> QED
  BY <1>4, <1>6, <1>7
     DEF Promise!Accept, Promise!Move, Promise!Deposit, phases, outcomes, pots, dues

LEMMA PromiseBet ==
    ASSUME MoneyInv, MoneyInv', NEW sender \in Accounts, NEW id \in TaskIds,
           NEW agent \in Agents, NEW side \in Sides, NEW amount \in Bets,
           PlaceBet(sender, id, agent, side, amount)
    PROVE  Promise!Bet(id)
<1>0. ActsOn(id) /\ TypeOK /\ tasks[id] \in Task
  BY DEF ActsOn, Backs, MoneyInv, PotInv, RoleInv, TypeOK, MarketTypeOK
<1>1. tasks'[id] = [tasks[id] EXCEPT !.pool = [tasks[id].pool EXCEPT ![side] = @ + amount]]
  BY <1>0 DEF PlaceBet, MayBet, TypeOK, MarketTypeOK, Task
<1>2. /\ tasks[id].state = "Open" /\ tasks'[id].state = tasks[id].state
      /\ tasks'[id].outcome = tasks[id].outcome
  BY <1>0, <1>1 DEF PlaceBet, MayBet, Task
<1>3. /\ amount \in Nat /\ escrow' = escrow + amount
      /\ UNCHANGED <<treasuryAccrued, validatorAccrued>>
  BY EnvironmentAssumption DEF PlaceBet, MayBet, books
<1>4. Held(id) \in Nat /\ Held(id)' = Held(id) + amount /\ dues' = dues
  BY <1>0, <1>3, MarketDeposit
<1>5. \A i \in TaskIds : i # id => PotOf(i) /\ Untouched(i)
  BY <1>0, OthersWait
<1>6. /\ phases' = [phases EXCEPT ![id] = phases[id]] /\ phases[id] = "Open"
      /\ outcomes' = [outcomes EXCEPT ![id] = outcomes[id]]
      /\ pots' = [pots EXCEPT ![id] = pots'[id]] /\ pots'[id] = Held(id)' /\ pots[id] = Held(id)
  BY <1>2, <1>5, OneTaskMoves
<1>7. phases' = phases /\ outcomes' = outcomes /\ pots'[id] >= pots[id]
  <2>1. phases' = phases /\ outcomes' = outcomes
    BY <1>6 DEF phases, outcomes
  <2> QED
    BY <1>3, <1>4, <1>6, <2>1
<1> QED
  BY <1>4, <1>6, <1>7
     DEF Promise!Bet, Promise!Deposit, phases, outcomes, pots, dues

LEMMA PromiseDeliver ==
    ASSUME MoneyInv, MoneyInv', NEW sender \in Accounts, NEW id \in TaskIds,
           NEW hash \in Hashes, SubmitDelivery(sender, id, hash)
    PROVE  Promise!Deliver(id)
<1>0. ActsOn(id) /\ TypeOK /\ tasks[id] \in Task
  BY DEF ActsOn, Delivers, MoneyInv, PotInv, RoleInv, TypeOK, MarketTypeOK
<1>1. tasks'[id] = [tasks[id] EXCEPT !.deliveredAt = now, !.deliverableHash = hash,
                                     !.state = "Delivered"]
  BY <1>0 DEF SubmitDelivery, MayDeliver, TypeOK, MarketTypeOK
<1>2. /\ tasks[id].state = "Open" /\ tasks'[id].state = "Delivered"
      /\ tasks'[id].outcome = tasks[id].outcome
  <2>1. tasks'[id].state = "Delivered" /\ tasks'[id].outcome = tasks[id].outcome
    BY <1>0, <1>1 DEF Task
  <2> QED
    BY <2>1 DEF SubmitDelivery, MayDeliver
<1>3. escrow' = escrow /\ UNCHANGED <<treasuryAccrued, validatorAccrued>>
  BY DEF SubmitDelivery, MayDeliver, books
<1>4. Held(id)' = Held(id) /\ dues' = dues
  <2>1. escrow' = escrow + 0
    BY <1>0, <1>3, AccruedNat
  <2> QED
    BY <1>0, <1>3, <2>1, MarketDeposit
<1>5. \A i \in TaskIds : i # id => PotOf(i) /\ Untouched(i)
  BY <1>0, OthersWait
<1>6. /\ phases' = [phases EXCEPT ![id] = "Delivered"] /\ phases[id] = "Open"
      /\ outcomes' = [outcomes EXCEPT ![id] = outcomes[id]]
      /\ pots' = [pots EXCEPT ![id] = pots[id]]
  BY <1>2, <1>4, <1>5, OneTaskMoves
<1>7. outcomes' = outcomes /\ pots' = pots
  BY <1>6 DEF outcomes, pots
<1> QED
  BY <1>4, <1>6, <1>7 DEF Promise!Deliver, Promise!Move, phases, outcomes, pots, dues

LEMMA PromiseCancel ==
    ASSUME MoneyInv, MoneyInv', NEW id \in TaskIds, CancelUnaccepted(id)
    PROVE  Promise!Cancel(id)
<1>0. ActsOn(id) /\ TypeOK /\ tasks[id] \in Task
  BY DEF ActsOn, MoneyInv, PotInv, RoleInv, TypeOK, MarketTypeOK
<1>1. tasks'[id] = [tasks[id] EXCEPT !.state = "Cancelled"]
  BY <1>0 DEF CancelUnaccepted, TypeOK, MarketTypeOK
<1>2. /\ tasks[id].state = "Created" /\ tasks'[id].state = "Cancelled"
      /\ tasks'[id].outcome = tasks[id].outcome
  BY <1>0, <1>1 DEF CancelUnaccepted, Task
<1>3. escrow' = escrow /\ UNCHANGED <<treasuryAccrued, validatorAccrued>>
  BY DEF CancelUnaccepted
<1>4. Held(id)' = Held(id) /\ dues' = dues
  <2>1. escrow' = escrow + 0
    BY <1>0, <1>3, AccruedNat
  <2> QED
    BY <1>0, <1>3, <2>1, MarketDeposit
<1>5. \A i \in TaskIds : i # id => PotOf(i) /\ Untouched(i)
  BY <1>0, OthersWait
<1>6. /\ phases' = [phases EXCEPT ![id] = "Cancelled"] /\ phases[id] = "Created"
      /\ outcomes' = [outcomes EXCEPT ![id] = outcomes[id]]
      /\ pots' = [pots EXCEPT ![id] = pots[id]]
  BY <1>2, <1>4, <1>5, OneTaskMoves
<1>7. outcomes' = outcomes /\ pots' = pots
  BY <1>6 DEF outcomes, pots
<1> QED
  BY <1>4, <1>6, <1>7 DEF Promise!Cancel, Promise!Move, phases, outcomes, pots, dues

(* An undelivered task is settled by R1, which pays no validator.           *)
LEMMA RuleOfTheState ==
    ASSUME NEW id \in TaskIds, Settles(id)
    PROVE  \E outcome \in Sides, rule \in 1..5 :
              /\ Finalize(id, outcome, rule)
              /\ tasks[id].state \in {"Open", "Delivered"}
              /\ tasks[id].state = "Open" => rule = 1
<1> USE DEF Sides
<1>1. CASE SettleWithValidation(id)
  BY <1>1 DEF SettleWithValidation, MaySettle
<1>2. CASE SettleByTimeout(id)
  BY <1>2 DEF SettleByTimeout, Undelivered, Unanswered
<1>3. CASE \E a \in Accounts, approved \in BOOLEAN : Attest(a, id, approved)
  BY <1>3 DEF Attest
<1> QED
  BY <1>1, <1>2, <1>3 DEF Settles

LEMMA PromiseResolve ==
    ASSUME MoneyInv, MoneyInv', NEW id \in TaskIds, Settles(id)
    PROVE  Promise!Resolve(id)
<1>0. /\ ActsOn(id) /\ TypeOK /\ TypeOK' /\ TaskShape /\ PotOf(id) /\ tasks[id] \in Task
      /\ Held(id) \in Nat
  BY PotsPerTask, PotsSound DEF ActsOn, MoneyInv, PotInv, RoleInv, TypeOK, MarketTypeOK
<1>1. PICK outcome \in Sides, rule \in 1..5 :
         /\ Finalize(id, outcome, rule)
         /\ tasks[id].state \in {"Open", "Delivered"}
         /\ tasks[id].state = "Open" => rule = 1
  BY RuleOfTheState
<1> DEFINE t == tasks[id]
           fee == Fee(t.pool[Other(outcome)])
           toPayee == ValidatorFee(fee, rule)
           toTreasury == fee - toPayee
           wallet == t.validatorWallet
<1>2. wallet \in Accounts /\ wallet # NoAccount
  BY <1>0, <1>1, EnvironmentAssumption DEF TaskShape
<1>3. tasks'[id] = [t EXCEPT !.state = "Settled", !.outcome = outcome]
  BY <1>0, <1>1 DEF Finalize, TypeOK, MarketTypeOK
<1>4. tasks'[id].state = "Settled" /\ tasks'[id].outcome = outcome /\ t.outcome = "Unresolved"
  <2>1. tasks'[id].state = "Settled" /\ tasks'[id].outcome = outcome
    BY <1>0, <1>3 DEF Task
  <2> QED
    BY <1>1, <2>1 DEF Finalize
<1>5. t.pool[Other(outcome)] \in Nat /\ t.pool[outcome] \in Nat /\ t.reward \in Nat
        /\ Pot(t) = t.pool[outcome] + t.pool[Other(outcome)] + t.reward
  BY <1>0 DEF Task, Other, Sides, Pot
<1>6. fee \in Nat /\ fee <= Pot(t) /\ toPayee \in 0..fee
  <2>1. fee \in 0..t.pool[Other(outcome)]
    BY <1>5, DistributableBound
  <2>2. fee \in Nat /\ fee <= Pot(t)
    <3> HIDE DEF fee, t
    <3> QED
      BY <1>5, <2>1
  <2> QED
    BY <2>2, BpsBound, ParamsAssumption DEF ValidatorFee
<1>7. /\ treasuryAccrued' = treasuryAccrued + toTreasury
      /\ validatorAccrued' = [validatorAccrued EXCEPT ![wallet] = @ + toPayee]
      /\ escrow' = escrow
  BY <1>1 DEF Finalize, TreasuryFee
<1>8. t.state = "Open" => toPayee = 0
  BY <1>1 DEF ValidatorFee
<1>9. Held(id) = Pot(t)
  <2>1. /\ claimed[id] = {} /\ ~dustSwept[id] /\ t.state \notin Terminal
        /\ claimedTotal[id] = Total(ClaimedOf(id), Accounts)
    BY <1>0, <1>1 DEF PotOf, Terminal
  <2>2. \A a \in Accounts : ClaimedOf(id)[a] = 0
    BY <2>1 DEF ClaimedOf
  <2>3. Total(ClaimedOf(id), Accounts) = 0
    BY <2>2, TotalZero
  <2>4. Pot(t) \in Nat
    BY <1>0, TaskNumbers
  <2> QED
    BY <2>1, <2>3, <2>4 DEF Held, Terminal
<1> HIDE DEF fee, toPayee, wallet, t
<1>10. Held(id)' = Held(id) - toTreasury - toPayee
  <2>1. Balances(id)
    BY <1>0, ActPot
  <2>2. validatorAccrued \in [Accounts -> Nat] /\ toPayee \in Nat
    BY <1>0, <1>6 DEF TypeOK, BooksTypeOK
  <2>3. Total(validatorAccrued', Accounts) = Total(validatorAccrued, Accounts) + toPayee
    <3>1. /\ validatorAccrued'[wallet] = validatorAccrued[wallet] + toPayee
          /\ \A a \in Accounts \ {wallet} : validatorAccrued'[a] = validatorAccrued[a]
      BY <1>2, <1>7, <2>2
    <3> QED
      BY <1>2, <2>2, <3>1, PaidOnTop
  <2>4. escrow \in Nat /\ treasuryAccrued \in Nat /\ Total(validatorAccrued, Accounts) \in Nat
    BY <1>0, AccruedNat
  <2>5. Held(id)' \in Nat
    BY PotsSoundAfter DEF MoneyInv
  <2>6. escrow' - escrow = (Held(id)' - Held(id)) + (treasuryAccrued' - treasuryAccrued)
           + (Total(validatorAccrued', Accounts) - Total(validatorAccrued, Accounts))
    BY <2>1 DEF Balances
  <2> QED
    BY <1>0, <1>6, <1>7, <2>2, <2>3, <2>4, <2>5, <2>6
<1>11. \A i \in TaskIds : i # id => PotOf(i) /\ Untouched(i)
  BY <1>0, OthersWait
<1>12. /\ phases' = [phases EXCEPT ![id] = "Settled"] /\ phases[id] \in {"Open", "Delivered"}
       /\ outcomes' = [outcomes EXCEPT ![id] = outcome] /\ outcomes[id] = "Unresolved"
       /\ pots' = [pots EXCEPT ![id] = pots[id] - toTreasury - toPayee]
       /\ pots[id] = Held(id) /\ phases[id] = t.state
  BY <1>1, <1>4, <1>10, <1>11, OneTaskMoves DEF t
<1>13. /\ toTreasury \in 0..pots[id] /\ toPayee \in 0..pots[id]
       /\ toTreasury + toPayee <= pots[id]
  <2>1. pots[id] \in Nat /\ fee \in Nat /\ fee <= pots[id] /\ toPayee \in 0..fee
    BY <1>0, <1>6, <1>9, <1>12
  <2> QED
    BY <2>1
<1>14. dues' = [dues EXCEPT ![NoAccount] = @ + toTreasury, ![wallet] = @ + toPayee]
  <2>1. validatorAccrued \in [Accounts -> Nat]
    BY <1>0 DEF TypeOK, BooksTypeOK
  <2> HIDE DEF toTreasury
  <2> QED
    BY <1>2, <1>7, <2>1, EnvironmentAssumption DEF dues
<1>15. wallet \in (Accounts \cup {NoAccount}) \ {NoAccount}
  BY <1>2
<1>16. \E o \in {"Yes", "No"} : outcomes' = [outcomes EXCEPT ![id] = o]
  BY <1>1, <1>12 DEF Sides
<1>17. \/ phases[id] = "Open" /\ phases' = [phases EXCEPT ![id] = "Settled"]
       \/ phases[id] = "Delivered" /\ phases' = [phases EXCEPT ![id] = "Settled"]
  BY <1>12
<1> HIDE DEF toTreasury
<1>18. \E x \in 0..pots[id], y \in 0..pots[id], p \in (Accounts \cup {NoAccount}) \ {NoAccount} :
          /\ x + y <= pots[id]
          /\ phases[id] = "Open" => y = 0
          /\ pots' = [pots EXCEPT ![id] = @ - x - y]
          /\ dues' = [dues EXCEPT ![NoAccount] = @ + x, ![p] = @ + y]
  BY <1>8, <1>12, <1>13, <1>14, <1>15
<1> QED
  BY <1>12, <1>16, <1>17, <1>18
     DEF Promise!Resolve, Promise!Move, phases, outcomes, pots, dues

LEMMA PromisePay ==
    ASSUME MoneyInv, MoneyInv', NEW sender \in Accounts, NEW id \in TaskIds, Claim(sender, id)
    PROVE  Promise!Pay(id)
<1> DEFINE amount == Entitlement(id, sender)
<1>0. /\ ActsOn(id) /\ TypeOK /\ TaskShape /\ PotOf(id) /\ Held(id) \in Nat
      /\ Held(id)' \in Nat
  BY PotsPerTask, PotsSound, PotsSoundAfter DEF ActsOn, Pays, MoneyInv, PotInv, RoleInv
<1>1. /\ tasks' = tasks /\ tasks[id].state \in {"Settled", "Cancelled"} /\ amount > 0
      /\ UNCHANGED <<treasuryAccrued, validatorAccrued>>
  BY DEF Claim, MayClaim, ClaimOpen, market
<1>2. amount \in Nat /\ Held(id)' = Held(id) - amount
  BY <1>0, ClaimPot, EntitlementNat
<1> HIDE DEF amount
<1>3. amount \in 1..Held(id)
  BY <1>0, <1>1, <1>2
<1>4. \A i \in TaskIds : i # id => PotOf(i) /\ Untouched(i)
  BY <1>0, OthersWait
<1>5. /\ phases' = phases /\ outcomes' = outcomes /\ dues' = dues
      /\ phases[id] \in {"Settled", "Cancelled"}
  BY <1>1, DuesKept DEF phases, outcomes
<1>6. pots' = [pots EXCEPT ![id] = pots[id] - amount] /\ amount \in 1..pots[id]
  BY <1>2, <1>3, <1>4, OneTaskMoves
<1> QED
  BY <1>5, <1>6 DEF Promise!Pay, phases, outcomes, pots, dues

LEMMA PromiseSweep ==
    ASSUME MoneyInv, NEW id \in TaskIds, SweepDust(id)
    PROVE  Promise!Sweep(id)
<1>0. /\ ActsOn(id) /\ TypeOK /\ TaskShape /\ PotOf(id)
  BY PotsPerTask DEF ActsOn, Pays, MoneyInv, PotInv, RoleInv
<1>1. tasks' = tasks /\ tasks[id].state = "Settled" /\ validatorAccrued' = validatorAccrued
  BY DEF SweepDust, market
<1>2. Held(id)' = 0 /\ treasuryAccrued' = treasuryAccrued + Held(id)
  BY <1>0, SweepPot
<1>3. \A i \in TaskIds : i # id => PotOf(i) /\ Untouched(i)
  BY <1>0, OthersWait
<1>4. phases' = phases /\ outcomes' = outcomes /\ phases[id] = "Settled"
  BY <1>1 DEF phases, outcomes
<1>5. pots' = [pots EXCEPT ![id] = 0] /\ pots[id] = Held(id)
  BY <1>2, <1>3, OneTaskMoves
<1>6. dues' = [dues EXCEPT ![NoAccount] = @ + pots[id]]
  <2>1. treasuryAccrued' = treasuryAccrued + pots[id]
    BY <1>2, <1>5
  <2> QED
    BY <1>1, <2>1 DEF dues
<1> QED
  BY <1>4, <1>5, <1>6 DEF Promise!Sweep, phases, outcomes, pots, dues

(* Without an action on a task, no pot changes.                             *)
LEMMA PotsIdle ==
    ASSUME MoneyInv, Idles
    PROVE  phases' = phases /\ outcomes' = outcomes /\ pots' = pots
<1>1. \A i \in TaskIds : PotOf(i) /\ Untouched(i)
  BY PotsPerTask, IdleUntouched DEF MoneyInv, PotInv
<1>2. \A i \in TaskIds : tasks'[i] = tasks[i] /\ Held(i)' = Held(i)
  BY <1>1, UntouchedKeeps DEF Untouched
<1> QED
  BY <1>2 DEF phases, outcomes, pots

LEMMA PromiseIdle ==
    ASSUME MoneyInv, Idles
    PROVE  (\E p \in Accounts \cup {NoAccount} : Promise!Withdraw(p))
              \/ UNCHANGED Promise!vars
<1>0. /\ phases' = phases /\ outcomes' = outcomes /\ pots' = pots
      /\ validatorAccrued \in [Accounts -> Nat]
  BY PotsIdle DEF MoneyInv, PotInv, RoleInv, TypeOK, BooksTypeOK
<1>1. ASSUME NEW a \in Accounts, WithdrawTreasury(a)
      PROVE  Promise!Withdraw(NoAccount)
  <2>1. /\ treasuryAccrued > 0 /\ treasuryAccrued' = 0
        /\ validatorAccrued' = validatorAccrued
    BY <1>1 DEF WithdrawTreasury
  <2>2. dues[NoAccount] > 0 /\ dues' = [dues EXCEPT ![NoAccount] = 0]
    BY <2>1 DEF dues
  <2> QED
    BY <1>0, <2>2 DEF Promise!Withdraw, phases, outcomes, pots, dues
<1>2. ASSUME NEW a \in Accounts, WithdrawValidatorFees(a)
      PROVE  Promise!Withdraw(a)
  <2>1. /\ validatorAccrued[a] > 0 /\ treasuryAccrued' = treasuryAccrued
        /\ validatorAccrued' = [validatorAccrued EXCEPT ![a] = 0]
    BY <1>2 DEF WithdrawValidatorFees, MayWithdraw
  <2>2. a # NoAccount
    BY EnvironmentAssumption
  <2>3. dues[a] > 0 /\ dues' = [dues EXCEPT ![a] = 0]
    BY <1>0, <2>1, <2>2 DEF dues
  <2> QED
    BY <1>0, <2>3 DEF Promise!Withdraw, phases, outcomes, pots, dues
<1>3. ASSUME UNCHANGED <<treasuryAccrued, validatorAccrued>>
      PROVE  UNCHANGED Promise!vars
  <2>1. dues' = dues
    BY <1>3, DuesKept
  <2> QED
    BY <1>0, <2>1 DEF Promise!vars, phases, outcomes, pots, dues
<1>4. CASE Answers
  BY <1>3, <1>4 DEF Answers, FileRequest, Respond, IdentityChange, books
<1>5. CASE Waits
  BY <1>3, <1>5 DEF Waits, Tick, SetPaused, books
<1>6. CASE UNCHANGED vars
  BY <1>3, <1>6 DEF vars, books
<1> QED
  BY <1>1, <1>2, <1>4, <1>5, <1>6 DEF Idles, Collects

LEMMA PromiseStep ==
    ASSUME MoneyInv, MoneyInv', Step
    PROVE  [Promise!Next]_(Promise!vars)
<1>1. TypeOK
  BY DEF MoneyInv, PotInv, RoleInv
<1>2. CASE Idles
  BY <1>2, PromiseIdle DEF Promise!Next
<1>3. ASSUME NEW id \in TaskIds, ActsOn(id)
      PROVE  \/ Promise!Post(id) \/ Promise!Accept(id) \/ Promise!Bet(id)
             \/ Promise!Deliver(id) \/ Promise!Cancel(id) \/ Promise!Resolve(id)
             \/ Promise!Pay(id) \/ Promise!Sweep(id)
  <2>1. CASE Posts /\ id = nextTaskId
    BY <2>1, PromisePost DEF Posts
  <2>2. CASE Stands(id)
    BY <2>2, PromiseAccept DEF Stands
  <2>3. CASE Backs(id)
    BY <2>3, PromiseBet DEF Backs
  <2>4. CASE Delivers(id)
    BY <2>4, PromiseDeliver DEF Delivers
  <2>5. CASE CancelUnaccepted(id)
    BY <2>5, PromiseCancel
  <2>6. CASE Settles(id)
    BY <2>6, PromiseResolve
  <2>7. CASE Pays(id)
    BY <2>7, PromisePay, PromiseSweep DEF Pays
  <2> QED
    BY <1>3, <2>1, <2>2, <2>3, <2>4, <2>5, <2>6, <2>7 DEF ActsOn
<1> QED
  BY <1>1, <1>2, <1>3, ActCases DEF Promise!Next

(* The contract keeps PotEscrow's promise for all parameters, accounts and  *)
(* histories: a task's pot is fed only while it trades, pays only once its  *)
(* one outcome is final, never pays for another task, and a fee is taken    *)
(* once, at the outcome, for the treasury and at most one validator.        *)
THEOREM KeepsThePromise == Spec => ImplementsPotEscrow
<1>1. MoneyInv /\ MoneyInv' /\ [Next]_vars => [Promise!Next]_(Promise!vars)
  BY StepCases, PromiseStep
<1> QED
  BY <1>1, PromiseInit, MoneyInvariance, PTL DEF Spec, ImplementsPotEscrow, Promise!Spec

-----------------------------------------------------------------------------
(* The counters a sweep goes by.  _bettorCount counts the positions and    *)
(* _pendingClaims the accounts that can still claim, so a sweep before the *)
(* 30 days meets a pot that owes nothing.  Both need that no stake and no  *)
(* bet is zero (PositiveStakes), which the contract leaves to its          *)
(* deployment.                                                             *)

Bettors(id, side) == {a \in Accounts : positions[id][a][side] > 0}

Claimable(id) == {a \in Accounts : PreviewPayout(id, a) > 0}

\* StakePositive, BettorsCounted and PendingClaimsExact, for one task.
BooksOf(id) ==
    /\ tasks[id].state \in {"Open", "Delivered", "Settled"} => tasks[id].selfStake > 0
    /\ \A side \in Sides : bettorCount[id][side] = Cardinality(Bettors(id, side))
    /\ tasks[id].state \in Terminal /\ ~dustSwept[id] =>
          pendingClaims[id] = Cardinality(Claimable(id))

LEMMA BooksPerTask ==
    StakePositive /\ BettorsCounted /\ PendingClaimsExact
       <=> \A id \in TaskIds : BooksOf(id)
BY DEF StakePositive, BettorsCounted, PendingClaimsExact, BooksOf, Bettors, Claimable

LEMMA SomeFinite ==
    ASSUME NEW S \in SUBSET Accounts
    PROVE  IsFiniteSet(S) /\ Cardinality(S) \in Nat
BY AccountsFinite, FS_Subset, FS_CardinalityType

LEMMA UntouchedBooks ==
    ASSUME NEW i, BooksOf(i), Untouched(i)
    PROVE  BooksOf(i)'
<1>1. \A a \in Accounts : PreviewPayout(i, a)' = PreviewPayout(i, a)
  BY DEF Untouched, PreviewPayout, ClaimOpen, Entitlement
<1>2. Claimable(i)' = Claimable(i)
  BY <1>1 DEF Claimable
<1>3. \A side \in Sides : Bettors(i, side)' = Bettors(i, side)
  BY DEF Untouched, Bettors
<1> QED
  BY <1>2, <1>3 DEF Untouched, BooksOf

LEMMA CreateBooks ==
    ASSUME TypeOK, TaskShape, NEW job \in Jobs, CreateTask(job),
           NEW id \in TaskIds, id = nextTaskId, BooksOf(id)
    PROVE  BooksOf(id)'
<1>1. tasks'[id].state = "Created" /\ UNCHANGED <<positions, bettorCount>>
  BY DEF CreateTask, TypeOK, MarketTypeOK, NoTask
<1>2. \A side \in Sides : Bettors(id, side)' = Bettors(id, side)
  BY <1>1 DEF Bettors
<1> QED
  BY <1>1, <1>2 DEF BooksOf, Terminal

(* A percentage of more is not less.                                        *)
LEMMA BpsGrows ==
    ASSUME NEW a \in Nat, NEW b \in Nat, a <= b, NEW rate \in Nat
    PROVE  Bps(a, rate) <= Bps(b, rate)
<1> DEFINE x == a * rate  y == b * rate
<1>1. x \in Nat /\ y \in Nat /\ x <= y
  <2>1. b = a + (b - a) /\ b - a \in Nat
    OBVIOUS
  <2>2. b * rate = a * rate + (b - a) * rate /\ (b - a) * rate \in Nat
    BY <2>1
  <2> QED
    BY <2>2
<1>2. \A m, n \in Nat : m <= n => m \div 10000 <= n \div 10000
  OBVIOUS
<1> HIDE DEF x, y
<1>3. x \div 10000 <= y \div 10000
  BY <1>1, <1>2
<1> QED
  BY <1>3 DEF Bps, BPS, x, y

LEMMA AcceptBooks ==
    ASSUME PositiveStakes, TypeOK, TaskShape, NEW sender \in Accounts, NEW id \in TaskIds,
           NEW agent \in Agents, NEW stake \in Stakes,
           AcceptAndStake(sender, id, agent, stake), PotOf(id), BooksOf(id)
    PROVE  BooksOf(id)'
<1> DEFINE t == tasks[id]  u == tasks'[id]
<1>1. t \in Task /\ stake \in Nat /\ t.state = "Created" /\ stake >= MinSelfStake(t.reward)
  BY EnvironmentAssumption DEF AcceptAndStake, MayAccept, TypeOK, MarketTypeOK
<1>2. u = [t EXCEPT !.workerAgentId = agent, !.workerWallet = sender,
                    !.selfStake = stake, !.betCutoff = now + BETTING_WINDOW,
                    !.pool = [t.pool EXCEPT !["Yes"] = stake], !.state = "Open"]
  BY DEF AcceptAndStake, MayAccept, TypeOK, MarketTypeOK
<1>3. u.selfStake = stake /\ u.state = "Open"
  BY <1>1, <1>2 DEF Task
<1>4. stake > 0
  <2>1. t.reward >= MIN_REWARD /\ t.reward \in Nat
    BY <1>1 DEF PotOf, Task
  <2>2. /\ MIN_REWARD \in Nat /\ MIN_SELF_STAKE_BPS \in 0..10000
        /\ MIN_SELF_STAKE_BPS \in Nat /\ MIN_SELF_STAKE_BPS \in 0..BPS
    <3>1. MIN_REWARD \in Nat /\ MIN_SELF_STAKE_BPS \in 0..BPS
      BY ParamsAssumption
    <3> QED
      BY <3>1 DEF BPS
  <2>3. MinSelfStake(MIN_REWARD) <= MinSelfStake(t.reward)
    BY <2>1, <2>2, BpsGrows DEF MinSelfStake
  <2>4. MinSelfStake(MIN_REWARD) \in Int /\ MinSelfStake(t.reward) \in Int
    BY <2>1, <2>2, BpsBound DEF MinSelfStake
  <2>5. stake >= MinSelfStake(MIN_REWARD)
    BY <1>1, <2>3, <2>4
  <2> QED
    BY <2>5 DEF PositiveStakes
<1>5. \A a \in Accounts, side \in Sides :
         positions'[id][a][side] = IF a = sender /\ side = "Yes" THEN stake ELSE 0
  BY <1>1, NoPositionYet DEF AcceptAndStake, MayAccept, TypeOK, MarketTypeOK
<1>6. "Yes" \in Sides /\ "No" \in Sides /\ \A side \in Sides : side \in {"Yes", "No"}
  BY DEF Sides
<1>7. Bettors(id, "Yes")' = {sender} /\ Bettors(id, "No")' = {} /\ Bettors(id, "No") = {}
  BY <1>1, <1>4, <1>5, <1>6, NoPositionYet DEF Bettors
<1>8. bettorCount'[id]["Yes"] = 1 /\ bettorCount'[id]["No"] = bettorCount[id]["No"]
  BY <1>6 DEF AcceptAndStake, MayAccept, TypeOK, MarketTypeOK
<1>9. \A side \in Sides : bettorCount'[id][side] = Cardinality(Bettors(id, side)')
  <2>1. Cardinality(Bettors(id, "Yes")') = 1
    BY <1>7, FS_Singleton
  <2>2. bettorCount'[id]["No"] = Cardinality(Bettors(id, "No")')
    BY <1>6, <1>7, <1>8 DEF BooksOf
  <2> TAKE side \in Sides
  <2> QED
    BY <1>6, <1>8, <2>1, <2>2
<1> HIDE DEF t, u
<1> QED
  BY <1>3, <1>4, <1>9 DEF BooksOf, Terminal, u

LEMMA BetBooks ==
    ASSUME PositiveStakes, TypeOK, NEW sender \in Accounts, NEW id \in TaskIds,
           NEW agent \in Agents, NEW side \in Sides, NEW amount \in Bets,
           PlaceBet(sender, id, agent, side, amount), BooksOf(id)
    PROVE  BooksOf(id)'
<1> DEFINE t == tasks[id]  u == tasks'[id]
<1>1. t \in Task /\ amount \in Nat /\ t.state = "Open" /\ amount > 0
  BY EnvironmentAssumption DEF PlaceBet, MayBet, PositiveStakes, TypeOK, MarketTypeOK
<1>2. u = [t EXCEPT !.pool = [t.pool EXCEPT ![side] = @ + amount]]
  BY <1>1 DEF PlaceBet, MayBet, TypeOK, MarketTypeOK, Task
<1>3. u.selfStake = t.selfStake /\ u.state = "Open"
  BY <1>1, <1>2 DEF Task
<1>4. \A a \in Accounts, s \in Sides :
         /\ positions[id][a][s] \in Nat
         /\ positions'[id][a][s] = IF a = sender /\ s = side
                                   THEN positions[id][a][s] + amount
                                   ELSE positions[id][a][s]
  BY DEF PlaceBet, MayBet, TypeOK, MarketTypeOK
<1>5. \A s \in Sides : bettorCount[id][s] = Cardinality(Bettors(id, s))
  BY DEF BooksOf
<1>6. \A s \in Sides : bettorCount'[id][s] = IF s = side THEN BettorsWith(sender, id, side)
                                             ELSE bettorCount[id][s]
  BY DEF PlaceBet, MayBet, TypeOK, MarketTypeOK
<1>7. \A s \in Sides : bettorCount'[id][s] = Cardinality(Bettors(id, s)')
  <2> TAKE s \in Sides
  <2>0. Bettors(id, s) \in SUBSET Accounts
    BY DEF Bettors
  <2>1. CASE s # side
    <3>1. Bettors(id, s)' = Bettors(id, s)
      BY <1>4, <2>1 DEF Bettors
    <3> QED
      BY <1>5, <1>6, <2>1, <3>1
  <2>2. CASE s = side /\ positions[id][sender][side] = 0
    <3>1. Bettors(id, s)' = Bettors(id, s) \cup {sender} /\ sender \notin Bettors(id, s)
      BY <1>1, <1>4, <2>2 DEF Bettors
    <3>2. Cardinality(Bettors(id, s) \cup {sender}) = Cardinality(Bettors(id, s)) + 1
      BY <2>0, <3>1, SomeFinite, FS_AddElement
    <3> QED
      BY <1>5, <1>6, <2>2, <3>1, <3>2 DEF BettorsWith
  <2>3. CASE s = side /\ positions[id][sender][side] # 0
    <3>1. Bettors(id, s)' = Bettors(id, s)
      BY <1>1, <1>4, <2>3 DEF Bettors
    <3>2. bettorCount[id][s] + 0 = bettorCount[id][s]
      BY <1>5, <2>0, SomeFinite
    <3> QED
      BY <1>5, <1>6, <2>3, <3>1, <3>2 DEF BettorsWith
  <2> QED
    BY <2>1, <2>2, <2>3
<1> HIDE DEF t, u
<1> QED
  BY <1>1, <1>3, <1>7 DEF BooksOf, Terminal, t, u

LEMMA DeliverBooks ==
    ASSUME TypeOK, NEW sender \in Accounts, NEW id \in TaskIds,
           NEW hash \in Hashes, SubmitDelivery(sender, id, hash), BooksOf(id)
    PROVE  BooksOf(id)'
<1> DEFINE t == tasks[id]  u == tasks'[id]
<1>1. t \in Task /\ t.state = "Open" /\ UNCHANGED <<positions, bettorCount>>
  BY DEF SubmitDelivery, MayDeliver, TypeOK, MarketTypeOK
<1>2. u = [t EXCEPT !.deliveredAt = now, !.deliverableHash = hash, !.state = "Delivered"]
  BY DEF SubmitDelivery, MayDeliver, TypeOK, MarketTypeOK
<1>3. u.selfStake = t.selfStake /\ u.state = "Delivered"
  BY <1>1, <1>2 DEF Task
<1>4. \A side \in Sides : Bettors(id, side)' = Bettors(id, side)
  BY <1>1 DEF Bettors
<1> HIDE DEF t, u
<1> QED
  BY <1>1, <1>3, <1>4 DEF BooksOf, Terminal, t, u

LEMMA CancelBooks ==
    ASSUME TypeOK, TaskShape, NEW id \in TaskIds, CancelUnaccepted(id), PotOf(id), BooksOf(id)
    PROVE  BooksOf(id)'
<1> DEFINE t == tasks[id]  u == tasks'[id]
<1>1. t \in Task /\ t.state = "Created"
  BY DEF CancelUnaccepted, TypeOK, MarketTypeOK
<1>2. u = [t EXCEPT !.state = "Cancelled"]
  BY DEF CancelUnaccepted, TypeOK, MarketTypeOK
<1>3. /\ u.client = t.client /\ u.reward = t.reward /\ u.state = "Cancelled"
      /\ u.outcome = t.outcome
  BY <1>1, <1>2 DEF Task
<1>4. UNCHANGED <<positions, bettorCount, claimed, dustSwept>>
  BY DEF CancelUnaccepted
<1>5. /\ t.client \in Accounts /\ t.reward \in Nat /\ t.reward > 0
      /\ claimed[id] = {} /\ ~dustSwept[id]
  BY <1>1, ParamsAssumption DEF PotOf, Task, Terminal
<1>6. \A a \in Accounts : positions[id][a]["Yes"] = 0 /\ positions[id][a]["No"] = 0
  BY <1>1, NoPositionYet DEF Sides
<1>7. \A a \in Accounts : PreviewPayout(id, a)' = IF a = t.client THEN t.reward ELSE 0
  <2> TAKE a \in Accounts
  <2>1. ClaimOpen(a, id)'
    BY <1>3, <1>4, <1>5 DEF ClaimOpen
  <2>2. Entitlement(id, a)' = (IF a = t.client THEN t.reward ELSE 0)
                                + positions[id][a]["Yes"] + positions[id][a]["No"]
    <3>1. u.outcome \notin {"Yes", "No"}
      BY <1>1, <1>3 DEF PotOf, Sides
    <3> QED
      BY <1>3, <1>4, <3>1 DEF Entitlement
  <2> QED
    BY <1>5, <1>6, <2>1, <2>2 DEF PreviewPayout
<1>8. Claimable(id)' = {t.client}
  BY <1>5, <1>7 DEF Claimable
<1>9. Cardinality(Claimable(id)') = 1
  BY <1>8, FS_Singleton
<1>10. pendingClaims'[id] = 1
  BY DEF CancelUnaccepted, TypeOK, BooksTypeOK
<1>11. \A side \in Sides : Bettors(id, side)' = Bettors(id, side)
  BY <1>4 DEF Bettors
<1> HIDE DEF t, u
<1> QED
  BY <1>3, <1>4, <1>9, <1>10, <1>11 DEF BooksOf, u

(* A payout is something exactly for those who have a position.             *)
LEMMA PayoutSign ==
    ASSUME NEW w \in Nat, NEW losing \in Nat, NEW winning \in Nat, w <= winning
    PROVE  /\ WinnerPayout(w, losing, winning) \in Nat
           /\ WinnerPayout(w, losing, winning) > 0 <=> w > 0
<1>1. CASE w = 0
  BY <1>1 DEF WinnerPayout
<1>2. CASE w > 0
  <2>1. w * Distributable(losing) \in Nat
    BY DistributableBound
  <2>2. (w * Distributable(losing)) \div winning \in Nat
    BY <1>2, <2>1, FloorNat
  <2> QED
    BY <1>2, <2>2 DEF WinnerPayout
<1> QED
  BY <1>1, <1>2

(* A settlement waits for the winning bettors, and for the client after NO: *)
(* the worker is among the YES bettors, the client is no NO bettor.         *)
LEMMA SettleBooks ==
    ASSUME RoleInv, NEW id \in TaskIds, PotOf(id), BooksOf(id),
           tasks[id].state \in {"Open", "Delivered"},
           NEW outcome \in Sides, NEW rule \in 1..5, Finalize(id, outcome, rule)
    PROVE  BooksOf(id)'
<1> USE DEF RoleInv
<1> DEFINE t == tasks[id]  u == tasks'[id]
           w(a) == positions[id][a][outcome]
           other == Other(outcome)
           payout(a) == WinnerPayout(w(a), t.pool[other], t.pool[outcome])
<1>1. t \in Task /\ other \in Sides /\ outcome \in {"Yes", "No"}
  BY DEF Other, Sides, TypeOK, MarketTypeOK
<1>2. u = [t EXCEPT !.state = "Settled", !.outcome = outcome]
  BY <1>1 DEF Finalize, TypeOK, MarketTypeOK
<1>3. /\ u.client = t.client /\ u.reward = t.reward /\ u.state = "Settled"
      /\ u.outcome = outcome /\ u.pool = t.pool
      /\ u.workerWallet = t.workerWallet /\ u.selfStake = t.selfStake
  BY <1>1, <1>2 DEF Task
<1>4. UNCHANGED <<positions, bettorCount, claimed, dustSwept>>
  BY DEF Finalize
<1>5. /\ t.client \in Accounts /\ t.reward \in Nat /\ t.reward > 0
      /\ claimed[id] = {} /\ ~dustSwept[id]
  BY <1>1, ParamsAssumption DEF PotOf, Task, Terminal
<1>6. /\ t.workerWallet \in Accounts /\ t.selfStake \in Nat /\ t.selfStake > 0
      /\ t.selfStake <= positions[id][t.workerWallet]["Yes"]
  BY <1>1 DEF StakeKept, BooksOf, Task
<1>7. ASSUME NEW a \in Accounts
      PROVE  w(a) \in Nat /\ payout(a) \in Nat /\ (payout(a) > 0 <=> w(a) > 0)
  <2>1. w(a) \in Nat /\ w(a) <= t.pool[outcome]
    BY DEF TaskShape, TypeOK, MarketTypeOK
  <2>2. t.pool[outcome] \in Nat /\ t.pool[other] \in Nat
    BY <1>1 DEF Task
  <2> HIDE DEF w, t, other
  <2> QED
    BY <2>1, <2>2, PayoutSign DEF payout
<1>8. \A side \in Sides : Bettors(id, side)' = Bettors(id, side)
  BY <1>4 DEF Bettors
<1>9. Bettors(id, outcome) = {a \in Accounts : w(a) > 0}
  BY DEF Bettors
<1>10. pendingClaims'[id] = bettorCount[id][outcome] + (IF outcome = "No" THEN 1 ELSE 0)
  BY DEF Finalize, Claimants, TypeOK, BooksTypeOK
<1>11. bettorCount[id][outcome] = Cardinality(Bettors(id, outcome))
  BY DEF BooksOf
<1>12. Bettors(id, outcome) \in SUBSET Accounts
  BY DEF Bettors
<1>13. \A a \in Accounts : PreviewPayout(id, a)' = Entitlement(id, a)'
  BY <1>3, <1>4, <1>5 DEF PreviewPayout, ClaimOpen
<1>14. CASE outcome = "Yes"
  <2>1. \A a \in Accounts : Entitlement(id, a)'
           = payout(a) + (IF a = t.workerWallet THEN t.reward ELSE 0)
    BY <1>3, <1>4, <1>14 DEF Entitlement, Other
  <2>2. w(t.workerWallet) > 0
    BY <1>6, <1>7, <1>14
  <2>3. \A a \in Accounts : PreviewPayout(id, a)' > 0 <=> w(a) > 0
    <3> HIDE DEF w, payout
    <3> QED
      BY <1>5, <1>7, <1>13, <2>1, <2>2
  <2>4. Claimable(id)' = Bettors(id, outcome)
    BY <1>9, <2>3 DEF Claimable
  <2>5. pendingClaims'[id] = Cardinality(Bettors(id, outcome))
    BY <1>10, <1>11, <1>12, <1>14, SomeFinite
  <2> HIDE DEF t, u
  <2> QED
    BY <1>3, <1>4, <1>6, <1>8, <2>4, <2>5 DEF BooksOf, u
<1>15. CASE outcome = "No"
  <2> DEFINE refund == t.reward
                 + (IF t.pool["No"] = 0 THEN Distributable(t.pool["Yes"]) ELSE 0)
  <2>1. \A a \in Accounts : Entitlement(id, a)'
           = payout(a) + (IF a = t.client THEN refund ELSE 0)
    BY <1>3, <1>4, <1>15 DEF Entitlement, Other
  <2>2. refund \in Nat /\ refund > 0
    <3>1. Distributable(t.pool["Yes"]) \in Nat
      <4>1. t.pool["Yes"] \in Nat
        BY <1>1 DEF Task, Sides
      <4> QED
        BY <4>1, DistributableBound
    <3> QED
      BY <1>5, <3>1
  <2>3. w(t.client) = 0
    BY <1>5, <1>15 DEF RolesKeepTheirSide, Sides
  <2>4. \A a \in Accounts : PreviewPayout(id, a)' > 0 <=> w(a) > 0 \/ a = t.client
    <3> HIDE DEF w, payout, refund
    <3> QED
      BY <1>7, <1>13, <2>1, <2>2
  <2>5. /\ Claimable(id)' = Bettors(id, outcome) \cup {t.client}
        /\ t.client \notin Bettors(id, outcome)
    BY <1>5, <1>9, <2>3, <2>4 DEF Claimable
  <2>6. Cardinality(Claimable(id)') = Cardinality(Bettors(id, outcome)) + 1
    BY <1>12, <2>5, SomeFinite, FS_AddElement
  <2>7. pendingClaims'[id] = Cardinality(Bettors(id, outcome)) + 1
    BY <1>10, <1>11, <1>15
  <2> HIDE DEF t, u
  <2> QED
    BY <1>3, <1>4, <1>6, <1>8, <2>6, <2>7 DEF BooksOf, u
<1> QED
  BY <1>1, <1>14, <1>15

LEMMA ClaimBooks ==
    ASSUME TypeOK, NEW sender \in Accounts, NEW id \in TaskIds, Claim(sender, id), BooksOf(id)
    PROVE  BooksOf(id)'
<1>1. /\ UNCHANGED <<tasks, positions, bettorCount, dustSwept>>
      /\ tasks[id].state \in Terminal /\ ~dustSwept[id]
  BY DEF Claim, MayClaim, ClaimOpen, market, Terminal
<1>2. claimed'[id] = claimed[id] \cup {sender}
  <2>1. claimed' = [claimed EXCEPT ![id] = @ \cup {sender}]
    BY DEF Claim, MayClaim
  <2> QED
    BY <2>1 DEF TypeOK, BooksTypeOK
<1>3. pendingClaims'[id] = IF pendingClaims[id] > 0 THEN pendingClaims[id] - 1 ELSE 0
  BY DEF Claim, MayClaim, TypeOK, BooksTypeOK
<1>4. \A a \in Accounts : Entitlement(id, a)' = Entitlement(id, a)
  BY <1>1 DEF Entitlement
<1>5. \A a \in Accounts :
         PreviewPayout(id, a)' = IF a = sender THEN 0 ELSE PreviewPayout(id, a)
  BY <1>1, <1>2, <1>4 DEF PreviewPayout, ClaimOpen
<1>6. sender \in Claimable(id) /\ Claimable(id)' = Claimable(id) \ {sender}
  <2>1. PreviewPayout(id, sender) > 0
    BY DEF Claim, MayClaim, PreviewPayout
  <2> QED
    BY <1>5, <2>1 DEF Claimable
<1>7. IsFiniteSet(Claimable(id)) /\ Cardinality(Claimable(id)) \in Nat
  BY SomeFinite DEF Claimable
<1>8. Cardinality(Claimable(id)') = Cardinality(Claimable(id)) - 1
  BY <1>6, <1>7, FS_RemoveElement
<1>9. Cardinality(Claimable(id)') \in Nat
  BY <1>6, <1>7, FS_Subset, FS_CardinalityType
<1>10. pendingClaims[id] = Cardinality(Claimable(id))
  BY <1>1 DEF BooksOf
<1>11. pendingClaims'[id] = Cardinality(Claimable(id)')
  BY <1>3, <1>7, <1>8, <1>9, <1>10
<1>12. \A side \in Sides : Bettors(id, side)' = Bettors(id, side)
  BY <1>1 DEF Bettors
<1> QED
  BY <1>1, <1>11, <1>12 DEF BooksOf

LEMMA SweepBooks ==
    ASSUME TypeOK, NEW id \in TaskIds, SweepDust(id), BooksOf(id)
    PROVE  BooksOf(id)'
<1>1. UNCHANGED <<tasks, positions, bettorCount>>
  BY DEF SweepDust, market
<1>2. dustSwept'[id] = TRUE
  <2>1. dustSwept' = [dustSwept EXCEPT ![id] = TRUE]
    BY DEF SweepDust
  <2> QED
    BY <2>1, Zenon DEF TypeOK, BooksTypeOK
<1>3. \A side \in Sides : Bettors(id, side)' = Bettors(id, side)
  BY <1>1 DEF Bettors
<1> QED
  BY <1>1, <1>2, <1>3 DEF BooksOf

BookInv ==
    /\ PositiveStakes
    /\ PotInv
    /\ StakePositive /\ BettorsCounted /\ PendingClaimsExact

LEMMA NextBooks == ASSUME BookInv, Step PROVE BookInv'
<1> USE DEF BookInv, PotInv, RoleInv
<1>1. PotInv'
  BY NextPots
<1>2. /\ \A i \in TaskIds : PotOf(i)
      /\ \A i \in TaskIds : BooksOf(i)
  BY PotsPerTask, BooksPerTask
<1>3. ASSUME NEW id \in TaskIds, ActsOn(id) PROVE BooksOf(id)'
  <2>0. PotOf(id) /\ BooksOf(id)
    BY <1>2
  <2>1. CASE Posts /\ id = nextTaskId
    BY <2>0, <2>1, CreateBooks DEF Posts
  <2>2. CASE Stands(id)
    BY <2>0, <2>2, AcceptBooks DEF Stands
  <2>3. CASE Backs(id)
    BY <2>0, <2>3, BetBooks DEF Backs
  <2>4. CASE Delivers(id)
    BY <2>0, <2>4, DeliverBooks DEF Delivers
  <2>5. CASE CancelUnaccepted(id)
    BY <2>0, <2>5, CancelBooks
  <2>6. CASE Settles(id)
    BY <2>0, <2>6, SettlementIsFinalize, SettleBooks DEF Finalizes
  <2>7. CASE Pays(id)
    BY <2>0, <2>7, ClaimBooks, SweepBooks DEF Pays
  <2> QED
    BY <1>3, <2>1, <2>2, <2>3, <2>4, <2>5, <2>6, <2>7 DEF ActsOn
<1>4. ASSUME NEW i \in TaskIds PROVE BooksOf(i)'
  <2>1. CASE Idles
    BY <1>2, <2>1, IdleUntouched, UntouchedBooks
  <2>2. ASSUME NEW id \in TaskIds, ActsOn(id), i # id PROVE BooksOf(i)'
    BY <1>2, <2>2, OthersUntouched, UntouchedBooks
  <2> QED
    BY <1>3, <2>1, <2>2, ActCases
<1>5. (StakePositive /\ BettorsCounted /\ PendingClaimsExact)'
  BY <1>4 DEF StakePositive, BettorsCounted, PendingClaimsExact, BooksOf, Bettors, Claimable
<1>6. PositiveStakes'
  BY DEF PositiveStakes, MinSelfStake, Bps
<1> QED
  BY <1>1, <1>5, <1>6

LEMMA InitBooks == PositiveStakes /\ Init => BookInv
<1> SUFFICES ASSUME PositiveStakes, Init PROVE BookInv
  OBVIOUS
<1>1. ASSUME NEW id \in TaskIds PROVE BooksOf(id)
  <2>1. \A side \in Sides : Bettors(id, side) = {}
    BY DEF Init, Bettors
  <2> QED
    BY <2>1, FS_EmptySet DEF Init, BooksOf, NoTask, Terminal
<1> QED
  BY <1>1, BooksPerTask, InitPots DEF BookInv

LEMMA BookInvariance == PositiveStakes /\ Spec => []BookInv
<1>1. BookInv /\ [Next]_vars => BookInv'
  BY StepCases, NextBooks
<1> QED
  BY <1>1, InitBooks, PTL DEF Spec

(* In a deployment without zero stakes and bets, the books that payouts and *)
(* sweeps are decided by are those of the positions: pools are their sums,  *)
(* bettor counts count them, and pendingClaims is the number of accounts    *)
(* that still have something to claim, whatever roles an account combines.  *)
THEOREM BooksExact == PositiveStakes /\ Spec => []BooksMatchPositions
<1>1. BookInv => BooksMatchPositions
  BY DEF BookInv, PotInv, BooksMatchPositions
<1> QED
  BY <1>1, BookInvariance, PTL

-----------------------------------------------------------------------------
(* Sweeps. *)

LEMMA OnlySweepsSweep ==
    ASSUME TypeOK, Step, NEW id \in TaskIds, dustSwept'[id] # dustSwept[id]
    PROVE  SweepDust(id)
<1>1. ~Untouched(id)
  BY DEF Untouched
<1>2. ActsOn(id)
  BY <1>1, ActCases, IdleUntouched, OthersUntouched
<1>3. ASSUME NEW outcome, NEW rule, Finalize(id, outcome, rule) PROVE FALSE
  BY <1>3 DEF Finalize
<1>4. ~Settles(id)
  BY <1>3, SettlementIsFinalize DEF Finalizes
<1>5. ~(Posts \/ Stands(id) \/ Backs(id) \/ Delivers(id) \/ CancelUnaccepted(id))
  BY DEF Posts, CreateTask, Stands, AcceptAndStake, MayAccept, Backs, PlaceBet, MayBet, Delivers,
         SubmitDelivery, MayDeliver, CancelUnaccepted, books
<1>6. \A a \in Accounts : ~Claim(a, id)
  BY DEF Claim, MayClaim
<1> QED
  BY <1>2, <1>4, <1>5, <1>6 DEF ActsOn, Pays

(* When nobody can claim any more, a settled pot holds rounding dust.       *)
LEMMA NothingToClaim ==
    ASSUME BookInv, NEW id \in TaskIds, tasks[id].state = "Settled", ~dustSwept[id],
           pendingClaims[id] = 0
    PROVE  Held(id) = 0 \/ Held(id) < bettorCount[id][tasks[id].outcome]
<1> USE DEF BookInv, PotInv, RoleInv
<1> DEFINE t == tasks[id]
           paid == Total(Entitlements(id), Accounts)
<1>1. PotOf(id) /\ BooksOf(id) /\ tasks[id].state \in Terminal
  BY PotsPerTask, BooksPerTask DEF Terminal
<1>2. Claimable(id) = {}
  <2>1. Cardinality(Claimable(id)) = 0
    BY <1>1 DEF BooksOf
  <2>2. IsFiniteSet(Claimable(id))
    BY SomeFinite DEF Claimable
  <2> QED
    BY <2>1, <2>2, FS_EmptySet
<1>3. Total(Previews(id), Accounts) = 0
  <2>1. \A a \in Accounts : Previews(id)[a] = 0
    <3> TAKE a \in Accounts
    <3>1. PreviewPayout(id, a) \in Nat
      BY EntitlementNat DEF PreviewPayout
    <3> QED
      BY <1>2, <3>1 DEF Previews, Claimable
  <2> QED
    BY <2>1, TotalZero
<1>4. claimedTotal[id] \in Nat /\ claimedTotal[id] = Total(ClaimedOf(id), Accounts)
  BY <1>1 DEF PotOf, TypeOK, BooksTypeOK
<1>5. paid = claimedTotal[id]
  <2>1. paid = Total(ClaimedOf(id), Accounts) + Total(Previews(id), Accounts)
    BY <1>1, ClaimsSplit
  <2> QED
    BY <1>3, <1>4, <2>1
<1>6. Held(id) = Owed(id) - claimedTotal[id] /\ Owed(id) \in Nat
  <2>1. /\ Pot(tasks[id]) \in Nat /\ Fee(Losing(tasks[id])) \in Nat
        /\ Owed(id) \in Nat
    BY TaskNumbers
  <2> QED
    BY <1>4, <2>1 DEF Held, Owed
<1>7. /\ paid \in Nat /\ paid <= Owed(id)
      /\ \/ paid = Owed(id)
         \/ Owed(id) - paid < Cardinality(Holders(PositionsOn(id, t.outcome), Accounts))
         \/ t.outcome = "Yes" /\ t.pool["Yes"] = 0
  BY <1>1, EntitlementsCovered
<1>8. t.pool["Yes"] # 0
  <2>1. /\ t.workerWallet \in Accounts /\ t.selfStake > 0
        /\ t.selfStake <= positions[id][t.workerWallet]["Yes"]
    BY <1>1 DEF StakeKept, BooksOf
  <2>2. positions[id][t.workerWallet]["Yes"] <= t.pool["Yes"]
    BY <2>1 DEF TaskShape, Sides
  <2>3. t.selfStake \in Nat /\ positions[id][t.workerWallet]["Yes"] \in Nat
    BY <2>1 DEF TypeOK, MarketTypeOK, Task, Sides
  <2> QED
    BY <2>1, <2>2, <2>3
<1>9. t.outcome \in Sides
  BY <1>1 DEF PotOf
<1>10. Cardinality(Holders(PositionsOn(id, t.outcome), Accounts)) = bettorCount[id][t.outcome]
  <2>1. Holders(PositionsOn(id, t.outcome), Accounts) = Bettors(id, t.outcome)
    BY DEF Holders, PositionsOn, Bettors
  <2> QED
    BY <1>1, <1>9, <2>1 DEF BooksOf
<1> HIDE DEF t, paid
<1> QED
  BY <1>4, <1>5, <1>6, <1>7, <1>8, <1>10 DEF t

(* A sweep before the 30 days takes rounding dust only, less than one unit  *)
(* per winner, and never money somebody could still claim (docs 6.5; lines  *)
(* 512-528): by then the pending claims are none, and with the pools and    *)
(* counts exact that leaves what the floors left.                           *)
THEOREM EarlySweepsAreDust == PositiveStakes /\ Spec => EarlySweepTakesOnlyDust
<1>1. ASSUME BookInv, Step, NEW id \in TaskIds, dustSwept'[id] # dustSwept[id],
             now < settledAt[id] + DUST_SWEEP_DELAY
      PROVE  Held(id) = 0 \/ Held(id) < bettorCount[id][tasks[id].outcome]
  <2>1. TypeOK
    BY <1>1 DEF BookInv, PotInv, RoleInv
  <2>2. SweepDust(id)
    BY <1>1, <2>1, OnlySweepsSweep
  <2>3. tasks[id].state = "Settled" /\ ~dustSwept[id] /\ SweepAllowed(id)
    BY <2>2 DEF SweepDust
  <2>4. pendingClaims[id] = 0
    <3>1. now \in Nat /\ settledAt[id] \in Nat /\ DUST_SWEEP_DELAY \in Nat
      BY <2>1, ParamsAssumption DEF TypeOK, BooksTypeOK
    <3> QED
      BY <1>1, <2>3, <3>1 DEF SweepAllowed
  <2> QED
    BY <1>1, <2>3, <2>4, NothingToClaim
<1>2. BookInv /\ [Next]_vars =>
        [\A id \in TaskIds :
           dustSwept'[id] # dustSwept[id] /\ now < settledAt[id] + DUST_SWEEP_DELAY
             => Held(id) = 0 \/ Held(id) < bettorCount[id][tasks[id].outcome]]_vars
  BY StepCases, <1>1
<1> QED
  BY <1>2, BookInvariance, PTL DEF Spec, EarlySweepTakesOnlyDust

-----------------------------------------------------------------------------
(***************************************************************************)
(* What the worker and the validator daemon remember, and what they left   *)
(* on chain, agree.  A daemon's run carries one transaction at a time; the *)
(* pool holds those it has sent and may have forgotten.  A delivery is     *)
(* written only when its request is filed, and a filed slot is never       *)
(* given to somebody else; a mark in claimedTasks outlives its claim only  *)
(* if nothing is left to claim, and what is settled and paid stays so.     *)
(* The chain under the daemons is OracleCore's: every step of the fleet is *)
(* one of its steps, so its invariants are at hand.                        *)
(***************************************************************************)

Filed(hash) == status[hash].validator # NoAccount
Paid(id) == PreviewPayout(id, Worker) = 0

\* What the worker writes for a task: a delivery only after its request.
WorkerTx(id, tx) ==
    /\ tasks[id].state # "None"
    /\ \/ \E stake \in Stakes : tx = AcceptTx(Worker, id, WorkerAgent, stake)
       \/ \E hash \in Hashes :
             tx = RequestTx(Worker, id, tasks[id].validatorWallet, WorkerAgent, hash)
       \/ \E hash \in Hashes : tx = DeliverTx(Worker, id, hash) /\ Filed(<<id, hash>>)
       \/ \E op \in {"settleByTimeout", "claim"} : tx = PlainTx(op, Worker, id)

ValidatorTx(id, tx) ==
    \/ \E hash \in Hashes, response \in Responses :
          tx = ResponseTx(Validator, id, hash, response)
    \/ \E op \in {"settleWithValidation", "withdrawValidatorFees"} :
          tx = PlainTx(op, Validator, id)

PoolShape == \A tx \in pool : \E id \in TaskIds : WorkerTx(id, tx) \/ ValidatorTx(id, tx)

RunOf(sent, tx) == [at |-> tx.op, sent |-> sent, tx |-> tx]

WorkerRun(id) ==
    \/ wRun[id] = NoRun
    \/ wRun[id] \in {At("waiting"), At("working")} /\ tasks[id].state # "None"
    \/ \E sent \in BOOLEAN : wRun[id] = RunOf(sent, wRun[id].tx) /\ WorkerTx(id, wRun[id].tx)

ValidatorRun(id) ==
    \/ vRun[id] = NoRun
    \/ vRun[id] = At("scoring") /\ tasks[id].deliveredAt # 0
    \/ \E sent \in BOOLEAN : vRun[id] = RunOf(sent, vRun[id].tx) /\ ValidatorTx(id, vRun[id].tx)

RunsShape ==
    /\ wRun = [id \in TaskIds |-> wRun[id]] /\ vRun = [id \in TaskIds |-> vRun[id]]
    /\ \A id \in TaskIds : WorkerRun(id) /\ ValidatorRun(id)

MemoryShape ==
    /\ faults \in 0..MaxFaults /\ restarts \in 0..MaxRestarts
    /\ claimedTasks \subseteq TaskIds /\ processed \subseteq TaskIds
    /\ intakes \in [TaskIds -> 0..2] /\ tries \in [TaskIds -> 0..(Attempts - 1)]

\* A filed slot names who may answer: the task's validator, unless taken.
Rightly(id, s) ==
    \/ FiledByOther(s)
    \/ /\ tasks[id].state # "None"
       /\ s.validator = tasks[id].validatorWallet /\ s.agentId = WorkerAgent

SlotsRight ==
    \A id \in TaskIds, hash \in Hashes :
        Filed(<<id, hash>>) => Rightly(id, status[<<id, hash>>])

DeliveriesFiled ==
    \A id \in TaskIds : tasks[id].deliveredAt # 0 => Filed(<<id, tasks[id].deliverableHash>>)

\* A request that was sent is pending or filed, by whomever.
RequestLands ==
    \A id \in TaskIds :
        wRun[id].at = "validationRequest" /\ wRun[id].sent /\ wRun[id].tx \notin pool
          => Filed(<<id, wRun[id].tx.hash>>)

\* A mark stands for a payout that is had, or for a claim that is under way.
MarksTold ==
    \A id \in claimedTasks :
        /\ tasks[id].state = "Settled"
        /\ \/ Paid(id)
           \/ wRun[id].at = "claim" /\ (wRun[id].sent => wRun[id].tx \in pool)

ChainInv == MoneyInv /\ Inv
FleetShape == RunsShape /\ PoolShape /\ MemoryShape
FleetInv ==
    /\ ChainInv /\ FleetShape
    /\ SlotsRight /\ DeliveriesFiled /\ RequestLands /\ MarksTold

-----------------------------------------------------------------------------
(* Every step of the fleet is a step of the chain. *)

(* The transactions, by the call they make.                                 *)
LEMMA WorkerExecutes ==
    ASSUME NEW id \in TaskIds, NEW tx, WorkerTx(id, tx), Execute(tx)
    PROVE  \/ Stands(id)
           \/ \E hash \in Hashes :
                 /\ tx = RequestTx(Worker, id, tasks[id].validatorWallet, WorkerAgent, hash)
                 /\ FileRequest(tasks[id].validatorWallet, WorkerAgent, <<id, hash>>)
           \/ \E hash \in Hashes : Filed(<<id, hash>>) /\ SubmitDelivery(Worker, id, hash)
           \/ Settles(id)
           \/ tx = PlainTx("claim", Worker, id) /\ Claim(Worker, id)
<1> USE WorkerAssumption
<1>1. ASSUME NEW stake \in Stakes, tx = AcceptTx(Worker, id, WorkerAgent, stake)
      PROVE  Stands(id)
  BY <1>1 DEF Execute, AcceptTx, Stands
<1>2. ASSUME NEW hash \in Hashes,
             tx = RequestTx(Worker, id, tasks[id].validatorWallet, WorkerAgent, hash)
      PROVE  FileRequest(tasks[id].validatorWallet, WorkerAgent, <<id, hash>>)
  BY <1>2 DEF Execute, RequestTx
<1>3. ASSUME NEW hash \in Hashes, tx = DeliverTx(Worker, id, hash)
      PROVE  SubmitDelivery(Worker, id, hash)
  BY <1>3 DEF Execute, DeliverTx
<1>4. tx = PlainTx("settleByTimeout", Worker, id) => Settles(id)
  BY DEF Execute, PlainTx, Settles
<1>5. tx = PlainTx("claim", Worker, id) => Claim(Worker, id)
  BY DEF Execute, PlainTx
<1> QED
  BY <1>1, <1>2, <1>3, <1>4, <1>5 DEF WorkerTx

LEMMA ValidatorExecutes ==
    ASSUME NEW id \in TaskIds, NEW tx, ValidatorTx(id, tx), Execute(tx)
    PROVE  \/ \E hash \in Hashes, response \in Responses :
                 Respond(Validator, <<id, hash>>, response)
           \/ Settles(id)
           \/ Collects
<1> USE ValidatorAssumption
<1>1. ASSUME NEW hash \in Hashes, NEW response \in Responses,
             tx = ResponseTx(Validator, id, hash, response)
      PROVE  Respond(Validator, <<id, hash>>, response)
  BY <1>1 DEF Execute, ResponseTx
<1>2. tx = PlainTx("settleWithValidation", Validator, id) => Settles(id)
  BY DEF Execute, PlainTx, Settles
<1>3. tx = PlainTx("withdrawValidatorFees", Validator, id) => Collects
  BY DEF Execute, PlainTx, Collects
<1> QED
  BY <1>1, <1>2, <1>3 DEF ValidatorTx

\* A step that neither files a request nor delivers; the two that do.
Ordinary ==
    \/ Posts \/ Collects \/ Waits \/ UNCHANGED vars
    \/ \E a \in Accounts, hash \in RequestHashes, response \in Responses :
          Respond(a, hash, response)
    \/ \E id \in TaskIds : Stands(id) \/ CancelUnaccepted(id) \/ Settles(id) \/ Pays(id)

Asks ==
    \E id \in TaskIds, hash \in Hashes, v \in Accounts, agent \in Agents :
        /\ FileRequest(v, agent, <<id, hash>>)
        /\ Rightly(id, [validator |-> v, agentId |-> agent])

Hands == \E id \in TaskIds, hash \in Hashes :
            Filed(<<id, hash>>) /\ SubmitDelivery(Worker, id, hash)

ChainStep == Ordinary \/ Asks \/ Hands

LEMMA ChainStepIsStep == ASSUME ChainStep PROVE Step
<1>1. CASE Ordinary
  <2>1. ASSUME NEW a \in Accounts, NEW hash \in RequestHashes, NEW response \in Responses,
               Respond(a, hash, response)
        PROVE  Step
    BY <2>1 DEF Step, Answers
  <2>2. ASSUME Posts \/ Collects \/ Waits \/ UNCHANGED vars PROVE Step
    BY <2>2 DEF Step
  <2>3. ASSUME NEW id \in TaskIds,
               Stands(id) \/ CancelUnaccepted(id) \/ Settles(id) \/ Pays(id)
        PROVE  Step
    BY <2>3 DEF Step
  <2> QED
    BY <1>1, <2>1, <2>2, <2>3 DEF Ordinary
<1>2. CASE Asks
  <2>1. PICK id \in TaskIds, hash \in Hashes, v \in Accounts, agent \in Agents :
            FileRequest(v, agent, <<id, hash>>)
    BY <1>2 DEF Asks
  <2>2. <<id, hash>> \in RequestHashes
    BY DEF RequestHashes
  <2> QED
    BY <2>1, <2>2 DEF Step, Answers
<1>3. CASE Hands
  BY <1>3, WorkerAssumption DEF Hands, Step, Delivers
<1> QED
  BY <1>1, <1>2, <1>3 DEF ChainStep

LEMMA MineSteps ==
    ASSUME ChainInv, PoolShape, NEW tx \in pool, Mine(tx)
    PROVE  ChainStep
<1>1. CASE UNCHANGED vars
  BY <1>1 DEF ChainStep, Ordinary
<1>2. CASE Execute(tx)
  <2>1. PICK id \in TaskIds : WorkerTx(id, tx) \/ ValidatorTx(id, tx)
    BY DEF PoolShape
  <2>2. CASE WorkerTx(id, tx)
    <3>1. tasks[id].validatorWallet \in Accounts
      BY <2>2 DEF WorkerTx, ChainInv, Inv, TaskShape
    <3>2. ASSUME NEW hash \in Hashes,
                 FileRequest(tasks[id].validatorWallet, WorkerAgent, <<id, hash>>)
          PROVE  Asks
      <4>1. Rightly(id, [validator |-> tasks[id].validatorWallet, agentId |-> WorkerAgent])
        BY <2>2 DEF Rightly, WorkerTx
      <4> QED
        BY <3>1, <3>2, <4>1, WorkerAssumption DEF Asks
    <3>3. Claim(Worker, id) => Pays(id)
      BY WorkerAssumption DEF Pays
    <3> QED
      BY <1>2, <2>2, <3>2, <3>3, WorkerExecutes DEF ChainStep, Ordinary, Hands
  <2>3. CASE ValidatorTx(id, tx)
    <3>1. \A hash \in Hashes : <<id, hash>> \in RequestHashes
      BY DEF RequestHashes
    <3> QED
      BY <1>2, <2>3, <3>1, ValidatorExecutes, ValidatorAssumption DEF ChainStep, Ordinary
  <2> QED
    BY <2>1, <2>2, <2>3
<1> QED
  BY <1>1, <1>2 DEF Mine

LEMMA OthersSteps ==
    ASSUME ChainInv, Others
    PROVE  ChainStep
<1>1. ASSUME NEW id \in TaskIds, NEW rival \in Rivals, NEW stake \in Stakes,
             AcceptAndStake(rival.account, id, rival.agent, stake)
      PROVE  Stands(id)
  <2>1. rival.account \in Accounts /\ rival.agent \in Agents
    BY FleetAssumption
  <2> QED
    BY <1>1, <2>1 DEF Stands
<1>2. ASSUME NEW id \in TaskIds, NEW approved \in BOOLEAN,
             Attest(tasks[id].client, id, approved)
      PROVE  Settles(id)
  <2>1. tasks[id].client \in Accounts
    BY <1>2 DEF Attest, ChainInv, MoneyInv, PotInv, PotShape
  <2> QED
    BY <1>2, <2>1 DEF Settles
<1>3. ASSUME NEW request \in Requests, NEW h \in RequestHashes,
             FileRequest(request.validator, request.agentId, h)
      PROVE  Asks
  <2>1. PICK id \in TaskIds, hash \in Hashes : h = <<id, hash>>
    BY DEF RequestHashes
  <2>2. /\ request.validator \in Accounts /\ request.agentId \in Agents
        /\ request = [validator |-> request.validator, agentId |-> request.agentId]
    BY EnvironmentAssumption
  <2>3. Rightly(id, [validator |-> request.validator, agentId |-> request.agentId])
    BY <2>2 DEF Rightly, FiledByOther
  <2> QED
    BY <1>3, <2>1, <2>2, <2>3 DEF Asks
<1>4. SetPaused(Owner) => Waits
  BY EnvironmentAssumption DEF Waits
<1> QED
  BY <1>1, <1>2, <1>3, <1>4 DEF Others, ChainStep, Ordinary, Posts

-----------------------------------------------------------------------------
(* What a step of the chain leaves as it is. *)

TaskKept(i) ==
    /\ tasks'[i].deliveredAt = tasks[i].deliveredAt
    /\ tasks'[i].deliverableHash = tasks[i].deliverableHash
    /\ tasks[i].state # "None" =>
          tasks'[i].state # "None" /\ tasks'[i].validatorWallet = tasks[i].validatorWallet

SlotKept(hash) ==
    /\ status'[hash].validator = status[hash].validator
    /\ status'[hash].agentId = status[hash].agentId

LEMMA OrdinaryTask ==
    ASSUME TypeOK, TaskShape, Ordinary, NEW i \in TaskIds
    PROVE  TaskKept(i)
<1> USE DEF TaskKept
<1>0. tasks[i] \in Task
  BY DEF TypeOK, MarketTypeOK
<1>1. CASE tasks'[i] = tasks[i]
  BY <1>1
<1>2. CASE Posts
  <2>1. PICK job \in Jobs : CreateTask(job)
    BY <1>2 DEF Posts
  <2>2. CASE i # nextTaskId
    BY <1>1, <2>1, <2>2 DEF CreateTask, TypeOK, MarketTypeOK
  <2>3. CASE i = nextTaskId
    <3>1. tasks[i] = NoTask
      BY <2>3 DEF TaskShape, TypeOK, MarketTypeOK
    <3>2. /\ tasks'[i].deliveredAt = 0 /\ tasks'[i].deliverableHash = NoHash
          /\ tasks[i].deliveredAt = 0 /\ tasks[i].deliverableHash = NoHash
          /\ tasks[i].state = "None"
      BY <2>1, <2>3, <3>1 DEF CreateTask, TypeOK, MarketTypeOK, NoTask
    <3> QED
      BY <3>2
  <2> QED
    BY <2>2, <2>3
<1>3. CASE Collects \/ Waits \/ UNCHANGED vars
  BY <1>1, <1>3, QuietFrame DEF market
<1>4. ASSUME NEW a \in Accounts, NEW hash \in RequestHashes, NEW response \in Responses,
             Respond(a, hash, response)
      PROVE  TaskKept(i)
  BY <1>1, <1>4 DEF Respond, market
<1>5. ASSUME NEW id \in TaskIds, Stands(id) PROVE TaskKept(i)
  <2>1. PICK a \in Accounts, agent \in Agents, stake \in Stakes :
            AcceptAndStake(a, id, agent, stake)
    BY <1>5 DEF Stands
  <2>2. CASE i # id
    BY <1>1, <2>1, <2>2 DEF AcceptAndStake, TypeOK, MarketTypeOK
  <2>3. CASE i = id
    <3>1. tasks'[i] = [tasks[i] EXCEPT !.workerAgentId = agent, !.workerWallet = a,
                          !.selfStake = stake, !.betCutoff = now + BETTING_WINDOW,
                          !.pool = [tasks[i].pool EXCEPT !["Yes"] = stake], !.state = "Open"]
      BY <2>1, <2>3 DEF AcceptAndStake, TypeOK, MarketTypeOK
    <3> QED
      BY <1>0, <3>1 DEF Task
  <2> QED
    BY <2>2, <2>3
<1>6. ASSUME NEW id \in TaskIds, CancelUnaccepted(id) PROVE TaskKept(i)
  <2>1. tasks'[i] = tasks[i] \/ tasks'[i] = [tasks[i] EXCEPT !.state = "Cancelled"]
    BY <1>6 DEF CancelUnaccepted, TypeOK, MarketTypeOK
  <2> QED
    BY <1>0, <2>1 DEF Task
<1>7. ASSUME NEW id \in TaskIds, Settles(id) PROVE TaskKept(i)
  <2>1. PICK outcome \in Sides, rule \in 1..5 : Finalize(id, outcome, rule)
    BY <1>7, SettlementIsFinalize DEF Finalizes
  <2>2. \/ tasks'[i] = tasks[i]
        \/ tasks'[i] = [tasks[i] EXCEPT !.state = "Settled", !.outcome = outcome]
    BY <2>1 DEF Finalize, TypeOK, MarketTypeOK
  <2> QED
    BY <1>0, <2>2 DEF Task
<1>8. ASSUME NEW id \in TaskIds, Pays(id) PROVE TaskKept(i)
  BY <1>1, <1>8, PaysFrame DEF market
<1> QED
  BY <1>2, <1>3, <1>4, <1>5, <1>6, <1>7, <1>8 DEF Ordinary

LEMMA OrdinarySlot ==
    ASSUME TypeOK, Ordinary, NEW hash \in RequestHashes
    PROVE  SlotKept(hash)
<1>1. CASE UNCHANGED status
  BY <1>1 DEF SlotKept
<1>2. CASE Posts \/ Collects \/ Waits \/ UNCHANGED vars
  BY <1>1, <1>2 DEF Posts, CreateTask, Collects, WithdrawTreasury, WithdrawValidatorFees,
                    Waits, Tick, SetPaused, vars, registries
<1>3. ASSUME NEW a \in Accounts, NEW h \in RequestHashes, NEW response \in Responses,
             Respond(a, h, response)
      PROVE  SlotKept(hash)
  <2>1. status[h] \in [validator : Accounts \cup {NoAccount}, agentId : Agents \cup {NoAgent},
                       response : 0..100, respondedAt : Nat]
    BY DEF TypeOK, RegistriesTypeOK, Validation!ValidationTypeOK
  <2>2. \/ status'[hash] = status[hash]
        \/ h = hash /\ status'[hash] =
              [status[h] EXCEPT !.response = response, !.respondedAt = now]
    BY <1>3 DEF Respond, Validation!ValidationResponse, TypeOK, RegistriesTypeOK,
                Validation!ValidationTypeOK
  <2> QED
    BY <2>1, <2>2 DEF SlotKept
<1>4. ASSUME NEW id \in TaskIds,
             Stands(id) \/ CancelUnaccepted(id) \/ Settles(id) \/ Pays(id)
      PROVE  UNCHANGED status
  BY <1>4, SettlementIsFinalize
     DEF Stands, AcceptAndStake, CancelUnaccepted, Finalizes, Finalize, Pays, SweepDust,
         Claim, registries
<1> QED
  BY <1>1, <1>2, <1>3, <1>4 DEF Ordinary

LEMMA AsksKeeps ==
    ASSUME TypeOK, NEW id \in TaskIds, NEW hash \in Hashes, NEW v \in Accounts,
           NEW agent \in Agents, FileRequest(v, agent, <<id, hash>>)
    PROVE  /\ \A i \in TaskIds : TaskKept(i)
           /\ \A h \in RequestHashes : h # <<id, hash>> => SlotKept(h)
           /\ ~Filed(<<id, hash>>)
           /\ status'[<<id, hash>>].validator = v /\ status'[<<id, hash>>].agentId = agent
<1>1. <<id, hash>> \in RequestHashes
  BY DEF RequestHashes
<1>2. UNCHANGED tasks
  BY DEF FileRequest, market
<1>3. /\ status[<<id, hash>>].validator = NoAccount
      /\ status' = [status EXCEPT ![<<id, hash>>] =
                      [validator |-> v, agentId |-> agent, response |-> 0, respondedAt |-> 0]]
  BY DEF FileRequest, Validation!ValidationRequest, Validation!MayRequest
<1> QED
  BY <1>1, <1>2, <1>3 DEF TaskKept, SlotKept, Filed, TypeOK, RegistriesTypeOK,
                          Validation!ValidationTypeOK

LEMMA HandsKeeps ==
    ASSUME TypeOK, EvidenceShape, NEW id \in TaskIds, NEW hash \in Hashes,
           SubmitDelivery(Worker, id, hash)
    PROVE  /\ \A i \in TaskIds : i # id => TaskKept(i)
           /\ \A h \in RequestHashes : SlotKept(h)
           /\ tasks[id].deliveredAt = 0 /\ tasks'[id].deliverableHash = hash
           /\ tasks'[id].deliveredAt = now
           /\ tasks'[id].state # "None" /\ tasks'[id].validatorWallet = tasks[id].validatorWallet
<1>1. tasks[id] \in Task
  BY DEF TypeOK, MarketTypeOK
<1>2. tasks[id].state = "Open" /\ UNCHANGED status
  BY DEF SubmitDelivery, MayDeliver, registries
<1>3. /\ tasks'[id] = [tasks[id] EXCEPT !.deliveredAt = now, !.deliverableHash = hash,
                                       !.state = "Delivered"]
      /\ \A i \in TaskIds : i # id => tasks'[i] = tasks[i]
  BY DEF SubmitDelivery, TypeOK, MarketTypeOK
<1> QED
  BY <1>1, <1>2, <1>3 DEF TaskKept, SlotKept, EvidenceShape, Task

\* Of a task and of a filed slot, whatever the step.
TaskStays(i) ==
    /\ tasks[i].state # "None" =>
          tasks'[i].state # "None" /\ tasks'[i].validatorWallet = tasks[i].validatorWallet
    /\ tasks[i].deliveredAt # 0 => tasks'[i].deliveredAt # 0

LEMMA ChainKeeps ==
    ASSUME ChainInv, ChainStep
    PROVE  /\ \A i \in TaskIds : TaskStays(i)
           /\ \A h \in RequestHashes : Filed(h) => SlotKept(h) /\ Filed(h)'
<1> USE DEF ChainInv, Inv
<1>1. CASE Ordinary
  BY <1>1, OrdinaryTask, OrdinarySlot DEF TaskStays, TaskKept, SlotKept, Filed
<1>2. CASE Asks
  <2>1. PICK id \in TaskIds, hash \in Hashes, v \in Accounts, agent \in Agents :
            FileRequest(v, agent, <<id, hash>>)
    BY <1>2 DEF Asks
  <2> QED
    BY <2>1, AsksKeeps DEF TaskStays, TaskKept, SlotKept, Filed
<1>3. CASE Hands
  <2>1. PICK id \in TaskIds, hash \in Hashes : SubmitDelivery(Worker, id, hash)
    BY <1>3 DEF Hands
  <2> QED
    BY <2>1, HandsKeeps DEF TaskStays, TaskKept, SlotKept, Filed
<1> QED
  BY <1>1, <1>2, <1>3 DEF ChainStep

(* A slot is filled once and rightly, and before the delivery it is for.    *)
LEMMA NextSlots ==
    ASSUME ChainInv, SlotsRight, DeliveriesFiled, ChainStep
    PROVE  (SlotsRight /\ DeliveriesFiled)'
<1> USE DEF ChainInv, Inv
<1>0. \A i \in TaskIds, h \in Hashes : <<i, h>> \in RequestHashes
  BY DEF RequestHashes
<1>1. \A i \in TaskIds : tasks[i].deliveredAt # 0 => tasks[i].deliverableHash \in Hashes
  BY DEF EvidenceShape
<1>2. ASSUME NEW i \in TaskIds, NEW h \in Hashes, SlotKept(<<i, h>>), Filed(<<i, h>>)'
      PROVE  Rightly(i, status[<<i, h>>])'
  <2>1. Filed(<<i, h>>)
    BY <1>2 DEF Filed, SlotKept
  <2>2. Rightly(i, status[<<i, h>>])
    BY <2>1 DEF SlotsRight
  <2> QED
    BY <1>2, <2>2, ChainKeeps DEF Rightly, FiledByOther, SlotKept, TaskStays
<1>3. ASSUME NEW i \in TaskIds, tasks'[i].deliveredAt # 0, TaskKept(i)
      PROVE  Filed(<<i, tasks[i].deliverableHash>>)'
  <2>1. tasks[i].deliveredAt # 0 /\ tasks'[i].deliverableHash = tasks[i].deliverableHash
    BY <1>3 DEF TaskKept
  <2>2. Filed(<<i, tasks[i].deliverableHash>>) /\ tasks[i].deliverableHash \in Hashes
    BY <1>1, <2>1 DEF DeliveriesFiled
  <2>3. SlotKept(<<i, tasks[i].deliverableHash>>)
    BY <1>0, <2>2, ChainKeeps
  <2> QED
    BY <2>1, <2>2, <2>3 DEF Filed, SlotKept
<1>4. CASE Ordinary
  BY <1>0, <1>2, <1>3, <1>4, OrdinaryTask, OrdinarySlot DEF SlotsRight, DeliveriesFiled
<1>5. CASE Asks
  <2>1. PICK id \in TaskIds, hash \in Hashes, v \in Accounts, agent \in Agents :
            /\ FileRequest(v, agent, <<id, hash>>)
            /\ Rightly(id, [validator |-> v, agentId |-> agent])
    BY <1>5 DEF Asks
  <2>2. Rightly(id, status[<<id, hash>>])'
    BY <2>1, AsksKeeps DEF Rightly, FiledByOther, TaskKept
  <2>3. ASSUME NEW i \in TaskIds, NEW h \in Hashes, Filed(<<i, h>>)'
        PROVE  Rightly(i, status[<<i, h>>])'
    <3>1. CASE <<i, h>> = <<id, hash>>
      BY <2>2, <3>1
    <3>2. CASE <<i, h>> # <<id, hash>>
      BY <1>0, <1>2, <2>1, <2>3, <3>2, AsksKeeps
    <3> QED
      BY <3>1, <3>2
  <2> QED
    BY <1>3, <2>1, <2>3, AsksKeeps DEF SlotsRight, DeliveriesFiled
<1>6. CASE Hands
  <2>1. PICK id \in TaskIds, hash \in Hashes :
            Filed(<<id, hash>>) /\ SubmitDelivery(Worker, id, hash)
    BY <1>6 DEF Hands
  <2>2. Filed(<<id, tasks[id].deliverableHash>>)'
    BY <1>0, <2>1, HandsKeeps DEF Filed, SlotKept
  <2> QED
    BY <1>0, <1>2, <1>3, <2>1, <2>2, HandsKeeps DEF SlotsRight, DeliveriesFiled
<1> QED
  BY <1>4, <1>5, <1>6 DEF ChainStep

-----------------------------------------------------------------------------
(* Payouts. *)

(* The contract can pay whatever somebody can still claim.                  *)
LEMMA PayoutInEscrow ==
    ASSUME MoneyInv, NEW id \in TaskIds, NEW a \in Accounts
    PROVE  PreviewPayout(id, a) \in Nat /\ PreviewPayout(id, a) <= escrow
<1> USE DEF MoneyInv, PotInv, RoleInv
<1>1. \A b \in Accounts : Previews(id)[b] \in Nat
  BY EntitlementNat DEF Previews, PreviewPayout
<1>2. Previews(id)[a] <= Total(Previews(id), Accounts)
  BY <1>1, AccountsFinite, SummandBound
<1>3. PotOf(id)
  BY PotsPerTask
<1>4. /\ Total(Previews(id), Accounts) \in Nat /\ Held(id) \in Nat
      /\ Total(Previews(id), Accounts) <= Held(id)
  BY <1>3, PotCovers
<1>5. \A i \in TaskIds : Held(i) \in Nat
  BY PotsSound
<1> DEFINE held == [i \in TaskIds |-> Held(i)]
<1>6. held[id] <= Total(held, TaskIds) /\ Total(held, TaskIds) \in Nat
  <2>1. \A i \in TaskIds : held[i] \in Nat
    BY <1>5
  <2> HIDE DEF held
  <2> QED
    BY <2>1, AccountsFinite, SummandBound, TotalNat
<1>7. escrow = Total(held, TaskIds) + treasuryAccrued + Total(validatorAccrued, Accounts)
  BY DEF EscrowAddsUp
<1>8. treasuryAccrued \in Nat /\ Total(validatorAccrued, Accounts) \in Nat
  BY AccruedNat DEF TypeOK, BooksTypeOK
<1>9. Previews(id)[a] = PreviewPayout(id, a) /\ held[id] = Held(id)
  BY DEF Previews
<1> HIDE DEF held, MoneyInv, PotInv, RoleInv
<1> QED
  BY <1>1, <1>2, <1>4, <1>6, <1>7, <1>8, <1>9

(* So a claim reverts only when there is nothing to claim.                  *)
LEMMA RefusedClaim ==
    ASSUME ChainInv, NEW id \in TaskIds, Reverts(PlainTx("claim", Worker, id))
    PROVE  Paid(id)
<1>1. ~MayClaim(Worker, id)
  BY DEF Reverts, Accepts, PlainTx
<1>2. PreviewPayout(id, Worker) \in Nat /\ PreviewPayout(id, Worker) <= escrow
  BY PayoutInEscrow, WorkerAssumption DEF ChainInv
<1>3. escrow \in Nat
  BY DEF ChainInv, Inv, TypeOK
<1> QED
  BY <1>1, <1>2, <1>3 DEF MayClaim, Paid, PreviewPayout

LEMMA PaidStays ==
    ASSUME ChainInv, ChainStep, NEW id \in TaskIds, tasks[id].state = "Settled"
    PROVE  tasks'[id].state = "Settled" /\ (Paid(id) => Paid(id)')
<1>1. TypeOK /\ TaskShape /\ Step /\ tasks[id].state \in Terminal
  BY ChainStepIsStep DEF ChainInv, Inv, Terminal
<1>2. tasks'[id] = tasks[id] /\ positions'[id] = positions[id]
  BY <1>1, TerminalKept DEF Kept
<1>3. Entitlement(id, Worker)' = Entitlement(id, Worker)
  BY <1>2 DEF Entitlement
<1>4. claimed[id] \subseteq claimed'[id] /\ (dustSwept[id] => dustSwept'[id])
  BY <1>1, ClosedStays
<1> QED
  BY <1>2, <1>3, <1>4 DEF Paid, PreviewPayout, ClaimOpen

LEMMA MinedClaim ==
    ASSUME ChainInv, NEW id \in TaskIds, tasks[id].state = "Settled",
           Mine(PlainTx("claim", Worker, id)), ChainStep
    PROVE  Paid(id)'
<1>1. CASE Execute(PlainTx("claim", Worker, id))
  <2>1. Claim(Worker, id)
    BY <1>1 DEF Execute, PlainTx
  <2>2. Worker \in claimed'[id]
    BY <2>1 DEF Claim, ChainInv, Inv, TypeOK, BooksTypeOK
  <2> QED
    BY <2>2 DEF Paid, PreviewPayout, ClaimOpen
<1>2. CASE Reverts(PlainTx("claim", Worker, id))
  BY <1>2, RefusedClaim, PaidStays
<1> QED
  BY <1>1, <1>2 DEF Mine

LEMMA MinedRequest ==
    ASSUME TypeOK, NEW id \in TaskIds, NEW hash \in Hashes, NEW v \in Accounts,
           NEW agent \in Agents, NEW a, Mine(RequestTx(a, id, v, agent, hash))
    PROVE  Filed(<<id, hash>>)'
<1> DEFINE tx == RequestTx(a, id, v, agent, hash)
<1>1. CASE Execute(tx)
  <2>1. FileRequest(v, agent, <<id, hash>>)
    BY <1>1 DEF Execute, RequestTx
  <2> QED
    BY <2>1, AsksKeeps, EnvironmentAssumption DEF Filed
<1>2. CASE Reverts(tx) /\ UNCHANGED vars
  <2>1. ~Validation!MayRequest(<<id, hash>>)
    BY <1>2 DEF Reverts, Accepts, RequestTx
  <2> QED
    BY <1>2, <2>1 DEF Validation!MayRequest, Filed, vars, registries
<1> QED
  BY <1>1, <1>2 DEF Mine

-----------------------------------------------------------------------------
(* Runs and pending transactions. *)

Allowed(id, run) ==
    \/ run = NoRun
    \/ run \in {At("waiting"), At("working")} /\ tasks[id].state # "None"
    \/ \E sent \in BOOLEAN : run = RunOf(sent, run.tx) /\ WorkerTx(id, run.tx)

LEMMA WorkerTxOps ==
    ASSUME NEW id \in TaskIds, NEW tx, WorkerTx(id, tx)
    PROVE  /\ tx.id = id
           /\ tx.op \in {"acceptAndStake", "validationRequest", "submitDelivery",
                         "settleByTimeout", "claim"}
           /\ tx.op = "validationRequest" => \E hash \in Hashes :
                 tx = RequestTx(Worker, id, tasks[id].validatorWallet, WorkerAgent, hash)
           /\ tx.op = "claim" => tx = PlainTx("claim", Worker, id)
<1>1. CASE \E stake \in Stakes : tx = AcceptTx(Worker, id, WorkerAgent, stake)
  BY <1>1 DEF AcceptTx
<1>2. CASE \E hash \in Hashes :
              tx = RequestTx(Worker, id, tasks[id].validatorWallet, WorkerAgent, hash)
  <2>1. PICK hash \in Hashes :
            tx = RequestTx(Worker, id, tasks[id].validatorWallet, WorkerAgent, hash)
    BY <1>2
  <2>2. tx.id = id /\ tx.op = "validationRequest"
    BY <2>1 DEF RequestTx
  <2> QED
    BY <2>1, <2>2
<1>3. CASE \E hash \in Hashes : tx = DeliverTx(Worker, id, hash) /\ Filed(<<id, hash>>)
  BY <1>3 DEF DeliverTx
<1>4. CASE \E op \in {"settleByTimeout", "claim"} : tx = PlainTx(op, Worker, id)
  BY <1>4 DEF PlainTx
<1> QED
  BY <1>1, <1>2, <1>3, <1>4 DEF WorkerTx

LEMMA ValidatorTxOps ==
    ASSUME NEW id \in TaskIds, NEW tx, ValidatorTx(id, tx)
    PROVE  /\ tx.id = id
           /\ tx.op \in {"validationResponse", "settleWithValidation", "withdrawValidatorFees"}
<1>1. CASE \E hash \in Hashes, response \in Responses :
              tx = ResponseTx(Validator, id, hash, response)
  BY <1>1 DEF ResponseTx
<1>2. CASE \E op \in {"settleWithValidation", "withdrawValidatorFees"} :
              tx = PlainTx(op, Validator, id)
  BY <1>2 DEF PlainTx
<1> QED
  BY <1>1, <1>2 DEF ValidatorTx

(* A run that writes carries a transaction of its task.                     *)
LEMMA RunWrites ==
    ASSUME NEW id \in TaskIds, NEW run, Allowed(id, run)
    PROVE  /\ InWrite(run) => /\ run = RunOf(run.sent, run.tx) /\ run.sent \in BOOLEAN
                              /\ WorkerTx(id, run.tx)
           /\ ~InWrite(run) => run.at \in {"idle", "waiting", "working"} /\ run.tx.op = "none"
           /\ run.at \in Stages /\ run.sent \in BOOLEAN
           /\ tasks[id].state = "None" => run = NoRun
<1>1. CASE run = NoRun
  BY <1>1 DEF NoRun, InWrite, Stages, Ops
<1>2. CASE run \in {At("waiting"), At("working")} /\ tasks[id].state # "None"
  <2>1. /\ run.at \in {"waiting", "working"} /\ run.sent = FALSE
        /\ run.tx.op = "none"
    BY <1>2 DEF At, NoRun
  <2> QED
    BY <1>2, <2>1 DEF InWrite, Stages, Ops
<1>3. ASSUME NEW sent \in BOOLEAN, run = RunOf(sent, run.tx), WorkerTx(id, run.tx)
      PROVE  /\ run.sent = sent /\ run.at = run.tx.op /\ InWrite(run)
             /\ run.at \in Stages /\ tasks[id].state # "None"
  <2>1. run.sent = sent /\ run.at = run.tx.op
    BY <1>3 DEF RunOf
  <2>2. run.tx.op \in {"acceptAndStake", "validationRequest", "submitDelivery",
                       "settleByTimeout", "claim"}
    BY <1>3, WorkerTxOps
  <2> QED
    BY <1>3, <2>1, <2>2 DEF InWrite, Stages, Ops, WorkerTx
<1> QED
  BY <1>1, <1>2, <1>3 DEF Allowed

LEMMA WorkerTxKept ==
    ASSUME ChainInv, ChainStep, NEW id \in TaskIds, NEW tx, WorkerTx(id, tx)
    PROVE  WorkerTx(id, tx)'
<1>1. \A h \in Hashes : <<id, h>> \in RequestHashes
  BY DEF RequestHashes
<1>2. \A h \in Hashes : Filed(<<id, h>>) => Filed(<<id, h>>)'
  BY <1>1, ChainKeeps
<1>3. tasks'[id].state # "None" /\ tasks'[id].validatorWallet = tasks[id].validatorWallet
  BY ChainKeeps DEF TaskStays, WorkerTx
<1> QED
  BY <1>2, <1>3 DEF WorkerTx

LEMMA AllowedKept ==
    ASSUME ChainInv, ChainStep, NEW id \in TaskIds, NEW run, Allowed(id, run)
    PROVE  Allowed(id, run)'
<1>1. CASE \E sent \in BOOLEAN : run = RunOf(sent, run.tx) /\ WorkerTx(id, run.tx)
  <2>1. PICK tx : tx = run.tx
    OBVIOUS
  <2>2. WorkerTx(id, tx)'
    BY <1>1, <2>1, WorkerTxKept
  <2> QED
    BY <1>1, <2>1, <2>2 DEF Allowed
<1>2. tasks[id].state # "None" => tasks'[id].state # "None"
  BY ChainKeeps DEF TaskStays
<1> QED
  BY <1>1, <1>2 DEF Allowed

(* The worker's runs after a step that moves at most the run of task id.    *)
LEMMA WorkerRunsNext ==
    ASSUME ChainInv, ChainStep, RunsShape, NEW id \in TaskIds, NEW run,
           Allowed(id, run), wRun' = [wRun EXCEPT ![id] = run], NEW i \in TaskIds
    PROVE  WorkerRun(i)'
<1>1. CASE i = id
  <2>1. wRun'[i] = run
    BY <1>1 DEF RunsShape
  <2>2. Allowed(i, run)'
    BY <1>1, AllowedKept
  <2> QED
    BY <2>1, <2>2 DEF Allowed, WorkerRun
<1>2. CASE i # id
  <2>1. PICK r : r = wRun[i]
    OBVIOUS
  <2>2. wRun'[i] = r
    BY <1>2, <2>1 DEF RunsShape
  <2>3. Allowed(i, r)
    BY <2>1 DEF Allowed, WorkerRun, RunsShape
  <2>4. Allowed(i, r)'
    BY <2>3, AllowedKept
  <2> QED
    BY <2>2, <2>4 DEF Allowed, WorkerRun
<1> QED
  BY <1>1, <1>2

LEMMA ValidatorRunKept ==
    ASSUME ChainInv, ChainStep, RunsShape, NEW id \in TaskIds, vRun'[id] = vRun[id]
    PROVE  ValidatorRun(id)'
<1>1. ValidatorRun(id)
  BY DEF RunsShape
<1>2. tasks[id].deliveredAt # 0 => tasks'[id].deliveredAt # 0
  BY ChainKeeps DEF TaskStays
<1> QED
  BY <1>1, <1>2 DEF ValidatorRun, ValidatorTx

LEMMA PoolNext ==
    ASSUME ChainInv, ChainStep,
           \A tx \in pool' : \E id \in TaskIds : WorkerTx(id, tx) \/ ValidatorTx(id, tx)
    PROVE  PoolShape'
<1> SUFFICES ASSUME NEW tx \in pool'
             PROVE  \E id \in TaskIds : WorkerTx(id, tx)' \/ ValidatorTx(id, tx)
  BY DEF PoolShape, ValidatorTx
<1>1. PICK id \in TaskIds : WorkerTx(id, tx) \/ ValidatorTx(id, tx)
  OBVIOUS
<1> QED
  BY <1>1, WorkerTxKept

LEMMA ChainNext == ASSUME ChainInv, ChainStep PROVE ChainInv'
<1>1. Step
  BY ChainStepIsStep
<1>2. PotInv'
  BY <1>1, NextPots DEF ChainInv, MoneyInv
<1>3. EscrowAddsUp'
  BY <1>1, <1>2, NextEscrow DEF ChainInv, MoneyInv
<1>4. Inv'
  BY <1>1, NextInv DEF ChainInv
<1> QED
  BY <1>2, <1>3, <1>4 DEF ChainInv, MoneyInv

-----------------------------------------------------------------------------
(* The worker's steps. *)

LEMMA WorkerMoves ==
    ASSUME FleetInv, UNCHANGED <<vars, validatorVars>>, NEW id \in TaskIds, NEW run,
           WorkerGoes(id, run), Allowed(id, run),
           pool \subseteq pool',
           \A tx \in pool' : \E i \in TaskIds : WorkerTx(i, tx) \/ ValidatorTx(i, tx),
           run.at = "validationRequest" /\ run.sent /\ run.tx \notin pool' =>
              Filed(<<id, run.tx.hash>>),
           claimedTasks' \subseteq claimedTasks \cup {id},
           id \in claimedTasks' =>
              /\ tasks[id].state = "Settled"
              /\ Paid(id) \/ (run.at = "claim" /\ (run.sent => run.tx \in pool')),
           MemoryShape'
    PROVE  FleetInv'
<1> USE DEF FleetInv, FleetShape
<1>1. ChainStep
  BY DEF ChainStep, Ordinary
<1>2. ChainInv' /\ (SlotsRight /\ DeliveriesFiled)'
  BY <1>1, ChainNext, NextSlots
<1>3. /\ wRun'[id] = run /\ \A i \in TaskIds : i # id => wRun'[i] = wRun[i]
      /\ wRun' = [i \in TaskIds |-> wRun'[i]] /\ vRun' = vRun
  BY DEF WorkerGoes, RunsShape, validatorVars
<1>4. RunsShape'
  <2>1. wRun' = [wRun EXCEPT ![id] = run]
    BY DEF WorkerGoes
  <2>2. \A i \in TaskIds : WorkerRun(i)'
    BY <1>1, <2>1, WorkerRunsNext
  <2>3. \A i \in TaskIds : ValidatorRun(i)'
    BY <1>1, <1>3, ValidatorRunKept
  <2> QED
    BY <1>3, <2>2, <2>3 DEF RunsShape
<1>5. PoolShape'
  BY <1>1, PoolNext
<1>6. \A h : Filed(h)' <=> Filed(h)
  BY DEF Filed, vars, registries
<1>7. \A i \in TaskIds : (Paid(i)' <=> Paid(i)) /\ tasks'[i] = tasks[i]
  BY DEF Paid, PreviewPayout, ClaimOpen, Entitlement, vars, market, books
<1>8. RequestLands'
  <2> SUFFICES ASSUME NEW i \in TaskIds, wRun'[i].at = "validationRequest", wRun'[i].sent,
                      wRun'[i].tx \notin pool'
               PROVE  Filed(<<i, wRun'[i].tx.hash>>)
    BY <1>6 DEF RequestLands
  <2>1. CASE i = id
    BY <1>3, <2>1
  <2>2. CASE i # id
    BY <1>3, <2>2 DEF RequestLands
  <2> QED
    BY <2>1, <2>2
<1>9. MarksTold'
  <2> SUFFICES ASSUME NEW i \in claimedTasks'
               PROVE  /\ tasks[i].state = "Settled"
                      /\ \/ Paid(i)
                         \/ wRun'[i].at = "claim" /\ (wRun'[i].sent => wRun'[i].tx \in pool')
    <3>1. claimedTasks' \subseteq TaskIds
      BY DEF MemoryShape
    <3> QED
      BY <1>7, <3>1 DEF MarksTold
  <2>1. CASE i = id
    BY <1>3, <2>1
  <2>2. CASE i # id
    <3>1. i \in claimedTasks /\ i \in TaskIds
      BY <2>2 DEF MemoryShape
    <3> QED
      BY <1>3, <2>2, <3>1 DEF MarksTold
  <2> QED
    BY <2>1, <2>2
<1> QED
  BY <1>2, <1>4, <1>5, <1>8, <1>9

(* Starting a run, or going on to its next stage, without a word to the     *)
(* chain.                                                                   *)
LEMMA WorkerTurns ==
    ASSUME FleetInv, UNCHANGED <<vars, pool, validatorVars, restarts>>,
           NEW id \in TaskIds, NEW run, WorkerGoes(id, run), Allowed(id, run), run.sent = FALSE,
           claimedTasks' \subseteq claimedTasks \cup {id},
           id \in claimedTasks' =>
              tasks[id].state = "Settled" /\ (Paid(id) \/ run.at = "claim"),
           faults' \in 0..MaxFaults, intakes' \in [TaskIds -> 0..2]
    PROVE  FleetInv'
<1>1. pool' = pool /\ \A tx \in pool : \E i \in TaskIds : WorkerTx(i, tx) \/ ValidatorTx(i, tx)
  BY DEF FleetInv, FleetShape, PoolShape
<1>2. MemoryShape'
  BY DEF FleetInv, FleetShape, MemoryShape, validatorVars
<1> QED
  BY <1>1, <1>2, WorkerMoves

LEMMA NewRuns ==
    ASSUME NEW id \in TaskIds
    PROVE  /\ Allowed(id, NoRun) /\ NoRun.sent = FALSE
           /\ \A stage \in {"waiting", "working"} :
                 /\ At(stage).sent = FALSE /\ At(stage).at = stage
                 /\ tasks[id].state # "None" => Allowed(id, At(stage))
           /\ \A tx : /\ Writing(tx).sent = FALSE /\ Writing(tx).at = tx.op
                      /\ Writing(tx).tx = tx
                      /\ WorkerTx(id, tx) => Allowed(id, Writing(tx))
<1>1. Allowed(id, NoRun) /\ NoRun.sent = FALSE
  BY DEF Allowed, NoRun
<1>2. ASSUME NEW stage \in {"waiting", "working"}
      PROVE  /\ At(stage).sent = FALSE /\ At(stage).at = stage
             /\ tasks[id].state # "None" => Allowed(id, At(stage))
  <2>1. At(stage).sent = FALSE /\ At(stage).at = stage
    BY DEF At, NoRun
  <2> QED
    BY <2>1 DEF Allowed
<1>3. ASSUME NEW tx
      PROVE  /\ Writing(tx).sent = FALSE /\ Writing(tx).at = tx.op /\ Writing(tx).tx = tx
             /\ WorkerTx(id, tx) => Allowed(id, Writing(tx))
  <2>1. /\ Writing(tx).sent = FALSE /\ Writing(tx).at = tx.op /\ Writing(tx).tx = tx
        /\ Writing(tx) = RunOf(FALSE, tx)
    BY DEF Writing, RunOf
  <2> QED
    BY <2>1 DEF Allowed
<1> QED
  BY <1>1, <1>2, <1>3

(* What a step that keeps the marks owes to them: the run of id was not a   *)
(* claim, so its mark stands for money that is had.                         *)
LEMMA UnclaimedMark ==
    ASSUME FleetInv, NEW id \in TaskIds, wRun[id].at # "claim", id \in claimedTasks
    PROVE  tasks[id].state = "Settled" /\ Paid(id)
  BY DEF FleetInv, MarksTold

LEMMA WorkerStarts ==
    ASSUME FleetInv, NEW id \in TaskIds, UNCHANGED <<validatorVars, restarts>>,
           WorkerAccepts(id) \/ WorkerDrives(id) \/ WorkerClaims(id)
    PROVE  FleetInv'
<1>1. MemoryShape /\ WorkerRun(id)
  BY DEF FleetInv, FleetShape, RunsShape
<1>2. CASE WorkerAccepts(id)
  <2>1. PICK stake \in Stakes : WorkerGoes(id, Writing(AcceptTx(Worker, id, WorkerAgent, stake)))
    BY <1>2 DEF WorkerAccepts
  <2> DEFINE tx == AcceptTx(Worker, id, WorkerAgent, stake)
  <2>2. tasks[id].state = "Created" /\ UNCHANGED <<vars, pool, faults, claimedTasks, intakes>>
    BY <1>2 DEF WorkerAccepts
  <2>3. WorkerTx(id, tx)
    BY <2>2 DEF WorkerTx
  <2>4. id \notin claimedTasks
    BY <2>2 DEF FleetInv, MarksTold
  <2>5. Allowed(id, Writing(tx)) /\ Writing(tx).sent = FALSE
    BY <2>3, NewRuns
  <2> HIDE DEF tx
  <2> QED
    BY <1>1, <2>1, <2>2, <2>4, <2>5, WorkerTurns DEF MemoryShape, tx
<1>3. CASE WorkerDrives(id)
  <2>1. /\ tasks[id].state = "Open"
        /\ UNCHANGED <<vars, pool, faults, claimedTasks, intakes>>
        /\ \/ WorkerGoes(id, Writing(PlainTx("settleByTimeout", Worker, id)))
           \/ WorkerGoes(id, At("waiting"))
    BY <1>3 DEF WorkerDrives
  <2>2. WorkerTx(id, PlainTx("settleByTimeout", Worker, id))
    BY <2>1 DEF WorkerTx
  <2>3. id \notin claimedTasks
    BY <2>1 DEF FleetInv, MarksTold
  <2>4. ASSUME NEW run, WorkerGoes(id, run), Allowed(id, run), run.sent = FALSE
        PROVE  FleetInv'
    BY <1>1, <2>1, <2>3, <2>4, WorkerTurns DEF MemoryShape
  <2> QED
    BY <2>1, <2>2, <2>4, NewRuns
<1>4. CASE WorkerClaims(id)
  <2> DEFINE tx == PlainTx("claim", Worker, id)
  <2>1. /\ tasks[id].state = "Settled" /\ claimedTasks' = claimedTasks \cup {id}
        /\ WorkerGoes(id, Writing(tx)) /\ UNCHANGED <<vars, pool, faults, intakes>>
    BY <1>4 DEF WorkerClaims
  <2>2. WorkerTx(id, tx) /\ tx.op = "claim"
    BY <2>1 DEF WorkerTx, PlainTx
  <2>3. Allowed(id, Writing(tx)) /\ Writing(tx).sent = FALSE /\ Writing(tx).at = "claim"
    BY <2>2, NewRuns
  <2> HIDE DEF tx
  <2> QED
    BY <1>1, <2>1, <2>3, WorkerTurns DEF MemoryShape
<1> QED
  BY <1>2, <1>3, <1>4

LEMMA WorkerWorks ==
    ASSUME FleetInv, NEW id \in TaskIds, UNCHANGED <<validatorVars, restarts>>,
           WorkerResumes(id) \/ WorkerSolves(id)
    PROVE  FleetInv'
<1>1. MemoryShape /\ Allowed(id, wRun[id]) /\ wRun[id].at \in {"waiting", "working"}
  BY DEF FleetInv, FleetShape, RunsShape, WorkerRun, Allowed, WorkerResumes, WorkerSolves
<1>2. tasks[id].state # "None"
  BY <1>1, RunWrites DEF NoRun
<1>3. id \in claimedTasks => tasks[id].state = "Settled" /\ Paid(id)
  BY <1>1, UnclaimedMark
<1>4. CASE WorkerResumes(id)
  <2>1. /\ WorkerGoes(id, At("working")) \/ WorkerGoes(id, NoRun)
        /\ UNCHANGED <<vars, pool, faults, claimedTasks, intakes>>
    BY <1>4 DEF WorkerResumes
  <2>2. ASSUME NEW run, WorkerGoes(id, run), Allowed(id, run), run.sent = FALSE
        PROVE  FleetInv'
    BY <1>1, <1>3, <2>1, <2>2, WorkerTurns DEF MemoryShape
  <2> QED
    BY <1>2, <2>1, <2>2, NewRuns
<1>5. CASE WorkerSolves(id)
  <2>1. PICK hash \in Hashes :
            WorkerGoes(id, Writing(RequestTx(Worker, id, tasks[id].validatorWallet,
                                             WorkerAgent, hash)))
    BY <1>5 DEF WorkerSolves
  <2> DEFINE tx == RequestTx(Worker, id, tasks[id].validatorWallet, WorkerAgent, hash)
  <2>2. WorkerTx(id, tx)
    BY <1>2 DEF WorkerTx
  <2>3. Allowed(id, Writing(tx)) /\ Writing(tx).sent = FALSE /\ WorkerGoes(id, Writing(tx))
    BY <2>1, <2>2, NewRuns
  <2>4. /\ UNCHANGED <<vars, pool, claimedTasks>>
        /\ faults' \in 0..MaxFaults /\ intakes' \in [TaskIds -> 0..2]
    <3>1. CASE UNCHANGED <<vars, pool, faults, claimedTasks>> /\
               intakes' = [intakes EXCEPT ![id] = IF @ < 2 THEN @ + 1 ELSE 2]
      BY <1>1, <3>1 DEF MemoryShape
    <3>2. CASE CallFails /\ UNCHANGED <<claimedTasks, intakes>>
      BY <1>1, <3>2, FaultsAssumption DEF CallFails, MemoryShape
    <3> QED
      BY <1>5, <3>1, <3>2 DEF WorkerSolves
  <2> HIDE DEF tx
  <2> QED
    BY <1>3, <2>3, <2>4, WorkerTurns
<1> QED
  BY <1>4, <1>5

LEMMA SentRecord ==
    ASSUME NEW op, NEW tx, NEW sent, NEW run, run = [at |-> op, sent |-> sent, tx |-> tx],
           NEW next, next = [run EXCEPT !.sent = TRUE]
    PROVE  next = [at |-> op, sent |-> TRUE, tx |-> tx]
  OBVIOUS

LEMMA SentRun ==
    ASSUME NEW run, NEW tx, run = RunOf(run.sent, tx)
    PROVE  [run EXCEPT !.sent = TRUE] = RunOf(TRUE, tx)
  BY SentRecord DEF RunOf

LEMMA WorkerSendsKeeps ==
    ASSUME FleetInv, NEW id \in TaskIds, UNCHANGED <<validatorVars, restarts>>,
           WorkerSends(id)
    PROVE  FleetInv'
<1>1. MemoryShape /\ PoolShape /\ Allowed(id, wRun[id])
  BY DEF FleetInv, FleetShape, RunsShape, WorkerRun, Allowed
<1>2. PICK tx : tx = wRun[id].tx
  OBVIOUS
<1>3. InWrite(wRun[id]) /\ pool' = pool \cup {tx} /\ UNCHANGED <<vars, faults>>
  BY <1>2 DEF WorkerSends, Broadcast
<1>4. wRun[id] = RunOf(wRun[id].sent, tx) /\ WorkerTx(id, tx)
  BY <1>1, <1>2, <1>3, RunWrites
<1> DEFINE run == RunOf(TRUE, tx)
<1>5. WorkerGoes(id, run) /\ UNCHANGED <<claimedTasks, intakes>>
  BY <1>4, SentRun DEF WorkerSends
<1>6. run.sent = TRUE /\ run.at = tx.op /\ run.tx = tx /\ wRun[id].at = tx.op
  BY <1>4 DEF RunOf
<1>7. Allowed(id, run)
  BY <1>4, <1>6 DEF Allowed
<1>8. MemoryShape'
  BY <1>1, <1>3, <1>5 DEF MemoryShape, validatorVars
<1>9. \A t \in pool' : \E i \in TaskIds : WorkerTx(i, t) \/ ValidatorTx(i, t)
  BY <1>1, <1>3, <1>4 DEF PoolShape
<1>10. id \in claimedTasks => tasks[id].state = "Settled" /\ (Paid(id) \/ run.at = "claim")
  BY <1>6 DEF FleetInv, MarksTold
<1> HIDE DEF run
<1> QED
  BY <1>3, <1>5, <1>6, <1>7, <1>8, <1>9, <1>10, WorkerMoves

(* A delivery is written once its request is filed, by this worker or not.  *)
LEMMA AfterRequest ==
    ASSUME FleetInv, NEW id \in TaskIds, InWrite(wRun[id]), wRun[id].at = "validationRequest",
           \/ wRun[id].sent /\ wRun[id].tx \notin pool
           \/ Reverts(wRun[id].tx)
    PROVE  WorkerTx(id, DeliverTx(Worker, wRun[id].tx.id, wRun[id].tx.hash))
<1>1. Allowed(id, wRun[id])
  BY DEF FleetInv, FleetShape, RunsShape, WorkerRun, Allowed
<1>2. /\ wRun[id] = RunOf(wRun[id].sent, wRun[id].tx)
      /\ WorkerTx(id, wRun[id].tx)
  BY <1>1, RunWrites
<1>3. wRun[id].tx.op = "validationRequest"
  BY <1>2 DEF RunOf
<1>4. PICK hash \in Hashes :
          wRun[id].tx = RequestTx(Worker, id, tasks[id].validatorWallet, WorkerAgent, hash)
  BY <1>2, <1>3, WorkerTxOps
<1>5. wRun[id].tx.id = id /\ wRun[id].tx.hash = hash
  BY <1>4 DEF RequestTx
<1>6. Filed(<<id, hash>>)
  <2>1. CASE wRun[id].sent /\ wRun[id].tx \notin pool
    BY <1>5, <2>1 DEF FleetInv, RequestLands
  <2>2. CASE Reverts(wRun[id].tx)
    <3>1. ~Validation!MayRequest(<<id, hash>>)
      BY <1>3, <1>5, <2>2 DEF Reverts, Accepts
    <3> QED
      BY <3>1 DEF Validation!MayRequest, Filed
  <2> QED
    BY <2>1, <2>2
<1> QED
  BY <1>2, <1>5, <1>6 DEF WorkerTx

(* The next stage of a run whose write is answered.                         *)
LEMMA NextStages ==
    ASSUME FleetInv, NEW id \in TaskIds, InWrite(wRun[id])
    PROVE  /\ wRun[id].sent /\ wRun[id].tx \notin pool =>
                LET run == AfterWrite(wRun[id].tx) IN Allowed(id, run) /\ run.sent = FALSE
           /\ Reverts(wRun[id].tx) =>
                LET run == AfterRevert(wRun[id].tx) IN Allowed(id, run) /\ run.sent = FALSE
<1>1. Allowed(id, wRun[id])
  BY DEF FleetInv, FleetShape, RunsShape, WorkerRun, Allowed
<1>2. wRun[id] = RunOf(wRun[id].sent, wRun[id].tx) /\ tasks[id].state # "None"
  BY <1>1, RunWrites DEF WorkerTx
<1>3. wRun[id].at = wRun[id].tx.op
  BY <1>2 DEF RunOf
<1> DEFINE next == DeliverTx(Worker, wRun[id].tx.id, wRun[id].tx.hash)
<1>4. CASE wRun[id].tx.op = "validationRequest"
  <2>1. /\ AfterWrite(wRun[id].tx) = Writing(next)
        /\ AfterRevert(wRun[id].tx) = Writing(next)
    BY <1>4 DEF AfterWrite, AfterRevert
  <2>2. (wRun[id].sent /\ wRun[id].tx \notin pool) \/ Reverts(wRun[id].tx) => WorkerTx(id, next)
    BY <1>3, <1>4, AfterRequest
  <2> HIDE DEF next
  <2>3. WorkerTx(id, next) => Allowed(id, Writing(next)) /\ Writing(next).sent = FALSE
    BY NewRuns
  <2> QED
    BY <2>1, <2>2, <2>3
<1>5. CASE wRun[id].tx.op # "validationRequest"
  <2>1. /\ AfterWrite(wRun[id].tx) \in {At("waiting"), NoRun}
        /\ AfterRevert(wRun[id].tx) = NoRun
    BY <1>5 DEF AfterWrite, AfterRevert
  <2>2. /\ Allowed(id, At("waiting")) /\ At("waiting").sent = FALSE
        /\ Allowed(id, NoRun) /\ NoRun.sent = FALSE
    BY <1>2, NewRuns
  <2> QED
    BY <2>1, <2>2
<1> QED
  BY <1>4, <1>5

(* Giving up a claim gives up its mark.                                     *)
LEMMA MarkGoes ==
    ASSUME FleetInv, NEW id \in TaskIds, wRun[id].at # "idle",
           claimedTasks' = MarkReleased(wRun[id].tx)
    PROVE  /\ claimedTasks' \subseteq claimedTasks
           /\ id \in claimedTasks' => tasks[id].state = "Settled" /\ Paid(id)
<1>1. Allowed(id, wRun[id])
  BY DEF FleetInv, FleetShape, RunsShape, WorkerRun, Allowed
<1>2. CASE wRun[id].at = "claim"
  <2>1. wRun[id].tx.op = "claim" /\ wRun[id].tx.id = id
    BY <1>1, <1>2, RunWrites, WorkerTxOps DEF RunOf
  <2> QED
    BY <2>1 DEF MarkReleased
<1>3. CASE wRun[id].at # "claim"
  BY <1>3, UnclaimedMark DEF MarkReleased
<1> QED
  BY <1>2, <1>3

LEMMA WorkerHearsKeeps ==
    ASSUME FleetInv, NEW id \in TaskIds, UNCHANGED <<validatorVars, restarts>>,
           WorkerHears(id) \/ WorkerFails(id)
    PROVE  FleetInv'
<1>1. MemoryShape /\ Allowed(id, wRun[id])
  BY DEF FleetInv, FleetShape, RunsShape, WorkerRun, Allowed
<1>2. CASE Receipt(wRun[id]) /\ WorkerGoes(id, AfterWrite(wRun[id].tx))
           /\ UNCHANGED <<claimedTasks, intakes>>
  <2> DEFINE run == AfterWrite(wRun[id].tx)
  <2>1. /\ InWrite(wRun[id]) /\ wRun[id].sent /\ wRun[id].tx \notin pool
        /\ UNCHANGED <<vars, pool, faults>>
    BY <1>2 DEF Receipt
  <2>2. Allowed(id, run) /\ run.sent = FALSE
    BY <2>1, NextStages
  <2>3. id \in claimedTasks => tasks[id].state = "Settled" /\ Paid(id)
    BY <2>1 DEF FleetInv, MarksTold
  <2> HIDE DEF run
  <2>4. WorkerGoes(id, run)
    BY <1>2 DEF run
  <2> QED
    BY <1>1, <1>2, <2>1, <2>2, <2>3, <2>4, WorkerTurns DEF MemoryShape
<1>3. CASE Refused(wRun[id]) /\ WorkerGoes(id, AfterRevert(wRun[id].tx))
           /\ claimedTasks' = MarkReleased(wRun[id].tx) /\ UNCHANGED intakes
  <2> DEFINE run == AfterRevert(wRun[id].tx)
  <2>1. /\ InWrite(wRun[id]) /\ Reverts(wRun[id].tx) /\ UNCHANGED <<vars, pool, faults>>
    BY <1>3 DEF Refused
  <2>2. Allowed(id, run) /\ run.sent = FALSE
    BY <2>1, NextStages
  <2>3. wRun[id].at # "idle"
    BY <1>1, <2>1, RunWrites, WorkerTxOps DEF RunOf
  <2>4. /\ claimedTasks' \subseteq claimedTasks
        /\ id \in claimedTasks' => tasks[id].state = "Settled" /\ Paid(id)
    BY <1>3, <2>3, MarkGoes
  <2> HIDE DEF run
  <2>5. WorkerGoes(id, run)
    BY <1>3 DEF run
  <2> QED
    BY <1>1, <1>3, <2>1, <2>2, <2>4, <2>5, WorkerTurns DEF MemoryShape
<1>4. CASE WorkerFails(id)
  <2>1. /\ WorkerGoes(id, NoRun) /\ UNCHANGED <<vars, pool, intakes>>
        /\ faults' \in 0..MaxFaults
    BY <1>1, <1>4, FaultsAssumption DEF WorkerFails, CallFails, AfterError, MemoryShape
  <2>2. /\ claimedTasks' \subseteq claimedTasks
        /\ id \in claimedTasks' => tasks[id].state = "Settled" /\ Paid(id)
    BY <1>4, MarkGoes DEF WorkerFails
  <2>3. Allowed(id, NoRun) /\ NoRun.sent = FALSE
    BY NewRuns
  <2> QED
    BY <1>1, <2>1, <2>2, <2>3, WorkerTurns DEF MemoryShape
<1> QED
  BY <1>2, <1>3, <1>4 DEF WorkerHears

LEMMA WorkerKeeps ==
    ASSUME FleetInv, NEW id \in TaskIds, WorkerNext(id), UNCHANGED <<validatorVars, restarts>>
    PROVE  FleetInv'
  BY WorkerStarts, WorkerWorks, WorkerSendsKeeps, WorkerHearsKeeps DEF WorkerNext, WorkerStep

-----------------------------------------------------------------------------
(* The validator's steps. *)

Handling(id, run) ==
    \/ run = NoRun
    \/ run = At("scoring") /\ tasks[id].deliveredAt # 0
    \/ \E sent \in BOOLEAN : run = RunOf(sent, run.tx) /\ ValidatorTx(id, run.tx)

LEMMA HandlingWrites ==
    ASSUME NEW id \in TaskIds, NEW run, Handling(id, run)
    PROVE  /\ run.at # "scoring" /\ run.at # "idle" =>
                 InWrite(run) /\ run = RunOf(run.sent, run.tx) /\ ValidatorTx(id, run.tx)
           /\ InWrite(run) => /\ run = RunOf(run.sent, run.tx) /\ run.sent \in BOOLEAN
                              /\ ValidatorTx(id, run.tx)
           /\ run.at \in Stages /\ run.sent \in BOOLEAN
<1>1. CASE run = NoRun
  BY <1>1 DEF NoRun, InWrite, Stages, Ops
<1>2. CASE run = At("scoring")
  <2>1. run.at = "scoring" /\ run.sent = FALSE /\ run.tx.op = "none"
    BY <1>2 DEF At, NoRun
  <2> QED
    BY <2>1 DEF InWrite, Stages, Ops
<1>3. ASSUME NEW sent \in BOOLEAN, run = RunOf(sent, run.tx), ValidatorTx(id, run.tx)
      PROVE  /\ run.sent = sent /\ InWrite(run) /\ run.at \in Stages
  <2>1. run.sent = sent /\ run.at = run.tx.op
    BY <1>3 DEF RunOf
  <2>2. run.tx.op \in {"validationResponse", "settleWithValidation", "withdrawValidatorFees"}
    BY <1>3, ValidatorTxOps
  <2> QED
    BY <2>1, <2>2 DEF InWrite, Stages, Ops
<1> QED
  BY <1>1, <1>2, <1>3 DEF Handling

(* The worker's part of the invariant, when only the validator's run and    *)
(* the pool have moved.                                                     *)
LEMMA ValidatorMoves ==
    ASSUME FleetInv, UNCHANGED <<vars, workerVars>>, NEW id \in TaskIds, NEW run,
           ValidatorGoes(id, run), Handling(id, run),
           pool \subseteq pool',
           \A tx \in pool' : \E i \in TaskIds : WorkerTx(i, tx) \/ ValidatorTx(i, tx),
           MemoryShape'
    PROVE  FleetInv'
<1> USE DEF FleetInv, FleetShape
<1>1. ChainStep
  BY DEF ChainStep, Ordinary
<1>2. ChainInv' /\ (SlotsRight /\ DeliveriesFiled)'
  BY <1>1, ChainNext, NextSlots
<1>3. /\ vRun'[id] = run /\ \A i \in TaskIds : i # id => vRun'[i] = vRun[i]
      /\ vRun' = [i \in TaskIds |-> vRun'[i]] /\ wRun' = wRun
  BY DEF ValidatorGoes, RunsShape, workerVars
<1>4. RunsShape'
  <2>1. wRun' = [wRun EXCEPT ![id] = wRun[id]]
    BY <1>3 DEF RunsShape
  <2>2. \A i \in TaskIds : WorkerRun(i)'
    <3>1. PICK r : r = wRun[id]
      OBVIOUS
    <3>2. Allowed(id, r) /\ wRun' = [wRun EXCEPT ![id] = r]
      BY <2>1, <3>1 DEF RunsShape, WorkerRun, Allowed
    <3> QED
      BY <1>1, <3>2, WorkerRunsNext
  <2>3. ASSUME NEW i \in TaskIds PROVE ValidatorRun(i)'
    <3>1. CASE i = id
      <4>1. tasks'[id] = tasks[id]
        BY DEF vars, market
      <4> QED
        BY <1>3, <3>1, <4>1 DEF Handling, ValidatorRun, ValidatorTx
    <3>2. CASE i # id
      BY <1>1, <1>3, <3>2, ValidatorRunKept
    <3> QED
      BY <3>1, <3>2
  <2> QED
    BY <1>3, <2>2, <2>3 DEF RunsShape
<1>5. PoolShape'
  BY <1>1, PoolNext
<1>6. \A h : Filed(h)' <=> Filed(h)
  BY DEF Filed, vars, registries
<1>7. \A i \in TaskIds : (Paid(i)' <=> Paid(i)) /\ tasks'[i] = tasks[i]
  BY DEF Paid, PreviewPayout, ClaimOpen, Entitlement, vars, market, books
<1>8. RequestLands'
  BY <1>3, <1>6 DEF RequestLands
<1>9. MarksTold'
  <2>1. claimedTasks' = claimedTasks /\ claimedTasks \subseteq TaskIds
    BY DEF workerVars, MemoryShape
  <2> QED
    BY <1>3, <1>7, <2>1 DEF MarksTold
<1> QED
  BY <1>2, <1>4, <1>5, <1>8, <1>9

LEMMA NewHandling ==
    ASSUME NEW id \in TaskIds
    PROVE  /\ Handling(id, NoRun)
           /\ tasks[id].deliveredAt # 0 => Handling(id, At("scoring"))
           /\ \A tx : ValidatorTx(id, tx) => Handling(id, Writing(tx))
<1>1. ASSUME NEW tx, ValidatorTx(id, tx) PROVE Handling(id, Writing(tx))
  <2>1. Writing(tx) = RunOf(FALSE, tx) /\ Writing(tx).tx = tx
    BY DEF Writing, RunOf
  <2> QED
    BY <1>1, <2>1 DEF Handling
<1> QED
  BY <1>1 DEF Handling

(* A step of the validator that sends nothing.                              *)
LEMMA ValidatorTurns ==
    ASSUME FleetInv, UNCHANGED <<vars, pool, workerVars, restarts>>,
           NEW id \in TaskIds, NEW run, ValidatorGoes(id, run), Handling(id, run),
           faults' \in 0..MaxFaults, processed' \subseteq TaskIds,
           tries' \in [TaskIds -> 0..(Attempts - 1)]
    PROVE  FleetInv'
<1>1. pool' = pool /\ \A tx \in pool : \E i \in TaskIds : WorkerTx(i, tx) \/ ValidatorTx(i, tx)
  BY DEF FleetInv, FleetShape, PoolShape
<1>2. MemoryShape'
  BY DEF FleetInv, FleetShape, MemoryShape, workerVars
<1> QED
  BY <1>1, <1>2, ValidatorMoves

LEMMA ValidatorSendsKeeps ==
    ASSUME FleetInv, NEW id \in TaskIds, UNCHANGED <<workerVars, restarts>>,
           ValidatorSends(id)
    PROVE  FleetInv'
<1>1. MemoryShape /\ PoolShape /\ Handling(id, vRun[id])
  BY DEF FleetInv, FleetShape, RunsShape, ValidatorRun, Handling
<1>2. PICK tx : tx = vRun[id].tx
  OBVIOUS
<1>3. InWrite(vRun[id]) /\ pool' = pool \cup {tx} /\ UNCHANGED <<vars, faults>>
  BY <1>2 DEF ValidatorSends, Broadcast
<1>4. vRun[id] = RunOf(vRun[id].sent, tx) /\ ValidatorTx(id, tx)
  BY <1>1, <1>2, <1>3, HandlingWrites
<1> DEFINE run == RunOf(TRUE, tx)
<1>5. ValidatorGoes(id, run) /\ UNCHANGED <<tries, processed>>
  BY <1>4, SentRun DEF ValidatorSends
<1>6. run.sent = TRUE /\ run.tx = tx
  BY DEF RunOf
<1>7. Handling(id, run)
  BY <1>4, <1>6 DEF Handling
<1>8. MemoryShape'
  BY <1>1, <1>3, <1>5 DEF MemoryShape, workerVars
<1>9. \A t \in pool' : \E i \in TaskIds : WorkerTx(i, t) \/ ValidatorTx(i, t)
  BY <1>1, <1>3, <1>4 DEF PoolShape
<1> HIDE DEF run
<1> QED
  BY <1>3, <1>5, <1>7, <1>8, <1>9, ValidatorMoves

(* The handler's next write.                                                *)
LEMMA NextWrite ==
    ASSUME NEW id \in TaskIds, NEW tx, ValidatorTx(id, tx)
    PROVE  Handling(id, AfterTx(tx))
<1>1. tx.id = id
  BY ValidatorTxOps
<1>2. AfterTx(tx) \in {Writing(PlainTx("settleWithValidation", Validator, id)),
                       Writing(PlainTx("withdrawValidatorFees", Validator, id)), NoRun}
  BY <1>1 DEF AfterTx
<1>3. \A op \in {"settleWithValidation", "withdrawValidatorFees"} :
          Handling(id, Writing(PlainTx(op, Validator, id)))
  <2>1. ASSUME NEW op \in {"settleWithValidation", "withdrawValidatorFees"}
        PROVE  ValidatorTx(id, PlainTx(op, Validator, id))
    BY DEF ValidatorTx
  <2> QED
    BY <2>1, NewHandling
<1> QED
  BY <1>2, <1>3, NewHandling

LEMMA RecoversKeeps ==
    ASSUME FleetInv, NEW id \in TaskIds, UNCHANGED <<vars, pool, workerVars, restarts>>,
           faults' \in 0..MaxFaults, ValidatorRecovers(id)
    PROVE  FleetInv'
<1>1. MemoryShape /\ Handling(id, vRun[id])
  BY DEF FleetInv, FleetShape, RunsShape, ValidatorRun, Handling
<1>2. ValidatorTx(id, vRun[id].tx)
  BY <1>1, HandlingWrites DEF ValidatorRecovers
<1>3. CASE ValidatorGoes(id, AfterTx(vRun[id].tx)) /\ UNCHANGED <<tries, processed>>
  BY <1>1, <1>2, <1>3, NextWrite, ValidatorTurns DEF MemoryShape
<1>4. CASE /\ MayRetry(id) /\ tries' = [tries EXCEPT ![id] = @ + 1]
           /\ ValidatorGoes(id, Writing(vRun[id].tx)) /\ UNCHANGED processed
  <2>1. tries' \in [TaskIds -> 0..(Attempts - 1)]
    BY <1>1, <1>4, ValidatorAssumption DEF MemoryShape, MayRetry
  <2>2. Handling(id, Writing(vRun[id].tx))
    BY <1>2, NewHandling
  <2> QED
    BY <1>1, <1>4, <2>1, <2>2, ValidatorTurns DEF MemoryShape
<1>5. CASE Releases(id) /\ UNCHANGED tries
  BY <1>1, <1>5, NewHandling, ValidatorTurns DEF Releases, MemoryShape
<1> QED
  BY <1>3, <1>4, <1>5 DEF ValidatorRecovers

LEMMA ValidatorKeeps ==
    ASSUME FleetInv, NEW id \in TaskIds, ValidatorNext(id), UNCHANGED <<workerVars, restarts>>
    PROVE  FleetInv'
<1>1. MemoryShape /\ Handling(id, vRun[id])
  BY DEF FleetInv, FleetShape, RunsShape, ValidatorRun, Handling
<1>2. CASE ValidatorSees(id)
  <2>1. PICK run \in {At("scoring"), NoRun} : ValidatorGoes(id, run)
    BY <1>2 DEF ValidatorSees
  <2>2. /\ tasks[id].deliveredAt # 0 /\ processed' = processed \cup {id}
        /\ tries' = [tries EXCEPT ![id] = 0] /\ UNCHANGED <<vars, pool, faults>>
    BY <1>2 DEF ValidatorSees
  <2>3. tries' \in [TaskIds -> 0..(Attempts - 1)] /\ processed' \subseteq TaskIds
    BY <1>1, <2>2, ValidatorAssumption DEF MemoryShape
  <2>4. Handling(id, run)
    BY <2>2, NewHandling
  <2> QED
    BY <1>1, <2>1, <2>2, <2>3, <2>4, ValidatorTurns DEF MemoryShape
<1>3. CASE ValidatorScores(id)
  <2>1. PICK response \in Responses :
            ValidatorGoes(id, Writing(ResponseTx(Validator, id, tasks[id].deliverableHash,
                                                 response)))
    BY <1>3 DEF ValidatorScores
  <2>2. vRun[id].at = "scoring" /\ UNCHANGED <<vars, pool, faults, tries, processed>>
    BY <1>3 DEF ValidatorScores
  <2>3. tasks[id].deliveredAt # 0
    <3>1. NoRun.at # "scoring"
      BY DEF NoRun
    <3>2. ASSUME NEW sent \in BOOLEAN, vRun[id] = RunOf(sent, vRun[id].tx),
                 ValidatorTx(id, vRun[id].tx)
          PROVE  FALSE
      BY <2>2, <3>2, ValidatorTxOps DEF RunOf
    <3> QED
      BY <1>1, <2>2, <3>1, <3>2 DEF Handling
  <2>4. tasks[id].deliverableHash \in Hashes
    BY <2>3 DEF FleetInv, ChainInv, Inv, EvidenceShape
  <2>5. ValidatorTx(id, ResponseTx(Validator, id, tasks[id].deliverableHash, response))
    BY <2>4 DEF ValidatorTx
  <2> QED
    BY <1>1, <2>1, <2>2, <2>5, NewHandling, ValidatorTurns DEF MemoryShape
<1>4. CASE ValidatorSends(id)
  BY <1>4, ValidatorSendsKeeps
<1>5. CASE ValidatorHears(id)
  <2>1. InWrite(vRun[id]) /\ UNCHANGED <<vars, pool, faults>>
    BY <1>5 DEF ValidatorHears, Receipt
  <2>2. Handling(id, AfterTx(vRun[id].tx))
    BY <1>1, <2>1, HandlingWrites, NextWrite
  <2> QED
    BY <1>1, <1>5, <2>1, <2>2, ValidatorTurns DEF ValidatorHears, MemoryShape
<1>6. CASE ValidatorRefused(id)
  BY <1>1, <1>6, RecoversKeeps DEF ValidatorRefused, Refused, MemoryShape
<1>7. CASE ValidatorFails(id)
  <2>1. UNCHANGED <<vars, pool>> /\ faults' \in 0..MaxFaults
    BY <1>1, <1>7, FaultsAssumption DEF ValidatorFails, CallFails, MemoryShape
  <2>2. CASE Releases(id) /\ UNCHANGED tries
    BY <1>1, <2>1, <2>2, NewHandling, ValidatorTurns DEF Releases, MemoryShape
  <2> QED
    BY <1>7, <2>1, <2>2, RecoversKeeps DEF ValidatorFails
<1> QED
  BY <1>2, <1>3, <1>4, <1>5, <1>6, <1>7 DEF ValidatorNext, ValidatorStep

-----------------------------------------------------------------------------
(* The chain's steps and the restarts. *)

(* What the daemons' memory stays true to when only the chain moves.        *)
LEMMA ChainMoves ==
    ASSUME FleetInv, ChainStep, UNCHANGED <<workerVars, validatorVars>>,
           pool' \subseteq pool, MemoryShape',
           \A tx \in pool : tx \in pool' \/ Mine(tx)
    PROVE  FleetInv'
<1> USE DEF FleetInv, FleetShape
<1>1. ChainInv' /\ (SlotsRight /\ DeliveriesFiled)'
  BY ChainNext, NextSlots
<1>2. wRun' = wRun /\ vRun' = vRun /\ claimedTasks' = claimedTasks
  BY DEF workerVars, validatorVars
<1>3. RunsShape'
  <2>1. ASSUME NEW i \in TaskIds PROVE WorkerRun(i)'
    <3>1. PICK r : r = wRun[i]
      OBVIOUS
    <3>2. Allowed(i, r) /\ wRun' = [wRun EXCEPT ![i] = r]
      BY <1>2, <3>1 DEF RunsShape, WorkerRun, Allowed
    <3> QED
      BY <3>2, WorkerRunsNext
  <2>2. \A i \in TaskIds : ValidatorRun(i)'
    BY <1>2, ValidatorRunKept
  <2> QED
    BY <1>2, <2>1, <2>2 DEF RunsShape
<1>4. PoolShape'
  <2>1. \A tx \in pool' : \E i \in TaskIds : WorkerTx(i, tx) \/ ValidatorTx(i, tx)
    BY DEF PoolShape
  <2> QED
    BY <2>1, PoolNext
<1>5. \A i \in TaskIds : \A h \in Hashes : Filed(<<i, h>>) => Filed(<<i, h>>)'
  <2>1. \A i \in TaskIds : \A h \in Hashes : <<i, h>> \in RequestHashes
    BY DEF RequestHashes
  <2> QED
    BY <2>1, ChainKeeps
<1>6. RequestLands'
  <2> SUFFICES ASSUME NEW i \in TaskIds, wRun[i].at = "validationRequest", wRun[i].sent,
                      wRun[i].tx \notin pool'
               PROVE  Filed(<<i, wRun[i].tx.hash>>)'
    BY <1>2 DEF RequestLands
  <2>1. Allowed(i, wRun[i])
    BY DEF RunsShape, WorkerRun, Allowed
  <2>2. WorkerTx(i, wRun[i].tx) /\ wRun[i].tx.op = "validationRequest"
    BY <2>1, RunWrites DEF RunOf, InWrite
  <2>3. PICK hash \in Hashes :
            wRun[i].tx = RequestTx(Worker, i, tasks[i].validatorWallet, WorkerAgent, hash)
    BY <2>2, WorkerTxOps
  <2>4. wRun[i].tx.hash = hash
    BY <2>3 DEF RequestTx
  <2>5. tasks[i].validatorWallet \in Accounts
    BY <2>2 DEF WorkerTx, ChainInv, Inv, TaskShape
  <2>6. Filed(<<i, hash>>)'
    <3>1. CASE wRun[i].tx \notin pool
      BY <1>5, <2>4, <3>1 DEF RequestLands
    <3>2. CASE wRun[i].tx \in pool
      <4>1. PICK v \in Accounts : v = tasks[i].validatorWallet
        BY <2>5
      <4>2. Mine(RequestTx(Worker, i, v, WorkerAgent, hash))
        BY <2>3, <3>2, <4>1
      <4> QED
        BY <4>2, MinedRequest, WorkerAssumption DEF ChainInv, Inv
    <3> QED
      BY <3>1, <3>2
  <2> QED
    BY <1>2, <2>4, <2>6
<1>7. MarksTold'
  <2> SUFFICES ASSUME NEW i \in claimedTasks
               PROVE  /\ tasks'[i].state = "Settled"
                      /\ \/ Paid(i)'
                         \/ wRun[i].at = "claim" /\ (wRun[i].sent => wRun[i].tx \in pool')
    BY <1>2 DEF MarksTold
  <2>1. i \in TaskIds /\ tasks[i].state = "Settled"
    BY DEF MemoryShape, MarksTold
  <2>2. tasks'[i].state = "Settled" /\ (Paid(i) => Paid(i)')
    BY <2>1, PaidStays
  <2>3. CASE wRun[i].at = "claim" /\ wRun[i].sent /\ wRun[i].tx \in pool /\ wRun[i].tx \notin pool'
    <3>1. Allowed(i, wRun[i])
      BY <2>1 DEF RunsShape, WorkerRun, Allowed
    <3>2. WorkerTx(i, wRun[i].tx) /\ wRun[i].tx.op = "claim"
      BY <2>1, <2>3, <3>1, RunWrites DEF RunOf, InWrite
    <3>3. wRun[i].tx = PlainTx("claim", Worker, i)
      BY <2>1, <3>2, WorkerTxOps
    <3>4. Paid(i)'
      BY <2>1, <2>3, <3>3, MinedClaim
    <3> QED
      BY <2>2, <3>4
  <2> QED
    BY <2>1, <2>2, <2>3 DEF MarksTold
<1> QED
  BY <1>1, <1>3, <1>4, <1>6, <1>7

LEMMA ChainStepsKeep ==
    ASSUME FleetInv, TimePasses \/ Others \/ \E tx \in pool : Mine(tx),
           UNCHANGED <<workerVars, validatorVars, restarts>>
    PROVE  FleetInv'
<1>1. MemoryShape /\ PoolShape /\ ChainInv
  BY DEF FleetInv, FleetShape
<1>2. faults' = faults
  BY DEF TimePasses, Others, Mine
<1>3. MemoryShape'
  BY <1>1, <1>2 DEF MemoryShape, workerVars, validatorVars
<1>4. CASE TimePasses \/ Others
  <2>1. pool' = pool
    BY <1>4 DEF TimePasses, Others
  <2>2. TimePasses => ChainStep
    BY DEF TimePasses, ChainStep, Ordinary, Waits
  <2>3. ChainStep
    BY <1>1, <1>4, <2>2, OthersSteps
  <2> QED
    BY <1>3, <2>1, <2>3, ChainMoves
<1>5. ASSUME NEW tx \in pool, Mine(tx) PROVE FleetInv'
  <2>1. pool' = pool \ {tx}
    BY <1>5 DEF Mine
  <2>2. ChainStep
    BY <1>1, <1>5, MineSteps
  <2>3. \A t \in pool : t \in pool' \/ Mine(t)
    BY <1>5, <2>1
  <2> QED
    BY <1>3, <2>1, <2>2, <2>3, ChainMoves
<1> QED
  BY <1>4, <1>5

LEMMA RestartKeeps == ASSUME FleetInv, Restart PROVE FleetInv'
<1> USE DEF FleetInv, FleetShape
<1>1. UNCHANGED <<vars, pool, faults>>
  BY DEF Restart, WorkerRestarts, ValidatorRestarts
<1>2. ChainStep
  BY <1>1 DEF ChainStep, Ordinary
<1>3. ChainInv' /\ (SlotsRight /\ DeliveriesFiled)'
  BY <1>2, ChainNext, NextSlots
<1>4. PoolShape'
  <2>1. \A tx \in pool' : \E i \in TaskIds : WorkerTx(i, tx) \/ ValidatorTx(i, tx)
    BY <1>1 DEF PoolShape
  <2> QED
    BY <1>2, <2>1, PoolNext
<1>5. restarts' \in 0..MaxRestarts
  BY FleetAssumption DEF Restart, MemoryShape
<1>6. \A h : Filed(h)' <=> Filed(h)
  BY <1>1 DEF Filed, vars, registries
<1>7. \A i \in TaskIds : (Paid(i)' <=> Paid(i)) /\ tasks'[i] = tasks[i]
  BY <1>1 DEF Paid, PreviewPayout, ClaimOpen, Entitlement, vars, market, books
<1>8. NoRun.at = "idle"
  BY DEF NoRun
<1>9. CASE WorkerRestarts /\ UNCHANGED validatorVars
  <2>1. /\ wRun' = [i \in TaskIds |-> NoRun] /\ claimedTasks' = {} /\ intakes' = intakes
        /\ vRun' = vRun /\ tries' = tries /\ processed' = processed
    BY <1>9 DEF WorkerRestarts, validatorVars
  <2>2. RunsShape'
    <3>1. \A i \in TaskIds : WorkerRun(i)'
      BY <2>1 DEF WorkerRun
    <3>2. \A i \in TaskIds : ValidatorRun(i)'
      BY <1>2, <2>1, ValidatorRunKept
    <3> QED
      BY <2>1, <3>1, <3>2 DEF RunsShape
  <2>3. MemoryShape'
    BY <1>1, <1>5, <2>1 DEF MemoryShape
  <2>4. RequestLands' /\ MarksTold'
    BY <1>8, <2>1 DEF RequestLands, MarksTold
  <2> QED
    BY <1>3, <1>4, <2>2, <2>3, <2>4
<1>10. CASE ValidatorRestarts /\ UNCHANGED workerVars
  <2>1. /\ vRun' = [i \in TaskIds |-> NoRun] /\ processed' = {}
        /\ tries' = [i \in TaskIds |-> 0]
        /\ wRun' = wRun /\ claimedTasks' = claimedTasks /\ intakes' = intakes
    BY <1>10 DEF ValidatorRestarts, workerVars
  <2>2. RunsShape'
    <3>1. ASSUME NEW i \in TaskIds PROVE WorkerRun(i)'
      <4>1. PICK r : r = wRun[i]
        OBVIOUS
      <4>2. Allowed(i, r) /\ wRun' = [wRun EXCEPT ![i] = r]
        BY <2>1, <4>1 DEF RunsShape, WorkerRun, Allowed
      <4> QED
        BY <1>2, <4>2, WorkerRunsNext
    <3>2. \A i \in TaskIds : ValidatorRun(i)'
      BY <2>1 DEF ValidatorRun
    <3> QED
      BY <2>1, <3>1, <3>2 DEF RunsShape
  <2>3. MemoryShape'
    BY <1>1, <1>5, <2>1, ValidatorAssumption DEF MemoryShape
  <2>4. RequestLands'
    BY <1>1, <1>6, <2>1 DEF RequestLands
  <2>5. MarksTold'
    BY <1>1, <1>7, <2>1 DEF MarksTold, MemoryShape
  <2> QED
    BY <1>3, <1>4, <2>2, <2>3, <2>4, <2>5
<1> QED
  BY <1>9, <1>10 DEF Restart

LEMMA StutterKeeps == ASSUME FleetInv, UNCHANGED fleetVars PROVE FleetInv'
<1>1. UNCHANGED <<vars, workerVars, validatorVars, pool, faults, restarts>>
  BY DEF fleetVars, txVars
<1>2. ChainStep
  BY <1>1 DEF ChainStep, Ordinary
<1>3. MemoryShape'
  BY <1>1 DEF FleetInv, FleetShape, MemoryShape, workerVars, validatorVars
<1> QED
  BY <1>1, <1>2, <1>3, ChainMoves

LEMMA FleetKeeps == ASSUME FleetInv, [FleetNext]_fleetVars PROVE FleetInv'
<1>1. ASSUME NEW id \in TaskIds, WorkerNext(id), UNCHANGED <<validatorVars, restarts>>
      PROVE  FleetInv'
  BY <1>1, WorkerKeeps
<1>2. ASSUME NEW id \in TaskIds, ValidatorNext(id), UNCHANGED <<workerVars, restarts>>
      PROVE  FleetInv'
  BY <1>2, ValidatorKeeps
<1> QED
  BY <1>1, <1>2, ChainStepsKeep, RestartKeeps, StutterKeeps DEF FleetNext

-----------------------------------------------------------------------------
(* The result. *)

LEMMA FleetStarts == FleetInit => FleetInv
<1> SUFFICES ASSUME FleetInit PROVE FleetInv
  OBVIOUS
<1>1. Init /\ pool = {} /\ faults = 0 /\ restarts = 0 /\ WorkerInit /\ ValidatorInit
  BY DEF FleetInit
<1>2. ChainInv
  BY <1>1, InitInv, InitPots, InitEscrow DEF ChainInv, MoneyInv
<1>3. RunsShape /\ PoolShape
  BY <1>1 DEF RunsShape, PoolShape, WorkerInit, ValidatorInit, WorkerRun, ValidatorRun
<1>4. MemoryShape
  BY <1>1, FaultsAssumption, FleetAssumption, ValidatorAssumption
     DEF MemoryShape, WorkerInit, ValidatorInit
<1>5. RequestLands /\ MarksTold
  <2>1. NoRun.at = "idle"
    BY DEF NoRun
  <2> QED
    BY <1>1, <2>1 DEF RequestLands, MarksTold, WorkerInit
<1>6. SlotsRight
  <2>1. \A h \in RequestHashes : ~Filed(h)
    BY <1>1 DEF Filed, Init, Validation!NoStatus
  <2> QED
    BY <2>1 DEF SlotsRight, RequestHashes
<1>7. DeliveriesFiled
  BY <1>1 DEF DeliveriesFiled, Init, NoTask
<1> QED
  BY <1>2, <1>3, <1>4, <1>5, <1>6, <1>7 DEF FleetInv, FleetShape

LEMMA MemoryMatches == FleetInv => MemoryMatchesTheChain
<1> SUFFICES ASSUME FleetInv PROVE MemoryMatchesTheChain
  OBVIOUS
<1> USE DEF FleetInv, FleetShape
<1>1. FleetTypeOK
  <2>1. ASSUME NEW id \in TaskIds
        PROVE  /\ wRun[id].at \in Stages /\ wRun[id].sent \in BOOLEAN
               /\ InWrite(wRun[id]) => wRun[id].at = wRun[id].tx.op /\ wRun[id].tx.id = id
    <3>1. Allowed(id, wRun[id])
      BY DEF RunsShape, WorkerRun, Allowed
    <3> QED
      BY <3>1, RunWrites, WorkerTxOps DEF RunOf
  <2>2. ASSUME NEW id \in TaskIds
        PROVE  /\ vRun[id].at \in Stages /\ vRun[id].sent \in BOOLEAN
               /\ InWrite(vRun[id]) => vRun[id].at = vRun[id].tx.op /\ vRun[id].tx.id = id
    <3>1. Handling(id, vRun[id])
      BY DEF RunsShape, ValidatorRun, Handling
    <3> QED
      BY <3>1, HandlingWrites, ValidatorTxOps DEF RunOf
  <2> QED
    BY <2>1, <2>2 DEF FleetTypeOK, MemoryShape
<1>2. RequestPrecedesDelivery
  <2> SUFFICES ASSUME NEW id \in TaskIds, tasks[id].deliveredAt # 0
               PROVE  Rightly(id, StatusOf(id))
    BY DEF RequestPrecedesDelivery, Rightly
  <2>1. tasks[id].deliverableHash \in Hashes
    BY DEF ChainInv, Inv, EvidenceShape
  <2> QED
    BY <2>1 DEF SlotsRight, DeliveriesFiled, StatusOf
<1>3. ClaimedMeansPaid
  BY DEF MarksTold, ClaimedMeansPaid, Paid
<1> QED
  BY <1>1, <1>2, <1>3 DEF MemoryMatchesTheChain

(* Whatever is lost, repeated, restarted or done by others: a delivery of   *)
(* this worker is on chain only after the request it is answered through,   *)
(* a task is remembered as claimed only when nothing is left to claim or    *)
(* the claim is under way, and a run that writes is at the operation it     *)
(* writes (worker.ts:58-386, validator.ts:74-226); for any number of        *)
(* tasks, rivals, lost calls and restarts.                                  *)
THEOREM MemoryIsTrue == FleetSpec => []MemoryMatchesTheChain
<1>1. FleetInit => FleetInv
  BY FleetStarts
<1>2. FleetInv /\ [FleetNext]_fleetVars => FleetInv'
  BY FleetKeeps
<1>3. FleetInv => MemoryMatchesTheChain
  BY MemoryMatches
<1> QED
  BY <1>1, <1>2, <1>3, PTL DEF FleetSpec

(* The money is covered with the daemons at work, too: every step of the    *)
(* fleet is one the contract's own theorems are about, a transaction that   *)
(* is mined late or twice included.                                         *)
THEOREM FleetIsSolvent == FleetSpec => []Solvency
<1>1. FleetInit => FleetInv
  BY FleetStarts
<1>2. FleetInv /\ [FleetNext]_fleetVars => FleetInv'
  BY FleetKeeps
<1>3. FleetInv => Solvency
  BY PotsSound DEF FleetInv, ChainInv, MoneyInv, Solvency
<1> QED
  BY <1>1, <1>2, <1>3, PTL DEF FleetSpec
=============================================================================
