# ORACLE: a verification of the outcome markets

ORACLE lets a client post a task with an escrowed reward; a worker agent accepts
it by staking on its own success; other agents bet on YES or NO; the worker
delivers; a validator answers through an ERC-8004 validation registry; and one
contract, `OracleCore`, decides the outcome and pays. Around the contract run
agent daemons that pay each other per request over x402, an indexer with an HTTP
and WebSocket server, and a web UI from which markets are opened and bets placed.

This directory holds TLA+ modules translated from that code, TLC configurations
that check them on small instances, and theorems checked by TLAPS for all
instances. `PROJECT.json` maps every definition to the source lines it models.

## 1. Inventory

| Part | Source | State it keeps | Operations | Hard to get right |
|---|---|---|---|---|
| OracleCore | `contracts/src/OracleCore.sol` | tasks, positions, pools, claims, fees, USDC balance | 13 external functions | competing settlement rules, time boundaries, floor division, role bans under wallet rotation, one balance for all tasks |
| ValidationRegistry | `contracts/src/registries/` | one status per request hash | request, response | first filer wins a hash, one answer for good, anyone may file |
| Identity registry | `contracts/src/mocks/MockIdentityRegistry.sol` | owner and wallet per agent | register, set wallet, transfer | the same agent is somebody else later; on a shared chain everybody registers |
| Reputation registry | `contracts/src/mocks/MockReputationRegistry.sol` | feedback rows | giveFeedback | may revert inside a settlement |
| USDC | `contracts/src/mocks/MockUSDC.sol` | balances, allowances, used nonces | transfers, transferWithAuthorization | one nonce pays once, inside its window |
| Worker | `agents/src/worker.ts` | in-memory set of tasks being driven | accept, execute, file request, deliver, claim, reconcile | stop between any two of these |
| Validator | `agents/src/validator.ts` | in-memory in-flight set | intake, check, answer, settle, reconcile | stop after the answer and before the settlement |
| Bettors | `agents/src/lib/bettor-runtime.ts`, `strategies.ts` | in-memory acted, bet-on, claimed sets | decide, bet, claim | events seen twice, restart, a list that is old, a window that closes |
| Chain access | `agents/src/lib/chain.ts` | log cursors | retries, write-and-wait, event polling | a write that failed to report may still be mined |
| LLM advice | `agents/src/mastra/` | none | confidence, solution, bet, judgement | slow, absent or out of range |
| x402 | `shared/src/x402-lite.ts`, `server/src/x402.ts`, `agents/src/lib/payments.ts`, `vendor.ts` | the state of each call, nonces on chain | challenge, sign, verify, settle, serve | paid but not served, served but not paid, paid twice |
| Facilitator | `server/src/facilitator-local.ts` | one relayer account | verify, settle | calls that share the relayer's nonce, a receipt that is lost or failed |
| Indexer, DB | `server/src/indexer.ts`, `db.ts` | SQLite rows, block cursors | reset, catch-up, live poll, handlers | events lost, repeated or applied in part; two log streams; a chain that starts afresh |
| Trust score | `server/src/trust.ts` | none (pure) | compute | small samples, rounding |
| API, console | `server/src/api.ts`, `console.ts` | rings of activity, payments, transactions; director | routes, replay | rings at their limit |
| Control plane | `server/src/control.ts` | two wallets, approved flags, files | create market, place bet | requests that share a wallet and its nonce |
| Live feed, store | `server/src/ws.ts`, `web/src/ws.ts`, `store.ts`, `market.ts` | store derived from messages | reduce, reconnect | a message before its subject; what is missed while away |
| Scripted feed, pages | `web/src/mockFeed.ts`, `App.tsx`, `components/` | timers | play, render | a script that must be a market |
| Bring-up, demo | `scripts/`, `agents/src/cli/` | deployment JSON | deploy, fund, register, demo | stopped anywhere and run again |

The parts meet in few places. Daemons call the contracts by transactions and
learn about each other through contract events; the worker and validator share
the request hash of a delivery through the ValidationRegistry; OracleCore calls
the three registries and USDC synchronously; bettors learn of tasks from the
server's list and buy odds and trust from it, the worker buys its input from the
vendor and pays the validator's intake; the indexer reads the chain's events and
the UI sees only what the indexer recorded.

What makes each part correct:

* **OracleCore**: solvent whatever is called in whatever order; the outcome is
  the one the evidence calls for; a finished task's payouts never change; bans
  hold for positions, not only for calls; every task ends, and its money leaves.
* **Registries**: a stored answer is final and cannot be forged or re-filed.
* **Daemons**: each task is driven to its end once, across restarts and retries.
* **x402**: who pays is served, who is served has paid, who is refused keeps its money.
* **Indexer**: its rows are what the events say, whatever stopped or failed; it
  catches up.
* **Trust**: the number that is sold scores exactly the tasks that are settled.
* **Control plane**: an error opened nothing; a reply says what happened.
* **Live feed**: a client that is up to date shows what the server has.
* **Agents**: they decide in time and within what the contract accepts.
* **Bring-up**: however often it is run again, each role has its agent and money.

The hazards behind these are listed in `PROJECT.json` with their source lines.

## 2. Modules

| Module | Models | Kind |
|---|---|---|
| `OracleParams` | constructor parameters and pure payout arithmetic | constants, operators |
| `IdentityRegistry` | agent owners and wallets | component |
| `ValidationRegistry` | request status per hash | component |
| `OracleCore` | the contract, composed with both registries, its USDC balance, the reputation write-back and the clock | component, composition |
| `Sums` | finite sums as cardinalities, so that proofs need no recursion | operators |
| `PotEscrow` | the abstract promise: one pot per task, money moves only along its life | abstract specification |
| `OracleSafety` | types, invariants, action and liveness properties, refinement mapping, the inductive invariant | properties |
| `Transactions` | the write path of `chain.ts` over OracleCore: pending transactions, receipts, lost calls | component |
| `WorkerDaemon` | `worker.ts`: `driveTask`, reconcile, restart | component |
| `ValidatorDaemon` | `validator.ts`: `handleDelivery`, reconcile, restart | component |
| `Fleet` | both daemons and everybody else on one chain; its properties | composition |
| `BettorDaemon` | `bettor-runtime.ts` among other accounts; its properties | component, composition |
| `MarketIndex` | two event logs, the indexer, its tables, the trust score | component |
| `IndexSafety` | what the tables owe to the logs | properties |
| `Payments` | buyer, gate, facilitator, relayer and USDC of an x402 call | component, composition |
| `PaymentSafety` | what a call owes to its buyer and its seller | properties |
| `LiveFeed` | the server's tables, rings and broadcasts, the socket, the client's store | component, composition |
| `MockFeed` | the scripted market and the page's choice between the two feeds; extends `LiveFeed` | component |
| `FeedSafety` | what the console shows | properties |
| `ControlPlane` | the requests that open markets and place bets with the server's keys | component |
| `ControlSafety` | what a reply is worth | properties |
| `AgentSetup` | deploy, fund, register; stops and reruns | component |
| `Strategies` | confidence, stakes, the three bettors' rules, clamps on the model's advice | operators |
| `BusinessDays` | the calendar task's solver and hidden suite | operators |
| `AgentMarket` | one market among the agents with a clock in seconds, and the demo; extends the three before | component, composition |
| `AgentSafety` | what agents and bring-up owe | properties |
| `MCOracle`, `MCFleet`, `MCBettor`, `MCIndex`, `MCPayments`, `MCFeed`, `MCControl`, `MCAgents` | instances for TLC | model checking |
| `DataProofs` | finite sums, shares by floor division, queues | lemmas |
| `OracleProofs` | types and shapes of tasks, role bans, incentives, frozen payouts, outcome by the best evidence, the frozen market; solvency; the contract implements `PotEscrow`; pools, counts and claims agree with the positions; early sweeps; what both daemons remember agrees with the chain | proofs |
| `BettorProofs` | how often a bettor bets | proofs |
| `PaymentProofs` | what a call owes to its buyer and its seller | proofs |
| `ControlProofs` | approvals, errors and replies of the control plane | proofs |
| `FeedProofs` | what a console shows follows the server | proofs |
| `IndexProofs` | tables, trust tuple and reported block follow the logs | proofs |
| `AgentProofs` | agents and money after any bring-up; the bettors' clocks and rules | proofs |

Operators introduced by a comment "Seeded fault" are plausible bugs in the
definition that follows them. No specification uses them: each shows that a
property fails when the code is wrong in that way.

A property of a run is often the conjunction of named parts that answer one
question about one structure; each part has its comment, and the seeded faults
of a grouped property break its parts one by one.

### How OracleCore corresponds to the code

One action per external function. A `revert` is a guard that fails: guards are exactly
the code's conditions, `whenNotPaused` included, and those that a transaction or a
property asks about are operators of their own (`MayAccept`, `MayBet`, `MayDeliver`,
`MaySettle`, `Undelivered`, `Unanswered`, `MayClaim`, `MayWithdraw`, the registry's
`MayRequest` and `MayRespond`).
`nonReentrant` and the atomicity of transactions make each function one step;
calls of different accounts interleave freely, several may share a timestamp,
and `Tick` may come between any two. `_finalize` is the operator `Finalize`,
used by the four settlement rules.

Storage maps to variables of the same name. `escrow` is
`USDC.balanceOf(address(this))`; a transfer out larger than the balance
reverts, which is the guard `amount <= escrow` (the solvency invariant says it
never matters). `viaRule` remembers the `viaRule` of the `OutcomeResolved`
event and `feedback` the rows the reputation registry received. Request hashes
are pairs of task and deliverable hash; keccak is taken to be injective.
`positions` and pools are indexed by side instead of by separate fields.
`uint128` narrowing is not modelled: pools are capped by `MAX_POOL_PER_SIDE`,
products are computed in `uint256`, and the theorem `TypeCorrect` shows no
amount goes below zero. `feedback` fails or succeeds nondeterministically.

Left out because nothing in the system's control reads them: spec hash and
URIs, `acceptedAt`, evidence URI, events other than the outcome's, the
`impliedProbabilityBps` view. A bet of amount zero (only with `MIN_BET = 0`)
counts its bettor again on every call; the runs use `MIN_BET = 1`.

### How the daemons correspond to the code

A daemon is an event loop, so its handlers are broken where they await: between
two steps of a run anything else may happen, other runs of the same daemon
included. What a run knows is its record in `wRun` or `vRun`: the stage it waits
at and, while it writes, the transaction. `inFlight` is the set of tasks whose
run is not idle. `processed`, `claimedTasks`, `acted` and `betOn` are the sets of
that name (`claimedBets` is the bettor's `claimed`). Reads that are followed by
no await before their use are one step with it; `getTask` before a wait is a
step of its own, and the task is read again where the code reads it again.

`writeAndWait` is three steps. Simulation and broadcast (`Broadcast`, or `Refused` if the call
reverts now), then inclusion (`Mine`) of whatever is in `pool`, in any order and at
any time, then the receipt (`Receipt`), whose status the code does not look at:
a transaction that reverted when mined counts as done. `CallFails` is a call
that failed after all of `withRpcRetry`'s attempts; the transaction it was about may be
pending. A restart loses every run and the memory, and leaves `pool` alone. A call
reverts when its guard fails (`Accepts`, `Reverts`). Two simplifications: transactions of one
account may be mined out of nonce order, which adds behaviours; and a second copy of a
transaction is modelled for bets only, since a second copy of any other call reverts.

Events and `reconcile` call the same handler, so both are the same action. A log
may be handled at any later time, or never if the task has moved on; `reconcile`
makes up for it. What an agent decides is an input here (take a job, stake, solution, score, side
and amount, abstain); `AgentMarket` has the decisions. Declining is not taking the step. `intakes`
counts intake payments per task, up to 2.

The bettor's tick works from `rows`, one reading of the server's list and of the
local clock. The indexer's lag is covered: a list that is old when it is read is
a list that was read earlier.

### How the indexer corresponds to the code

The chain is two sequences, `core` and `val`, of events; a block holds one
transaction (a delivery emits two events), and its number is its time. What state a task is
in follows from the events about it (`StateOn`, `Market`). A handler is a list of
SQL statements (`Script`), each the effect of `Exec` on the tables; `After` gives the tables after each of them in turn, `Handles` runs
all, and `StopsMidway` ends the process between two of them or
before the cursor moves (`Advance`). The tables survive, `queue` and `polled` do not. `HandlerFails` is the
catch in `processBatch`: the error is logged, the cursor advances. A poll queues
the core's logs before the registry's, of one range (`Scan`), so an answer may be handled
before or after the delivery it is about. `FreshChain` is a local node started
again over the old tables; `ResetIfDeploymentChanged` wipes them when the fingerprint differs. With
`KeepsAddress` it does not differ, because deployments by the same key from the
same nonce get the same address (`db.ts:122-127`): then rows of the old chain are
updated by events of the new one. The run uses a fresh address. The trust tuple
keeps its averages as sums, in basis points squared for the Brier score; what `IndexSafety`
compares it with is computed from the log alone.

### How the payments correspond to the code

A call is a purchase by a buyer of an item of its list in a round: a bettor's tick is
odds then trust, a worker's delivery is input then intake. `client`, `gate` and `fac` are where the buyer's fetch, the
middleware and `/settle` stand; a reply that is lost on a leg leaves the
other side running. The gate's checks, `/verify` and the second verify inside
`/settle` are steps of their own, `writeContract` is two (the estimate with the
nonce, the send) because two settlements share the relayer's account: the node
refuses the second with the same nonce. The receipt's status is not read. `transferWithAuthorization` is
`Transfers` or `Fails`. An authorization's window may end between any two steps. The vendor's,
the validator's and the server's routes answer 404 for what they do not have.
`reports` is what was told to the console. Prices are in tenths of a cent.

### How the live feed corresponds to the code

A handler's write and its broadcasts are one step of the server, since nothing
awaits between them (a delivery's two events are two steps, `Starts` and `Delivers`); the socket is a queue. A new connection gets the snapshot
first, as in `attachWs`. `Receives` applies one message with `Reducer`. `Closes` is what a broken socket, a
reload and a restart of the server have in common; messages in flight are lost. The ring is
one sequence for the three the server has (their code is the same), with
its capacity and the store's as constants. `away` collects the bets broadcast while
the client was not connected; `tainted` says that a line of a replayed run
reached this connection. `MockFeed` runs the same reducer on `Script`, whose times
are `mockFeed.ts`'s in tenths of a second; a timer may be up to `Late` late and the
clock is rounded down to seconds, as in `App`. The tasks of the script and the
chain's are told apart by `mock`, which the address chooses.

### How the control plane corresponds to the code

`at[r]` is where request `r` stands: allowance, approval, simulation,
estimate with nonce, send, receipt. Two wallets serve all requests, of which at most
`MaxRequests` are made. `Allowed` is every check of `createTask` and `placeBet` that can
fail for what the page sends (pause, state, cutoff, minima, the agent's controller, role
bans, the pool cap, money and allowance); it is evaluated at the simulation, at the gas estimate and
in the block. A mined call that it refuses is in the block all the same, and the reply is the
simulated market number. `Others` is what may come in between: tasks that bar the human,
acceptances (early or so late that R1 fires before the cutoff), other bets, settlements, pauses, the agent
sold, the wallet used by another program, the clock. `met[r]` records which of them hindered
`r` between its simulation and its block; no guard reads it. A custom market's spec is a file named after its
question; listed files share the template name `custom`, so picking one takes the
first found. Assumed: `OPEN_WORKER` is not set, and `CLIENT_KEY` and `HUMAN_KEY` are
different accounts, neither the validator's.

### How the agents correspond to the code

`AgentSetup` is `deploy-fuji.sh`: three programs, each a loop over its roles.
`script` is the place in it; a stop may come anywhere, with transactions in
`mempool`; a rerun starts at the program's beginning (both loops of `fund-fuji.ts` are one
program, `Program`), a redeployment with an empty JSON; both end at once for a deployer without money. The identity
registry is shared and has had `TAKEN` ids before (`deployments/fuji.json` has ids above 200); strangers register
between simulation and block. A node takes a
registration only if the wallet's gas covers it and those it has pending. The gas of the deployment and the mints is not counted.

`AgentMarket` starts from a fresh fleet or from one that is up with any of the `Histories` and of the `Purses`: what each
wallet has spent, lost or won. It posts one market and counts seconds from acceptance.
A tick of a bettor is three steps with time between them: the list is there and the clock
is read (`Polls`), the odds and the trust tuple are paid for and the decision is made (`Decides`), the
bet reaches the chain (`Places`); any of the reads may fail before or after its payment
(`ReadFails`), an indexer that lags among them. `slow` counts the seconds the tick takes after it has read the
clock, `lost` those of earlier ticks and of waiting for the list; only a sleep takes the time the code gives it.
`StakeRefused` and `BetRefused` are the contract's checks in its order. In the way are the owner's pause, another
worker, and the other bettors. Not followed: the worker's own purchases after acceptance, and the market of another
worker. A built-in template that the form posts is treated as the demo's task of that kind.
The model's answer is any value its schema allows, at the
extremes of `Confidences`, `ModelBets` and `Verdicts`, clamped as in `agents.ts`; it may
fail, and then the rule decides. The calendar task is judged by running `BusinessDays`; the slugify
solver passes its suite (it is judged by its text, not computed), and either suite may not run, which scores zero (`HarnessScore(0, 0)`).

## 3. Runs

Clocks and counters are bounded, so a model stops there and deadlock is not
checked. Every bound is a CONSTANT with `Max` in its name or is marked `bound` where it stands.

| Run | Question | Instance |
|---|---|---|
| `OracleMoney` | Is every amount covered, counted and frozen; do the pots behave as promised? | 5 accounts, 2 bettors, bets of 1 and 2 on a reward of 3, 40% fee, 50% share: every division leaves a remainder; response 101 is offered and must be refused |
| `OracleEvidence` | Does the outcome follow from the evidence; do bans add up and pay; can a bet meet a delivery? | requests for the right pair, a wrong validator and a wrong agent; scores 79 and 80 at threshold 80; dispute and grace windows of one tick so that on time, last moment and late all occur; rotations of the worker's wallet to the bettor and back, sale of the validator agent, open, pre-assigned and self-posted jobs |
| `OracleProgress` | Does every task end, and does all its money leave? | acceptance as late as the deadline, the request slot possibly taken by the client for itself, pauses at two instants, reputation always reverting, a bettor, claims and sweep |
| `OracleTwoTasks` | Do tasks borrow from each other? | two tasks in one balance, validator share 100% so that fees of both accrue to one wallet |
| `FleetLoop` | Does the chain ever show a delivery without its request; does memory ever say claimed of money not paid; is every accepted task driven to its end, answered, settled and paid? | open job, two solutions, a rival worker, a squatter on the request slot, a pause, a local clock one tick fast or slow, one lost call and one restart of either daemon at any step |
| `BettorLoop` | How often can a bettor bet, and is it paid? | bets of 1, all lags of the list, skewed clock, one lost call or reply, one restart |
| `IndexFollow` | Do the tables and the trust tuple follow the logs, do they hold what happened up to the reported block, and does it catch up? | one task through all its life with every outcome, a bet, six blocks, then one chain started afresh over the old tables; one stop between any two statements or one failed handler |
| `PaymentPath` | Who pays without being served, is served without paying, or pays twice; does each call end? | a worker with 15 for two purchases of 10 each, a bettor with 11 for two rounds of 6: each runs out in the middle; one lost reply or outlived authorization |
| `LiveFeed` | Does the console show what the server has; what does it miss; is the script a market? | one live task, two bets, rings and feeds of 2 with 4 items, so that both overflow; one break, reload or restart, one failed handler, one replayed line of three kinds; all of the script with timers up to one second late |
| `ControlPlane` | What is an error worth, and a success? | two market requests and two bets (interchangeable each), any two of them made, over funds of 3, so that a second market of 2 is not covered and two bets race for one wallet; pools capped at 3, so that one bet fills what another was simulated with; custom and built-in specs; one task accepted, one move of others (another client's task, a pause, a sale, a bet, the key used elsewhere), settlements when due; one lost receipt; three ticks, enough for a betting window of 1, an acceptance window of 3 and a margin of 1 to pass, and for R1 to fire before the cutoff |
| `AgentFleet` | Does bring-up survive stops; are agents in time and within the contract's limits, and why not; does the demo end as scripted? | five roles and the relayer, 5 ids taken before with a scan of 4, two mishaps, each a stop, a failed mint or a redeployment, one foreign agent; both demo tasks and custom ones with rewards of 1.5 and 210 USDC; purses that do not cover the second one's stake or the skeptic's bet; deadlines before and after the cutoff, acceptances in and past their window; two bettors at a time, all phases of their sleep; a failed read and two slow seconds for each; with and without a model |

Windows of zero or one tick are the smallest that still separate before, at and
after each boundary; a longer window adds idle ticks only, as guards compare
`now` with sums and no rule depends on a window's length. Amounts are small but
chosen so that every floor loses something; the theorems cover all amounts.
Two bettors suffice for one winner to be owed while another has claimed.

`Attempts` is 2 instead of the code's 5: the first failure and the last are
different, those between are alike. `BET_MARGIN` is one tick, as is the skew, so
that a skewed clock can and cannot break the margin. `MaxFaults` and
`MaxRestarts` bound what fails; one of each, in any order and at any step,
already separates a pending transaction from the memory of it. `ClockSuffices`
restricts progress to tasks that end below `MaxTime`.

`IndexFollow` has one task, so that sums over tasks have one term at most; rows of different
tasks meet in no statement but the trust tuple's. A second stop would be in a
process that has rescanned everything, as the first was. In `PaymentPath` any two of
the eight authorizations can be under way at once, with the relayer's nonce between
them; a third adds the same pairs. In `ControlPlane` either wallet serves two requests at
once; what a third adds is a third race of the same kinds, and the theorems cover any number. Its amounts are units at the
contract's minimum. `AgentFleet` keeps the proportions of the real amounts
and times that its rules compare (tenths of a USDC, seconds; a window of 8 s, a poll of 2 s and a margin of 1 s stand for the 15 s of the end-to-end tests,
`strategies.ts:75`, and the bettors' 3 and 2 s; the theorems cover both); `SCAN` is 4 instead of 80 so that an agent can fall
out of the scan. A fresh fleet decides by rule, fewer bettors run after a bring-up that had mishaps, the owner pauses only while a call is
about to be made, and one bettor at a time is slow: each mishap meets each part of a tick alone, and the theorems cover them together.

`ClaimResume` ends in a counterexample. `validator.ts:192-196` says that a
validator stopped between scoring and settling resumes correctly. It resumes by
answering again; the registry refuses a second answer, and the settle call behind
it is never reached. The answer still counts, so anybody else's crank of R2 would
settle the task; no daemon makes it. `AnsweredIsSettled`, which asks for a life
without failures, is what holds.

### Where text and code differ otherwise

Met while modelling; each has a property for what does hold, named in brackets,
and no run of its own.

* `docs/DESIGN.md:385`, the transition matrix, allows nothing but `placeBet` while
  betting is open. A worker that accepts when less than a betting window is left before
  the deadline makes R1 fire before the cutoff (`DecidedByTheBestEvidence`, `EveryTaskEnds`).
* `OracleCore.sol:357` and `docs/DESIGN.md:336` exclude the cutoff itself from the
  delivery window, `submitDelivery` includes it. Bets end before it all the same
  (`NoBetAgainstADelivery`).
* `docs/DESIGN.md:148` bars clients from betting, but on a pre-assigned job the
  client may be the worker (`RolesKeepTheirSide` has that exception).
* `OracleCore.sol:605` relies on a mandatory self-stake; the constructor accepts a
  minimum of zero. Nothing divides by that pool (`TypeCorrect`).
* `worker.ts:199-201`: re-entry does not double-submit. The delivery is not submitted twice, but the intake
  fee is paid again after a restart, and every 20 s while the contract is paused
  or refuses the delivery.
* `bettor-runtime.ts:99`, one decision per task: it is one per task and process
  (`EachFailureCostsOneBet`). Line 6 says bettors claim after settlement; a restarted one does not
  know its bets (`BettorIsPaid`).
* `validator.ts:49` and `vendor.ts:23` say their handler is only reached once settlement
  succeeded. The facilitator does not read the receipt's status
  (`FreeServiceNeedsARace`).
* `db.ts:122-127` says that a new anvil run does not inherit rows: the fingerprint tells it. A
  local chain started afresh gives the core its old address (section 2, `FreshChain`).
* `store.ts:127` leaves bets of unknown tasks to the next snapshot. A snapshot
  carries no bets, and the entry keeps its old odds (`MissedOnlyWhileAway`).
* `control.ts` answers with the market number of the simulation, and a custom spec picked from
  the list by its template name may be another one (`RepliesAreTrue`).
* `register-agents.ts:155-156` writes after each role so that a rerun resumes. If it stops
  while a registration is pending, the rerun registers a second agent (`FleetAsRegistered`).
* `mastra/model.ts:6-7` says the validator is always deterministic, never an LLM
  opinion. A custom task has no hidden suite, and a model judges it
  (`validator.ts:99-103`; `Scores` in `AgentMarket`).

### Fairness

`CrankSpec` assumes that time passes and that the permissionless calls
`settleWithValidation`, `settleByTimeout` and `cancelUnaccepted` are made when
they stay possible: anybody may make them and the docs rely on that. Nothing is
assumed of the worker, the validator, the client or the owner. `ClaimSpec` adds
that accounts claim what is theirs and that somebody sweeps; `OracleProgress` is
checked under it, and `EveryTaskEnds` needs only `CrankSpec`, since claims and
sweeps start where a task has ended. Weak fairness is
enough: once enabled, each of these calls stays enabled until it or a rival
rule happens. Progress is asserted for tasks whose ladder fits below `MaxTime`
(`LadderFits`); other tasks run into the bound of the model's clock.

`FairFleet` assumes that blocks come and go on including pending transactions,
and that a daemon takes its next step: its event loop runs, `reconcile` is on a
20 s timer, and a process that exits is started again (`docs/DEMO.md:71`).
Whether the worker accepts a job is its choice; failures, restarts, attestation,
pauses and all other accounts are not fair. `FairBettor` assumes the 3 s loop
and inclusion; whether to bet is a choice, and nobody else is fair, so
`BettorIsPaid` is about tasks that somebody has settled. Weak fairness per task is
justified because runs of different tasks do not block each other for good: the
20 s timer starts a new scan even if an earlier one is still waiting.

`MarketIndex`'s `FairSpec` assumes that a stopped server is started again and that its
poll and its queue go on; not that the chain moves. `Payments` assumes inclusion and that the
parties of each call take their steps; losing a reply is never fair, and the wait for a receipt ends
because transactions are mined. `FairAppSpec` assumes that a browser's timers fire, that
`connectWs` retries after its second (`web/src/ws.ts:62-69`) and that what the browser
received is delivered. `AgentMarket`'s `FairSpec` assumes that the bring-up's programs run,
its transactions are mined and the operator starts again what died. `ControlPlane`
has safety properties only: a request whose receipt never comes ends by a timeout.

## 4. Theorems

TLAPS proves them for arbitrary accounts, agents, jobs, stakes, bets, answers, rotations,
requests and histories, of any number. What they assume is written as ASSUMEs that TLC
evaluates on every run: `ParamsAssumption` (what the constructor checks, and unsigned
types), `EnvironmentAssumption` (types of the callers' inputs), and the assumptions of
`Payments`, `ControlPlane` and `MarketIndex` of the same kind. `FeedAssumption` of `LiveFeed` adds to types that the
server's rings and the store's feeds have one capacity (both are 200: `console.ts:17`, `store.ts:22`).
`FleetAssumption`, `BetLimits`, `TimeAssumption` and `MoneyAssumption` say that roles have different wallets that are given gas and, the
worker and the bettors, USDC; that a rule's bet (20 USDC at most) is below the model's limit of 25; that a window is longer
than zero; that the contract's least reward is 1 USDC and its least stake no more than the least the worker offers (10%);
and that no purse is more than was given. They bound neither what reads, transactions and decisions take nor how many fail, nor the
ids of the registry: where such a condition is needed, it stands in the property. `ControlAssumption`
keeps apart the names of requests, templates and questions.

The contract:

* `TypeCorrect`: `Spec => []TypeOK`. Types alone are not inductive: a payout is a
  number only if the pool it is divided by is not zero. `TaskShape` adds that
  every position is at most its pool, that unopened tasks have empty pools, and
  that a posted task has a validator wallet. `FinalizeType`, `ClaimType` and the
  other lemmas treat one function each. `Step` sorts the steps by what they touch
  (`StepCases`: every step of `Next` is one), so that later proofs need few cases; the
  lemmas are about `Step`, which also allows what the daemons do on the same contract.
* `RolesHold`: `Spec => []RolesKeepTheirSide`, from the per-call bans and the fact
  that nobody has a position before acceptance. `IncentivesHold`:
  `Spec => []IncentivesAlign`, adding that the self-stake stays in the worker's YES
  position (`StakeKept`).
* `PayoutsFrozen`: `Spec => EntitlementsFrozen`. Every step keeps finished tasks and
  their positions (`TerminalKept`) and never reopens claims (`ClosedStays`).
* `RightOutcome`: `Spec => []DecidedByTheBestEvidence`. The invariant `Inv` adds
  that answers are not from the future and cannot be re-filed (`AnswerShape`)
  and that delivery data fits the state (`EvidenceShape`). The difficult step is
  an answer that arrives after a settlement by R4 or R5: those rules wait until
  the response window is over, so it is too late to count (`DecisionStands`).
* `MarketFreezes`: `Spec => NoBetAgainstADelivery`. What the worker can still do decides
  which steps are left: only a task that is open and past its cutoff can be delivered, an
  open task is not accepted again, and no bet is taken past the cutoff. The step itself may be
  any, so the proof goes through all of `Step`.
* `SolvencyHolds`: `Spec => []Solvency`. Pools are the sums of the positions, so the
  floored shares of all winners together are at most the pool (`DataProofs`), so a
  settlement leaves a pot that covers every payout; claims take from the pot what they
  take from the payouts still to come (`PotShape` ties `claimedTotal` to the claims
  made). And every step changes the pot of one task, by what goes into or out of
  `escrow` or into the accrued fees, so the total stays.
* `BooksExact` and `EarlySweepsAreDust`: `BooksMatchPositions` and
  `EarlySweepTakesOnlyDust`, for deployments in which nobody stakes or bets nothing
  (`PositiveStakes`; `MCOracle` assumes it too, and TLC evaluates it). The constructor does not ask for
  it, and without it both are false: a stake or bet of zero counts its bettor, and counts
  it again with the next. When `pendingClaims` is zero nobody has anything left to claim, so what
  an early sweep finds is what the floors left: less than one unit per winner.
* `KeepsThePromise`: `Spec => ImplementsPotEscrow`. `Init` maps to `Promise!Init`, and each
  action to one of `PotEscrow`'s (or a stutter) with every other task's pot unchanged; the
  invariant of the other theorems supplies that pots are never overdrawn.

Sums are cardinalities (`Sums`) and not recursions. The library's induction theorems take
an operator as a parameter, which the installed provers cannot instantiate;
`DataProofs` proves induction over subsets in the form of a set that contains the empty set and
is closed under adding an element, and the laws of sums (one summand changed, a summand
bounds the sum, a smaller sum) from it.

The payments:

* `ServiceIsPaidFor`, `PaidOncePerPurchase`, `ConsoleAgrees`: `ServedForPayment`,
  `OnePaymentPerPurchase` and `ConsoleMatchesRevenue`, from one invariant, `PayInv`. Its
  parts say where the buyer, the gate and the facilitator of one call can stand at the
  same time, that an authorization is sent once, that a transfer fails in its block only
  for a cause that is on record, and that whatever the buyer did not hear is counted as a
  failure of the round it was in.

The control plane:

* `ApprovalsHold`, `ErrorsAreFree`, `RepliesHold`: `ApprovedBeforeUse`, `ErrorIsFree` and
  `RepliesAreTrue`, from `CtlInv`: a request has at most one transaction out; a call that
  is out has had no effect; a simulated number is a guess no other request has opened
  and not above the next. Why a call that passed its simulation is refused in its block is the part
  `SimulationStands`: as long as nothing is in `met[r]`, every check that held still holds. Each check has one
  lemma per step that could break it, and the only ones there are name a race: a pause, money that left the wallet, a pool
  that filled, a settlement, a sale, the clock. Then `RepliesAreTrue` says which of them a reply is wrong by, and
  it lists them all: a bet that is not there needs not be late, nor a wrong number somebody else's market.

The daemons:

* `MemoryIsTrue`: `FleetSpec => []MemoryMatchesTheChain`, for any number of tasks, rivals,
  lost calls and restarts. The invariant `FleetInv` says what each daemon's run can hold
  (`RunsShape`) and what can be pending (`PoolShape`), and four facts that need each
  other: a filed slot is the worker's for the assigned validator unless somebody else took it (`SlotsRight`);
  what is delivered was filed before (`DeliveriesFiled`); a request that was sent and is no
  longer pending is on file, whether its transaction did it or reverted because another had
  (`RequestLands`); a task marked as claimed is settled, and paid or with its claim in hand or pending
  (`MarksTold`). The last one needs the contract's solvency: a claim that is refused or reverts must
  mean that nothing was left to claim, and not that the balance did not cover it (`RefusedClaim`).
  Each step of the fleet is a step of the contract (`ChainStepIsStep`), so the invariants of
  the contract's theorems are part of `FleetInv`; `FleetIsSolvent` states `Solvency` with the
  daemons at work.
* `BetsAreBounded`: `BettorSpec => []EachFailureCostsOneBet`. The proof counts tickets: one
  for a task the process has not decided, one for a bet it is about to send, one for
  each of its pending bets. Deciding, sending and mining pass a ticket on, until it becomes
  part of the position; whatever loses the memory of a bet, a restart or a lost reply,
  makes one more, and nothing else does. So the position and the tickets, at one bet each, are never
  more than one bet and the failures.

The live feed:

* `ConsoleFollowsTheServer` and `OnlyAbsenceMisses`: `AppSpec => []ConsoleInStep` and
  `AppSpec => []MissedOnlyWhileAway`, for any number of tasks, bets, messages, breaks, restarts,
  failing handlers and replayed lines. A store is behind by what is in the socket, and
  the connection may break after any of it, so an invariant about the store alone cannot
  be inductive. `FeedInv` speaks of the stages the store will go through: as it is now,
  and after each message in the socket. The last stage agrees with the server if no
  replayed line reached this connection (`Agrees`). Every stage has just the bets
  that neither were missed nor are still to come, in order, and the pools' price if none is
  (`Tracks`), so a break leaves the store where the next snapshot can start from. A message that the
  server sends adds a stage (`StagesGrow`), one that is received drops the first
  (`StagesShift`), and a write to the tables changes what the last stage is compared
  with (`StagesMoved`). The stages are the witness of an existential, since the value of a fold over
  the socket is out of the provers' reach; each is the `Reducer` of the one before.
  That capacities are equal is needed: the ring and the feed evict alike (`AgreesPush`).

The indexer:

* `TablesTell`, `TrustTells` and `HealthzTells`: `Spec => []TablesFollowTheLog`,
  `Spec => []TrustFollowsTheLog` and `Spec => []HealthzIsHonest`, for any number of tasks,
  workers, blocks, bets, stops and failures. They assume `AddressesDiffer`: no chain is started
  afresh, or the core gets a new address on it. With the old address under the same fingerprint
  (`db.ts:122-127`, above) all three are false, because rows of the old chain are taken for the new one's.
  The invariant `IndexInv` has three parts, each indexed by how many logs the two
  cursors have passed. *The logs*: each event is legal after those before it (`Legal`), and
  what follows for its task from any prefix is of one shape (`Told`). *The queue*: it holds, in order, every
  log of the scanned blocks that is not behind the cursor, and before each answer the core's
  events that are as old (`QueueOk`), so the next new item is the event right after the cursor
  (`FirstIsNext`) and an answer finds the delivery it is about (`AnswerIsDue`). *The tables*: each row is
  `RowIs` of the log behind the cursor, except that, after a stop, the row of the next event's task may
  be `Partial`: what any prefix of that event's statements leaves, starting from what an earlier stop
  has left. The lemmas `DoesCreated` ... `DoesCancelled` show, statement by statement, that each handler
  leads from `Partial` to `Partial` (`Doing`), and at its end to the row an undisturbed run gives (`Done`): the
  price at the cutoff is computed once and from points that are all early enough, a price point appended
  twice does not change the last price, a score that is written again is the same. Bets have no key, so
  they are counted: one row too many for each stop, one too few for each failure (`BetsOk`). A stored trust tuple
  may lag only for the worker of an outcome that is being applied (`TrustOk`).
  What the reported block is worth needs `Whole` beside `IndexInv`: the cursor has passed nothing beyond the scanned blocks (`NoneBeyond`), and,
  where no block read has failed, the rows are whole and not partial (`Complete`) as soon as no event is left in the
  queue (`Ahead`), whatever stops left on the way. With an empty queue the events passed are then those up to the reported block
  (`ReportedIsApplied`), and rows, series and answers are theirs. That the cursors have passed them would not be
  enough, since the cursor of a failed handler moves too: a bet missing from the table is counted against `faults`.

The agents:

* `FleetIsRegistered`, `RefusalsHaveTheirCause` and `BettorsDecideByTheirRules`: `Spec` implies
  `[]FleetAsRegistered`, `[]RefusedForCause` and `[]BettorsKeepToTheirRules`, for any fleet, balances, purses, windows,
  polls, delays, stops, redeployments and strangers, from `AgentInvariant`: `Spec => []AgentInv`. Its first half is about
  the bring-up. A role's agents and pending registrations together are at most its orphans (registrations of dead runs) and
  one more, and while it is about to send, at most its orphans (`Orphans`), as long as the registry has not grown by more than the scan
  since the bring-up began (`Outgrown`): an agent is found by its distance from the top, so what was there before does
  not count. A pending registration is covered by gas (`Money`), so what a
  wallet was given is what it has and what its agents cost (`GasGiven`); a simulated id is the next one or was
  mined since, by whom `TakenFrom` names (`Simulated`).
  The second half follows one market. The time gone and the sleep left are at most what polls, failed reads and
  slow ones have cost (`Behind`, `Timely`), so a bettor that comes too late has used up the window by the inequality of
  `EveryBettorDecides`, half a window of the mirror's included. What a wallet has is what it was given less what it spent, unless a mint failed. A refusal stays in the state until
  the next step and its cause with it (`RefusalsStay`), and each check of the contract that fails leaves one of the causes.
* `RefusedForCause` has no condition on how long a tick takes, and the cause "time" names it instead: the code leaves two seconds
  between its look at the clock and the cutoff, in which odds and trust are bought, a model may be asked, and the bet is simulated and sent.
* A node refuses a transaction that the wallet cannot pay besides its
  pending ones. A wrong id needs no stranger: a role of which dead runs left two registrations, or one and
  its earlier agent out of the scan, takes the next role's id (`WrongIdLostARace`).

Only model-checked:

* liveness (`EveryTaskEnds`, `EveryPotEmpties`, the daemons' progress, `CallsEnd`,
  `KeepsCatchingUp`, `KeepsReconnecting`, `SetupCompletes`), out of the prover's reach;
* `DemoTellsItsStory`, which is about what the calendar's recursion computes;
* `MockIsAMarket`, about one fixed script.

## 5. Plan

1. Done: the contract with its registries, its abstract promise; the write path, the daemons and
   the bettor with restarts and lost calls; the indexer; the payments; the live and the
   scripted feed; the control plane; bring-up, strategies and demo. Done: all of the
   contract's safety properties, the refinement, and all safety invariants of the daemons, the
   bettor, the payments, the control plane, the live feed, the indexer and the agents as theorems.
2. The event poller's cursors (`watchOracleEvent` in `chain.ts`) in place of
   logs that may be handled at any later time.

## 6. Not modelled

Text and layout: prompts, reports, pages that render the store (`Landing.tsx` and the
other components), the transaction decoder, logging. Encodings: hashes,
signatures, base64 headers and JSON are values that are equal or not. Static
files and the upload of artifacts. Sandboxing of the solutions that the validator runs.
`Deploy.s.sol` beyond its effect (new contracts, an empty map). Plain transfers of
USDC among holders. Third-party helper scripts bundled for editors, which are no
part of the system.
