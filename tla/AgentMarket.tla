---------------------------- MODULE AgentMarket ----------------------------
(***************************************************************************)
(* The fleet that AgentSetup brought up meets one market: a client posts   *)
(* it (cli/demo or the web form), the worker judges it and stakes          *)
(* (worker.ts), each bettor looks in every POLL seconds, buys the odds,    *)
(* decides by language model or by rule, and bets before the window        *)
(* closes (lib/bettor-runtime), the worker delivers, the validator scores  *)
(* (validator.ts) and the demo checks the result.  One step of `now' is a  *)
(* second; reads, purchases and transactions take any number of them.      *)
(* Money is in tenths of a USDC.                                           *)
(***************************************************************************)
EXTENDS AgentSetup, Strategies, BusinessDays

CONSTANTS WINDOW, ACCEPT_WINDOW, CAP,     \* the contract's: betting, acceptance, pool per side
          MIN_SELF_STAKE_BPS, THRESHOLD,
          POLL, MARGIN,           \* the bettors' sleep; no bet is tried closer to the cutoff
          ODDS_PRICE, TRUST_PRICE,
          DEMO_SLACK, Slacks,     \* the deadline, in seconds past an immediate cutoff
          Purses,                 \* what a fleet that is up may have spent or lost
          Histories,              \* and the trust tuple of its worker
          Delays,                 \* seconds between a task and its acceptance
          CustomRewards, Confidences, ModelBets, Verdicts,    \* free inputs
          MaxRunning, MaxReadFaults, MaxSlow                  \* bounds, the last two of each bettor

ASSUME TimeAssumption ==
    /\ {WINDOW, ACCEPT_WINDOW, POLL, MARGIN, DEMO_SLACK} \subseteq Nat /\ WINDOW > 0
    /\ Slacks \subseteq Nat /\ Delays \subseteq Nat

\* A rule's bet is below the model's limit; the contract asks for a reward of at
\* least 1 USDC, and for no more of a stake than the worker's least.
ASSUME MoneyAssumption ==
    /\ {"worker", "bettorMirror"} \subseteq ToSet(FLEET)
    /\ ToSet(FLEET) \cap {"worker", "bettorRep", "bettorSkeptic", "bettorMirror"}
            \subseteq ToSet(NEEDS_USDC)
    /\ {CAP, ODDS_PRICE, TRUST_PRICE} \subseteq Nat /\ Usdc(20) <= MAX_BET
    /\ MIN_SELF_STAKE_BPS \in 0..1000
    /\ CustomRewards \subseteq Nat /\ \A reward \in CustomRewards : reward >= Usdc(1)
    /\ Purses \subseteq [ToSet(NEEDS_GAS) -> {n \in Int : n <= USDC_EACH}]
    /\ Histories \subseteq [n : Nat, wins : Nat]
    /\ Confidences \subseteq Nat /\ Verdicts \subseteq Nat
    /\ ModelBets \subseteq [action : {"bet", "abstain"}, side : {"Yes", "No"}, amount : Int]

VARIABLES llm,              \* is there a language model key
          hist,             \* the worker's settled tasks: n, of them wins
          spent,            \* what each wallet has spent or lost of what it was given
          task, paused,     \* the market; the owner's pause
          now, bots,        \* seconds since acceptance, the bettors
          refusals,         \* what the contract refused just now, and why
          demo              \* the demo's verdict on the settlement

marketVars == <<llm, hist, spent, task, paused, now, bots, refusals, demo>>
fleetVars == <<setupVars, marketVars>>

Bettors == Roles \cap {"bettorRep", "bettorSkeptic", "bettorMirror"}
Pools == [yes |-> task.yes, no |-> task.no]
PBps(pools) == (10000 * pools.yes) \div (pools.yes + pools.no)    \* the feed's, rounded down

\* left: from acceptance to the deadline.
NoTask == [state |-> "None", kind |-> "a", reward |-> 0, left |-> 0, stake |-> 0, yes |-> 0, no |-> 0,
           suite |-> "none", score |-> 0, outcome |-> "None", rule |-> 0]
\* slow: seconds the tick has taken since it looked at the clock; lost: those of
\* earlier ticks, and of waiting for the list.
Idle == [at |-> "polling", due |-> 0, seen |-> -1, failed |-> 0, lost |-> 0, slow |-> 0,
         choice |-> Abstain, source |-> "rule", read |-> [yes |-> 0, no |-> 0]]
Becomes(b, bot) == bots' = [bots EXCEPT ![b] = bot]
Pays(who, amount) ==
    usdc' = [usdc EXCEPT ![who] = @ - amount] /\ spent' = [spent EXCEPT ![who] = @ + amount]
\* A refusal, with the seconds since the agent last looked.
Refuses(who, cause, took) == refusals' = {[who |-> who, cause |-> cause, took |-> took]}

-----------------------------------------------------------------------------
(* The language model.                                                     *)

\* withRetry: an answer, or after two tries none, and the caller has its rule.
Asked(answers) == IF llm THEN answers ELSE {}
LlmConfidence == Asked(Confidences)
LlmJudge == {10 * v : v \in Asked(Verdicts)}
\* Cases that code of the model's passes; what does not define the function is no answer.
LlmSolution == Asked(Verdicts)
LlmBetDecision == {ToDecision(d) : d \in Asked(ModelBets)}

-----------------------------------------------------------------------------
(* The client and the worker.                                              *)

\* What went wrong, or was in the way, in the bring-up.
Mishaps == stops + deploys + Cardinality(Foreign) - TAKEN

\* There is a solver, and a hidden suite, for the built-in tasks only.
HasSolver(kind) == kind \in {"a", "b"}

\* The id of a role's agent, as the deployment JSON has it.
Entry(role) == IF role \in Roles THEN map[role] ELSE 0

\* The demo's two tasks pay 100 USDC and name the worker; what the form posts is
\* anybody's, with a free reward.  The agents named must exist, and be two.
Posts(kind, reward, slack) ==
    /\ script.cli = "up" /\ task.state = "None" /\ ~paused
    /\ Entry("validator") \in DOMAIN owner
    /\ HasSolver(kind) => Entry("worker") \in DOMAIN owner \ {Entry("validator")}
    /\ Mishaps < MaxRunning    \* bound
    /\ IF HasSolver(kind) THEN reward = Usdc(100) /\ slack = DEMO_SLACK
       ELSE reward \in CustomRewards /\ slack \in Slacks
    /\ task' = [NoTask EXCEPT !.state = "Created", !.kind = kind, !.reward = reward, !.left = WINDOW + slack]
    /\ demo' = IF kind = "custom" THEN "none" ELSE "waiting"
    /\ UNCHANGED <<setupVars, llm, hist, spent, paused, now, bots, refusals>>

\* Another worker accepts an open job (bound: its market is not followed).
Loses ==
    /\ task.state = "Created" /\ ~HasSolver(task.kind) /\ ~paused
    /\ task' = [task EXCEPT !.state = "Taken"]
    /\ UNCHANGED <<setupVars, llm, hist, spent, paused, now, bots, refusals, demo>>

\* What the worker thinks of its chances; the rule where the model fails.
Confidence(kind) == {EstimateConfidence(kind)} \cup LlmConfidence
\* Below one in ten the worker passes.
Declines(conf) == conf < 10
MinSelfStake(reward) == (reward * MIN_SELF_STAKE_BPS) \div 10000
\* acceptAndStake as the contract sees it, so many seconds after the task.
StakeRefused(stake, after) ==
    CASE paused -> "paused"
      [] task.state = "Taken" -> "taken"
      [] ~HasSolver(task.kind) /\ Entry("worker") = Entry("validator") -> "roles"
      [] after > ACCEPT_WINDOW -> "late"
      [] ~Controls("worker") -> "controls"
      [] stake < MinSelfStake(task.reward) -> "stake"
      [] stake > CAP -> "cap"
      [] usdc["worker"] < stake -> "funds"
      [] OTHER -> "no"

\* The market opens, and finds every bettor that runs somewhere in its sleep.
Accepts(conf, after) ==
    /\ task.state \in {"Created", "Taken"}
    /\ llm \/ HasSolver(task.kind)
    /\ conf \in Confidence(task.kind) /\ ~Declines(conf)
    /\ LET stake == StakeFor(task.reward, conf) IN
       IF StakeRefused(stake, after) # "no"
       THEN Refuses("worker", StakeRefused(stake, after), after) /\ UNCHANGED <<usdc, spent, task, bots>>
       ELSE /\ task' = [task EXCEPT !.state = "Open", !.left = @ - after, !.stake = stake, !.yes = stake]
            /\ Pays("worker", stake)
            /\ \E running \in SUBSET Bettors : \E phase \in [running -> 0..POLL] :
                  \* bound: fewer of them after a bring-up that had mishaps
                  /\ Cardinality(running) + Mishaps <= MaxRunning
                  /\ bots' = [b \in Bettors |-> IF b \in running THEN [Idle EXCEPT !.due = phase[b]]
                                                ELSE [Idle EXCEPT !.at = "off"]]
            /\ refusals' = {}
    /\ UNCHANGED <<owner, map, gas, deployer, script, mempool, setupBounds>>
    /\ UNCHANGED <<llm, hist, paused, now, demo>>

\* The contract's owner stops what brings money in, or lets it on.
Pauses ==
    \* bound: only while a call is about to be made, after a bring-up without mishaps
    /\ Mishaps = 0
    /\ task.state = "Created" \/ \E b \in Bettors : bots[b].at = "placing"
    /\ paused' = ~paused
    /\ UNCHANGED <<setupVars, llm, hist, spent, task, now, bots, refusals, demo>>

-----------------------------------------------------------------------------
(* The bettors.                                                            *)

\* Seeded fault: any time before the cutoff will do.
TooLateAtCutoff == WINDOW <= now
TooLate == WINDOW <= now + MARGIN

\* Only the mirror waits, counted from when it first saw the task.
DelayFor(b, seen) == IF b = "bettorMirror" THEN MirrorWait(WINDOW, seen) ELSE 0

\* A decision as the console is told it, with what made it: the rule if there is
\* no model or it fails.
Reported(rule) == {[choice |-> rule, source |-> "rule"]} \cup
                  {[choice |-> d, source |-> "gemini"] : d \in LlmBetDecision}
SettledCountFor == hist.n
RepDecides == Reported(RepDecision(hist, task))
SkepticDecides == Reported(SkepticDecision(task, SettledCountFor))
MirrorDecides == Reported(MirrorDecision(PBps(Pools)))
Decisions(b) == CASE b = "bettorRep" -> RepDecides
                  [] b = "bettorSkeptic" -> SkepticDecides
                  [] b = "bettorMirror" -> MirrorDecides

\* The tick asks for the list, and waits for it.
Asks(b) == bots[b].at = "polling" /\ bots[b].due = 0
\* The time of this tick, once it looks at the clock or ends, belongs to the past.
Counted(bot) == [bot EXCEPT !.lost = @ + bot.slow, !.slow = 0]
Sleeps(bot) == [Counted(bot) EXCEPT !.at = "polling", !.due = POLL]

\* The list is there and the clock is read: the market is passed over for good,
\* or for this tick, or the odds are asked for.
Polls(b) ==
    /\ task.state = "Open" /\ Asks(b)
    /\ LET seen == IF bots[b].seen < 0 THEN now ELSE bots[b].seen
           bot == [bots[b] EXCEPT !.seen = seen]
           waits == now < seen + DelayFor(b, seen)
       IN  \/ TooLate /\ Becomes(b, [Counted(bots[b]) EXCEPT !.at = "missed"])
           \/ ~TooLate /\ waits /\ Becomes(b, Sleeps(bot))
           \/ ~TooLate /\ ~waits /\ Becomes(b, [Counted(bot) EXCEPT !.at = "reading"])
    /\ UNCHANGED <<setupVars, llm, hist, spent, task, paused, now, refusals, demo>>

\* What a tick has paid for when it ends: nothing, the odds, and RepBot the trust tuple.
Price(b) == ODDS_PRICE + (IF b = "bettorRep" THEN TRUST_PRICE ELSE 0)
Purchases(b) == {amount \in {0, ODDS_PRICE, Price(b)} : amount <= usdc[b]}

\* The list does not come, or lacks the market because the indexer is behind; or
\* a read that is paid for fails, before or after the payment.
ReadFails(b) ==
    /\ (task.state = "Open" /\ Asks(b)) \/ bots[b].at = "reading"
    /\ bots[b].failed < MaxReadFaults
    /\ \E paid \in IF bots[b].at = "reading" THEN Purchases(b) ELSE {0} : Pays(b, paid)
    /\ Becomes(b, [Sleeps(bots[b]) EXCEPT !.failed = @ + 1])
    /\ UNCHANGED <<owner, map, gas, deployer, script, mempool, setupBounds>>
    /\ UNCHANGED <<llm, hist, task, paused, now, refusals, demo>>

\* The odds, as the pools are at this moment, and the decision on them; what the
\* trust tuple and the model take is counted before the transaction.
Decides(b) ==
    /\ bots[b].at = "reading"
    /\ Price(b) <= usdc[b] /\ Pays(b, Price(b))
    /\ \E d \in Decisions(b) :
          Becomes(b, IF d.choice.action = "abstain" THEN [Idle EXCEPT !.at = "done"]
                     ELSE [Idle EXCEPT !.at = "placing", !.slow = bots[b].slow,
                              !.choice = d.choice, !.source = d.source, !.read = Pools])
    /\ UNCHANGED <<owner, map, gas, deployer, script, mempool, setupBounds>>
    /\ UNCHANGED <<llm, hist, task, paused, now, refusals, demo>>

PoolOf(side) == IF side = "Yes" THEN task.yes ELSE task.no
\* The holder of the task's validator may not bet, its worker only on itself.
Banned(b) ==
    Entry("validator") \in AgentsOf(b) \/ (bots[b].choice.side = "No" /\ Entry(b) = Entry("worker"))

\* Seeded fault: the token does not look at the balance.
BetOnCredit(b) ==
    CASE paused -> "paused"
      [] task.state # "Open" \/ now >= WINDOW -> "time"
      [] ~Controls(b) -> "controls"
      [] OTHER -> "no"

\* placeBet as the contract sees it.
BetRefused(b) ==
    LET bet == bots[b].choice IN
    CASE paused -> "paused"
      [] task.state # "Open" \/ now >= WINDOW -> "time"
      [] bet.amount < MIN_BET -> "amount"
      [] ~Controls(b) -> "controls"
      [] Banned(b) -> "roles"
      [] PoolOf(bet.side) + bet.amount > CAP -> "cap"
      [] usdc[b] < bet.amount -> "funds"
      [] OTHER -> "no"

\* The bet reaches the chain; a refusal is logged, and that was it.
Places(b) ==
    /\ bots[b].at = "placing"
    /\ Becomes(b, [Idle EXCEPT !.at = "done"])
    /\ LET bet == bots[b].choice IN
       IF BetRefused(b) # "no"
       THEN Refuses(b, BetRefused(b), bots[b].slow) /\ UNCHANGED <<usdc, spent, task>>
       ELSE /\ task' = IF bet.side = "Yes" THEN [task EXCEPT !.yes = @ + bet.amount]
                                           ELSE [task EXCEPT !.no = @ + bet.amount]
            /\ Pays(b, bet.amount)
            /\ refusals' = {}
    /\ UNCHANGED <<owner, map, gas, deployer, script, mempool, setupBounds>>
    /\ UNCHANGED <<llm, hist, paused, now, demo>>

\* A second goes by.  Sleeps end on time; a tick may take longer.
Busy(b) == Asks(b) \/ bots[b].at \in {"reading", "placing"}
TimePasses ==
    /\ task.state = "Open"
    /\ now < WINDOW \/ \E b \in Bettors : Busy(b)      \* bound: or no clock is read
    \* bound: one at a time takes longer
    /\ \A b, c \in Bettors : Busy(b) => bots[b].lost + bots[b].slow < MaxSlow /\ (Busy(c) => c = b)
    /\ now' = now + 1
    /\ bots' = [b \in Bettors |->
                  IF Busy(b) THEN [bots[b] EXCEPT !.slow = @ + 1]
                  ELSE IF bots[b].due > 0 THEN [bots[b] EXCEPT !.due = @ - 1] ELSE bots[b]]
    /\ refusals' = {}
    /\ UNCHANGED <<setupVars, llm, hist, spent, task, paused, demo>>

-----------------------------------------------------------------------------
(* Delivery, verdict, settlement.                                          *)

\* The worker waits for the cutoff; the canned code or what the model wrote.
Delivers ==
    /\ task.state = "Open" /\ WINDOW <= now /\ now <= task.left /\ ~paused
    /\ task' = [task EXCEPT !.state = "Delivered"]
    /\ UNCHANGED <<setupVars, llm, hist, spent, paused, now, bots, refusals, demo>>

\* Of ten cases of the hidden suite: the canned solver of task a passes them all.
Passed(kind) == {IF kind = "a" THEN 10 ELSE PassedByTheSolver} \cup LlmSolution

\* Seeded fault: the model judges whatever it is given.
JudgedByModel(kind) == {10 * v : v \in Verdicts}

\* The suite where there is one, else the model.
Scores(kind) ==
    IF HasSolver(kind) THEN {HarnessScore(n, 10) : n \in Passed(kind)} ELSE LlmJudge

Settle(outcome, rule, suite, score) ==
    /\ task' = [task EXCEPT !.state = "Settled", !.outcome = outcome, !.rule = rule,
                            !.suite = suite, !.score = score]
    /\ UNCHANGED <<setupVars, llm, hist, spent, paused, now, bots, refusals, demo>>
ByScore(suite, score) ==
    IF score >= THRESHOLD THEN Settle("Yes", 2, suite, score) ELSE Settle("No", 3, suite, score)

\* The validator's verdict, and the crank that follows it.  A suite that does not
\* run, or whose report cannot be read, is a zero.
Validates ==
    /\ task.state = "Delivered"
    /\ \/ \E score \in Scores(task.kind) : ByScore(IF HasSolver(task.kind) THEN "ran" ELSE "none", score)
       \/ HasSolver(task.kind) /\ ByScore("failed", HarnessScore(0, 0))

\* Nobody delivers by the deadline (R1), which may come before the cutoff, or
\* nobody validates in time (R5); minutes after the cutoff are not counted out.
TimesOut ==
    \/ task.state = "Open" /\ (now > task.left \/ now >= WINDOW) /\ Settle("No", 1, "none", 0)
    \/ task.state = "Delivered" /\ Settle("Yes", 5, "none", 0)

\* assertExpectation of the demo.
AsScripted ==
    IF task.kind = "a" THEN task.outcome = "Yes" /\ task.rule = 2 /\ task.score = 100
    ELSE task.outcome = "No" /\ task.rule = 3 /\ task.score <= 50

DemoReads ==
    /\ demo = "waiting" /\ task.state = "Settled"
    /\ demo' = IF AsScripted THEN "scripted" ELSE "failed"
    /\ UNCHANGED <<setupVars, llm, hist, spent, task, paused, now, bots, refusals>>

-----------------------------------------------------------------------------

Fresh == /\ task = NoTask /\ paused = FALSE /\ now = 0 /\ bots = [b \in Bettors |-> Idle]
         /\ refusals = {} /\ demo = "none"

\* Nothing has happened yet, or the fleet is up and has a past: tasks settled,
\* money spent, won and lost.
Init ==
    /\ SetupInit /\ Fresh
    /\ llm = FALSE    \* bound: a fresh fleet decides by rule
    /\ hist = [n |-> 0, wins |-> 0] /\ spent = [r \in Funded |-> 0]

InitUp ==
    /\ owner = Strangers \o FLEET
    /\ map = [r \in Roles |-> TAKEN + CHOOSE i \in DOMAIN FLEET : FLEET[i] = r]
    /\ gas = [r \in Funded |-> IF r = RELAYER THEN RELAYER_GAS ELSE GAS]
    /\ spent \in Purses /\ usdc = [r \in Funded |-> USDC_EACH - spent[r]] /\ deployer = 0
    /\ script = Begin("up") /\ mempool = <<>>
    /\ stops = 0 /\ deploys = 0 /\ orphans = [r \in Roles |-> 0]
    /\ llm \in BOOLEAN /\ hist \in Histories /\ Fresh

Next ==
    \/ SetupNext /\ UNCHANGED marketVars
    \/ \E kind \in {"a", "b", "custom"}, reward \in CustomRewards \cup {Usdc(100)},
          slack \in Slacks \cup {DEMO_SLACK} : Posts(kind, reward, slack)
    \/ \E conf \in Confidences \cup {12, 25, 45}, after \in Delays : Accepts(conf, after)
    \/ Loses \/ Pauses
    \/ \E b \in Bettors : Polls(b) \/ ReadFails(b) \/ Decides(b) \/ Places(b)
    \/ TimePasses \/ Delivers \/ Validates \/ TimesOut \/ DemoReads

Spec == (Init \/ InitUp) /\ [][Next]_fleetVars

(* The bring-up is run to its end: what is sent is mined, and the operator  *)
(* starts again what died.                                                  *)
FairSpec ==
    /\ Spec
    /\ WF_fleetVars(Runs /\ UNCHANGED marketVars)
    /\ WF_fleetVars(Reruns /\ UNCHANGED marketVars)
    /\ \A i \in 1..3 : WF_fleetVars(i \in DOMAIN mempool /\ SetupMines(i) /\ UNCHANGED marketVars)
=============================================================================
