---------------------------- MODULE AgentSafety ----------------------------
(***************************************************************************)
(* What the bring-up and the agents' decisions promise one another.        *)
(***************************************************************************)
EXTENDS AgentMarket

\* The state is well formed: money is never spent twice, ids are ids.
AgentTypeOK ==
    /\ owner \in Seq(Roles \cup {"other"}) /\ map \in [Roles -> Nat]
    /\ gas \in [Funded -> Nat] /\ usdc \in [Funded -> Nat] /\ deployer \in Nat
    /\ script.at \in {"next", "sending", "waiting", "stopped"}
    /\ task.state \in {"None", "Created", "Taken", "Open", "Delivered", "Settled"}
    /\ bots \in [Bettors -> [at : {"off", "polling", "reading", "placing", "done", "missed"},
                             due : Nat, seen : Int, failed : Nat, lost : Nat, slow : Nat,
                             choice : [action : {"abstain"}] \cup
                                 [action : {"bet"}, side : {"Yes", "No"}, amount : Nat],
                             source : {"rule", "gemini"}, read : [yes : Nat, no : Nat]]]
    /\ now \in Nat /\ paused \in BOOLEAN /\ spent \in [Funded -> Int]

\* So many agents have been registered since the bring-up began, by whomever,
\* that its first ones may have fallen out of the scan.
Outgrown == Len(owner) > TAKEN + SCAN

(* Id n went to somebody else: a stranger, or a role of which dead runs     *)
(* left registrations behind: two of them, or one where its earlier agent   *)
(* has fallen out of the scan.                                              *)
TakenFrom(r, id) ==
    \/ id \in Foreign
    \/ \E s \in Roles \ {r} :
          id \in AgentsOf(s) /\ orphans[s] > (IF Outgrown THEN 0 ELSE 1)

(* register-agents.ts:127-140 enters the id that was simulated, and never   *)
(* looks at the one the receipt tells.  However often the bring-up dies and *)
(* is run again, a role's id is its own, or somebody else's registration    *)
(* was mined between the two: the roles get in each other's way only after  *)
(* two registrations that nobody waited for, or one past the scan.          *)
WrongIdLostARace ==
    \A r \in Roles : map[r] > 0 /\ ~Controls(r) => TakenFrom(r, map[r])

(* register-agents.ts:24-26 "Avoids re-registering": a role gets a second   *)
(* agent only for a registration that was sent by a run that died before    *)
(* its receipt, or when more agents than the scan looks at were registered  *)
(* since the bring-up began, however many there were before.                *)
OneAgentPerRole ==
    \A r \in Roles : ~Outgrown => Cardinality(AgentsOf(r)) <= 1 + orphans[r]

(* fund-fuji.ts:69-86: once the gas loop is through, every wallet has had   *)
(* its target, the relayer the larger one, wherever earlier runs ended;     *)
(* what is missing was spent on registrations.                              *)
FundedToTarget ==
    script.cli \in {"usdc", "register", "up"} =>
        \A r \in Funded :
            gas[r] + (IF r \in Roles THEN Cardinality(AgentsOf(r)) ELSE 0) >=
                (IF r = RELAYER THEN RELAYER_GAS ELSE GAS)

(* An agent's stake or bet is refused only while the owner has paused; for  *)
(* a wrong id in the JSON, its own or the validator's; a stake after the    *)
(* acceptance window or another worker; for money, when what the wallet was *)
(* given is spent up to half the reward, or up to one bet, or a mint        *)
(* failed; for the cap, when the reward is more than twice the cap, or the  *)
(* pool less than a bet below it; and a bet for its time, when the tick     *)
(* took longer than the margin after it looked at the clock, or the         *)
(* deadline is before the cutoff.  No stake is below the contract's least,  *)
(* no bet below its own (confidence.ts:24-36, agents.ts:264-272,            *)
(* bettor-runtime.ts:107-138).                                              *)
RefusedForCause ==
    \A r \in refusals :
        LET left == USDC_EACH - spent[r.who]
            worker == r.who = "worker"
        IN  \/ r.cause = "paused"
            \/ r.cause = "taken" /\ ~HasSolver(task.kind)
            \/ r.cause = "late" /\ worker /\ r.took > ACCEPT_WINDOW
            \/ r.cause = "controls" /\ ~Controls(r.who)
            \/ r.cause = "roles" /\ \E s \in Roles \cap {r.who, "validator"} : ~Controls(s)
            \/ r.cause = "funds" /\ (stops > 0 \/ IF worker THEN 2 * left < task.reward ELSE left < MAX_BET)
            \/ r.cause = "cap" /\ IF worker THEN task.reward > 2 * CAP
                                  ELSE CAP < task.yes + MAX_BET \/ CAP < task.no + MAX_BET
            \/ r.cause = "time" /\ ~worker /\ (r.took > MARGIN \/ task.left < WINDOW)

(* A bettor that runs has decided on a market when its window closes,       *)
(* whatever the phase of its sleep, but for failed reads and slow ones:     *)
(* each failure costs it one sleep, each second one second, and the mirror, *)
(* which waits for half of the window (strategies.ts:73-80), twice that.    *)
(* What is left for them is what three polls and two margins, or one of     *)
(* each, leave of the window.                                               *)
EveryBettorDecides ==
    \A b \in Bettors : bots[b].at = "missed" =>
        LET failed == bots[b].failed
            lost == bots[b].lost
        IN  IF b = "bettorMirror" THEN WINDOW < POLL * (3 + 2 * failed) + 2 * (lost + MARGIN)
            ELSE WINDOW <= POLL * (1 + failed) + lost + MARGIN

(* The mirror's rule follows the money: its bet is on a side that holds     *)
(* more than 60% of it, to the last unit although the feed rounds down,     *)
(* unless the pools have changed since it read them (strategies.ts:63-71).  *)
MirrorFollowsTheMoney ==
    LET mirror == bots["bettorMirror"]
        side == IF mirror.choice.side = "Yes" THEN task.yes ELSE task.no
    IN  mirror.at = "placing" /\ mirror.source = "rule" /\ mirror.read = Pools =>
            5 * side > 3 * (task.yes + task.no)

(* demo.ts:153-160, run-demo --assert: without a language model the two     *)
(* tasks end as scripted whenever a validator settles them, but for task a  *)
(* where the suite did not run and its zero is taken for the code's.        *)
DemoAsScripted ==
    demo = "failed" => llm \/ task.rule \in {1, 5} \/ (task.kind = "a" /\ task.suite = "failed")

FirstBusinessDay(day, holidays) ==
    CHOOSE d \in day + 1..day + 7 : /\ IsBusinessDay(d, holidays)
                                   /\ \A e \in day + 1..d - 1 : ~IsBusinessDay(e, holidays)
TrueCalendar == NATIONAL_HOLIDAYS_IN \cup HiddenHolidays
Answer(case, holidays) ==
    LET at[n \in Nat] == IF n = 0 THEN case.from ELSE FirstBusinessDay(at[n - 1], holidays)
    IN  at[case.hops]
\* The cases on which both calendars agree.
Neutral == {case \in HiddenCases : Answer(case, NATIONAL_HOLIDAYS_IN) = Answer(case, TrueCalendar)}

(* What a suite that ran says of the canned solver of task b is its         *)
(* calendar's fault alone: the score is the share of the cases in which the *)
(* public holidays and the suite's calendar, two holidays longer, have the  *)
(* same least business day, and every other case has one of those two days  *)
(* on its way (solvers/next-business-day.ts, hidden-tests, harness.ts).     *)
LostByTheCalendar ==
    task.kind = "b" /\ task.suite = "ran" /\ ~llm =>
        /\ task.outcome = "No"
        /\ task.score = HarnessScore(Cardinality(Neutral), Cardinality(HiddenCases))
        /\ \A case \in HiddenCases \ Neutral :
              HiddenHolidays \cap (case.from + 1..Answer(case, TrueCalendar)) # {}

(* deploy-fuji.sh: if everything that dies is run again, the fleet gets up. *)
SetupCompletes == <>(script.cli = "up")

(* Wherever the bring-up stopped and was run again, roles have their agents *)
(* and their money (deploy-fuji.sh, register-agents.ts, fund-fuji.ts).      *)
FleetAsRegistered ==
    AgentTypeOK /\ WrongIdLostARace /\ OneAgentPerRole /\ FundedToTarget

(* Bettors act in their window and by their rule (strategies.ts).           *)
BettorsKeepToTheirRules == EveryBettorDecides /\ MirrorFollowsTheMoney

(* The demo tells its story: one market won, one lost, and lost by the two  *)
(* holidays its solver does not know (demo.ts, harness.ts, hidden-tests).   *)
DemoTellsItsStory == DemoAsScripted /\ LostByTheCalendar
=============================================================================
