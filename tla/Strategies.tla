----------------------------- MODULE Strategies -----------------------------
(***************************************************************************)
(* What the agents decide, as functions of what they know (lib/strategies, *)
(* lib/confidence, lib/harness, and the guard rails of mastra/agents).     *)
(* Money is counted in tenths of a USDC, confidence in percent.            *)
(***************************************************************************)
EXTENDS Integers

CONSTANTS MIN_BET, MAX_BET,       \* 0.1 and 25 USDC
          MAX_DELAY               \* seconds the mirror waits at most

Usdc(n) == 10 * n

\* No rule bets less than 10 USDC.
ASSUME BetLimits == MIN_BET \in 0..Usdc(10) /\ MAX_BET \in Nat /\ MAX_DELAY \in Nat

Least(a, b) == IF a < b THEN a ELSE b
Largest(a, b) == IF a < b THEN b ELSE a
Clamp(x, low, high) == Least(high, Largest(low, x))

Bet(side, amount) == [action |-> "bet", side |-> side, amount |-> amount]
Abstain == [action |-> "abstain"]

-----------------------------------------------------------------------------
(* The worker.                                                             *)

EstimateConfidence(kind) ==
    CASE kind = "a" -> 45 [] kind = "b" -> 12 [] OTHER -> 25

StakeFor(reward, conf) == (reward * Clamp(conf, 10, 50) * 100) \div 10000

-----------------------------------------------------------------------------
(* The bettors.                                                            *)

SelfStakeRatioBps(task) ==
    IF task.reward = 0 THEN 0 ELSE (task.stake * 10000) \div task.reward

\* The trust tuple: n settled tasks, of them wins ended YES.
RepDecision(tuple, task) ==
    LET rateBps == (20000 * tuple.wins + tuple.n) \div (2 * tuple.n)    \* rounded
        scaled == (Usdc(40) * rateBps) \div 10000
    IN  CASE tuple.n >= 1 /\ 10 * tuple.wins >= 6 * tuple.n -> Bet("Yes", Least(scaled, Usdc(20)))
          [] tuple.n >= 1 /\ 10 * tuple.wins < 4 * tuple.n -> Bet("No", Usdc(15))
          [] tuple.n = 0 /\ SelfStakeRatioBps(task) >= 2500 -> Bet("Yes", Usdc(10))
          [] OTHER -> Abstain

SkepticDecision(task, n) ==
    IF n = 0 \/ SelfStakeRatioBps(task) < 1500 THEN Bet("No", Usdc(20)) ELSE Abstain

\* Seeded fault: the lean need not be more than ten points.
MirrorLoose(pBps) ==
    CASE pBps >= 6000 -> Bet("Yes", Usdc(10))
      [] pBps <= 4000 -> Bet("No", Usdc(10))
      [] OTHER -> Abstain
MirrorDecision(pBps) ==
    CASE pBps - 5000 > 1000 -> Bet("Yes", Usdc(10))
      [] 5000 - pBps > 1000 -> Bet("No", Usdc(10))
      [] OTHER -> Abstain

\* Seeded fault: all of the remaining window.
WaitsItOut(cutoff, time) == Least(MAX_DELAY, Largest(0, cutoff - time))
\* Half of the remaining window, in seconds; a half one is waited for as well.
MirrorWait(cutoff, time) == Least(MAX_DELAY, (Largest(0, cutoff - time) + 1) \div 2)

\* toDecision: what a language model answers, within the guard rails.
ToDecision(d) ==
    IF d.action # "bet" THEN Abstain
    ELSE Bet(d.side, Largest(MIN_BET, Clamp(d.amount, 0, MAX_BET)))

-----------------------------------------------------------------------------
(* The validator.                                                          *)

\* Score of the hidden suite, rounded; 0 if it reported no tests.
HarnessScore(passed, total) ==
    IF total = 0 THEN 0 ELSE (200 * passed + total) \div (2 * total)
=============================================================================
