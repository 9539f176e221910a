---------------------------- MODULE IndexSafety -----------------------------
(***************************************************************************)
(* What the served tables owe the chain, said from the logs alone: each    *)
(* property compares a table with the log prefix its cursor names.         *)
(***************************************************************************)
EXTENDS MarketIndex

\* How many logs of src are behind the cursor.
Known(src) == Cardinality({i \in DOMAIN Log(src) : ~IsNew(Item(src, i))})

\* The core's events behind the cursor, and the one that comes next.
Applied == SubSeq(core, 1, Known("core"))
Upcoming == core[Known("core") + 1]

\* The event that is, or may have been, applied in part: the one after the cursor.
Pending(t) == Known("core") < Len(core) /\ Upcoming.task = t /\ stops > 0
Running == proc \in {"catchup", "live"}
CaughtUp == proc = "live" /\ queue = <<>>

\* Type invariant of the indexer's tables, cursors and queue (indexer.ts, db.ts).
IndexTypeOK ==
    /\ db.cursor.core.bn \in 0..MaxBlock /\ db.cursor.val.bn \in 0..MaxBlock
    /\ proc = "live" => db.lastBlock \in 0..head /\ polled \in 0..head
    /\ db.reqhash \subseteq Tasks
    /\ \A t \in Tasks : db.tasks[t] = NoRow \/ db.tasks[t].worker \in Workers \cup {NoWorker}
    /\ proc \in {"down", "booting", "catchup", "live"}
    /\ \A i \in DOMAIN queue : queue[i].src \in {"core", "val", "head"}

Taker(s, t) == Latest(s, t, {"TaskAccepted"})
Taken(s, t) == \E i \in Events(s, t) : s[i].name = "TaskAccepted"
Over(s, t) == StateOn(s, t) \in {"Executing", "Delivered", "Settled"}
Ending(s, t) == s[Max(Events(s, t))]

Agrees(row, points, s, t) ==
    /\ row.state = StateOn(s, t)
    /\ Taken(s, t) =>
          /\ row.yes = Market(s, t).yes /\ row.no = Market(s, t).no
          /\ row.worker = Taker(s, t).worker /\ row.stake = Taker(s, t).stake
          /\ Last(points).p = PBps(row.yes, row.no)
    /\ Over(s, t) => row.p = PBps(Market(s, t).yes, Market(s, t).no)
    /\ StateOn(s, t) = "Settled" =>
          row.outcome = Ending(s, t).outcome /\ row.rule = Ending(s, t).rule

\* Unless a block-time read failed, every task row is what the events up to the
\* cursor say, the implied probability at the cutoff included, and its odds series
\* ends at the price its pools give; a crash in the
\* middle of a handler (indexer.ts processBatch) leaves at most the task of the
\* next event behind or ahead, and the replay repairs it.
RowsFollowTheLog ==
    Running /\ faults = 0 => \A t \in Tasks :
        Agrees(db.tasks[t], db.odds[t], Applied, t) \/ Pending(t)

\* Each bet up to the cursor has its row; what is missing is at
\* most one event for each failed block-time read, what is doubled at most one
\* row for each crash (db.ts insertBet has no key; indexer.ts advances after).
BetRowsAccountedFor == Running =>
    LET due == BetsOn \cap (1..Known("core"))
    IN  /\ Cardinality(due \ ToSet(db.bets)) <= faults
        /\ ToSet(db.bets) \subseteq BetsOn \cap (1..(Known("core") + 1))
        /\ Len(db.bets) <= Cardinality(ToSet(db.bets)) + stops

\* The settled tasks of w, and those it lost.
SettledBy(w) == {t \in Tasks : StateOn(Applied, t) = "Settled" /\ Taker(Applied, t).worker = w}
LostBy(w) == {t \in SettledBy(w) : Ending(Applied, t).outcome = "No"}
Miss(t) == (IF Ending(Applied, t).outcome = "Yes" THEN 10000 ELSE 0)
               - PBps(Market(Applied, t).yes, Market(Applied, t).no)

\* The trust tuple that is sold scores exactly the settled tasks the cursor has
\* passed: their Brier error against the last odds before the cutoff, the wins and
\* the stake forfeited, with the live price of each unfinished task; and the one
\* that is stored is the same (trust.ts buildTrustTuple, indexer.ts recomputeTrust).
TrustFollowsTheLog ==
    Running /\ faults = 0 => \A w \in Workers :
        LET sold == BuildTrustTuple(db, w)
        IN  \/ \E t \in Tasks : Pending(t) /\ db.tasks[t] # NoRow /\ db.tasks[t].worker = w
            \/ /\ sold.core.n = Cardinality(SettledBy(w))
               /\ sold.core.wins = Cardinality(SettledBy(w) \ LostBy(w))
               /\ sold.core.brier = SumFunction([t \in SettledBy(w) |-> Miss(t) * Miss(t)])
               /\ sold.core.forfeited =
                      SumFunction([t \in LostBy(w) |-> Taker(Applied, t).stake])
               /\ \A t \in DOMAIN sold.pLive : sold.pLive[t] = Last(db.odds[t]).p
               /\ db.trust[w] = sold.core

\* The validator's answer reaches the row of the task it is about although it
\* arrives on another stream: of a delivered task that is caught up, and for
\* good when the answer decided the outcome (indexer.ts handleValLog).
AnswersShown ==
    Running /\ faults = 0 => \A t \in Tasks, a \in ToSet(val) :
        /\ a.task = t
        /\ \/ CaughtUp /\ a.at <= polled /\ db.tasks[t].state = "Delivered"
           \/ db.tasks[t].state = "Settled" /\ db.tasks[t].rule \in {2, 3}
        => db.tasks[t].score = a.score

\* The core's events up to the block /healthz reports.
Reported == SubSeq(core, 1, UpTo("core", db.lastBlock))

\* Whenever the queue is drained, the block /healthz reports is the last one polled,
\* and the tables hold what happened up to it: each bet but for one at most per
\* failed block-time read, whose event the cursor passes unapplied (indexer.ts
\* processBatch), and, where no such read failed, every row and odds series as the
\* events up to that block give them, with the answers given up to it.
HealthzIsHonest ==
    CaughtUp =>
        /\ db.lastBlock = polled
        /\ Cardinality({i \in BetsOn : core[i].at <= db.lastBlock} \ ToSet(db.bets)) <= faults
        /\ faults = 0 => \A t \in Tasks :
              /\ Agrees(db.tasks[t], db.odds[t], Reported, t)
              /\ \A a \in ToSet(val) :
                    a.task = t /\ a.at <= db.lastBlock /\ db.tasks[t].state = "Delivered"
                        => db.tasks[t].score = a.score

\* However often the server stops, it catches up with both logs again and again
\* (indexer.ts: the scan from the deployment block on boot, then the polls).
KeepsCatchingUp ==
    []<>(Known("core") = Len(core) /\ Known("val") = Len(val) /\ CaughtUp)

\* The tables, whatever stopped or failed: every row, bet and answer the cursors
\* have passed is there as the logs have it (indexer.ts handlers, db.ts).
TablesFollowTheLog ==
    IndexTypeOK /\ RowsFollowTheLog /\ BetRowsAccountedFor /\ AnswersShown
=============================================================================
