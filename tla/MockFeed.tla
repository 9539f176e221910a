------------------------------ MODULE MockFeed ------------------------------
(***************************************************************************)
(* The console's other data source: with ?mock=1 the page opens no socket  *)
(* and plays a script on timers (web/src/App, mockFeed), a market that     *)
(* ends YES and one that ends NO, through the same reducer.  Money is in   *)
(* USDC, the clock in tenths of a second since the page was loaded.        *)
(***************************************************************************)
EXTENDS LiveFeed

CONSTANTS TaskA, TaskB,  \* the two tasks of the script
          Late           \* how late a browser's timer fires at most, in tenths

ASSUME MockAssumption == TaskA \in Tasks /\ TaskB \in Tasks /\ Late \in Nat

VARIABLES mock, clock, played     \* ?mock=1; time; lines of the script played

mockVars == <<mock, clock, played>>
appVars == <<vars, mockVars>>

-----------------------------------------------------------------------------
(* The script: at each time, a message and n lines for the feeds.          *)

Tells(at, n) == [at |-> at, type |-> "items", n |-> n]
Shows(at, task, state, window, stake, yes, no, n) ==
    [at |-> at, type |-> "task", task |-> task, state |-> state, window |-> window,
     stake |-> stake, yes |-> yes, no |-> no, n |-> n]
Bets(at, task, id, amount, yes, no, pBps, n) ==
    [at |-> at, type |-> "bet", task |-> task, n |-> n,
     bet |-> [id |-> id, task |-> task, amount |-> amount, yes |-> yes, no |-> no,
              pBps |-> pBps]]
Rules(at, task, outcome, score, n) ==
    [at |-> at, type |-> "settled", task |-> task, outcome |-> outcome,
     score |-> score, n |-> n]

Slugify == <<
    Shows(12, TaskA, "Created", 0, 0, 0, 0, 3), Tells(26, 1),
    Shows(30, TaskA, "Open", 24, 15, 15, 0, 2),
    Bets(50, TaskA, 1, 15, 15, 15, 5000, 2), Bets(70, TaskA, 2, 10, 25, 15, 6250, 2),
    Bets(90, TaskA, 3, 5, 25, 20, 5556, 1), Bets(115, TaskA, 4, 10, 35, 20, 6364, 2),
    Bets(135, TaskA, 5, 5, 40, 20, 6667, 1), Tells(160, 2), Tells(180, 1),
    Shows(310, TaskA, "Delivered", 24, 15, 40, 20, 3), Tells(330, 2),
    Rules(340, TaskA, "Yes", 100, 2)>>
NextBusinessDay == <<
    Shows(390, TaskB, "Created", 0, 0, 0, 0, 2), Tells(400, 1),
    Shows(410, TaskB, "Open", 20, 8, 8, 0, 2),
    Bets(430, TaskB, 6, 12, 8, 12, 4000, 2), Bets(455, TaskB, 7, 6, 8, 18, 3077, 1),
    Bets(475, TaskB, 8, 5, 8, 23, 2581, 2), Tells(500, 1),
    Shows(650, TaskB, "Delivered", 20, 8, 8, 23, 2), Tells(670, 2),
    Rules(680, TaskB, "No", 50, 1)>>
Script == <<[at |-> 2, type |-> "snapshot", n |-> 0]>> \o Slugify \o NextBusinessDay

\* The row a task message shows; the window is counted from the time it fires,
\* in whole seconds, and later rows carry the cutoff on.
MockRow(line) ==
    LET old == store.entries[line.task]
    IN  [state |-> line.state, yes |-> line.yes, no |-> line.no, outcome |-> "-",
         score |-> -1, stake |-> line.stake,
         cutoff |-> CASE line.state = "Created" -> -1
                      [] line.state = "Open" -> (clock \div 10) + line.window
                      [] OTHER -> old.row.cutoff]

Message(line) ==
    CASE line.type = "snapshot" -> [type |-> "snapshot", rows |-> [t \in Tasks |-> NoRow],
                                    feed |-> <<>>, mode |-> "replay"]
      [] line.type = "task" -> [type |-> "task", task |-> line.task, row |-> MockRow(line)]
      [] OTHER -> line

\* The n lines for the feeds, dispatched one after another: the last are kept.
WithLines(s, n) == [s EXCEPT !.feed = KeepLast(@ \o [i \in 1 .. n |-> 10 * played + i], WebCap)]

MockStarts ==
    /\ clock = 0 /\ ~store.connected
    /\ store' = Connection(store, TRUE)
    /\ UNCHANGED <<clock, played>>
MockPlays ==
    /\ played < Len(Script) /\ Script[played + 1].at <= clock
    /\ LET line == Script[played + 1]
       IN  store' = WithLines(IF line.type = "items" THEN store
                              ELSE Reducer(store, Message(line)), line.n)
    /\ played' = played + 1 /\ UNCHANGED clock
MockTicks ==
    /\ store.connected
    /\ played < Len(Script) /\ clock < Script[played + 1].at + Late
    /\ clock' = clock + 1 /\ UNCHANGED <<store, played>>

MockStep ==
    /\ mock /\ (MockStarts \/ MockPlays \/ MockTicks)
    /\ UNCHANGED <<mock, chain, serverVars, open, inbox, bounds, away, tainted>>

-----------------------------------------------------------------------------
(* web/src/market: what the pages derive from an entry.                    *)

\* Seeded fault: the cutoff, in seconds, is compared with a time in milliseconds.
CutoffInMillis(row, now) ==
    IF row.state = "Open" /\ row.cutoff # -1 /\ 1000 * now > row.cutoff
    THEN "Executing" ELSE row.state

\* Open and past the cutoff is shown as Executing.
DisplayState(row, now) ==
    IF row.state = "Open" /\ row.cutoff # -1 /\ now > row.cutoff
    THEN "Executing" ELSE row.state

Volume(entry) == FoldLeft(LAMBDA sum, bet : sum + bet.amount, 0, entry.bets)

-----------------------------------------------------------------------------
AppInit == Init /\ mock \in BOOLEAN /\ clock = 0 /\ played = 0
AppNext == MockStep \/ (~mock /\ Next /\ UNCHANGED mockVars)

AppSpec == AppInit /\ [][AppNext]_appVars

\* Timers fire; connectWs keeps reconnecting, the browser delivers what it receives.
FairAppSpec == /\ AppSpec
               /\ WF_appVars(MockStep)
               /\ WF_appVars(~mock /\ Connects /\ UNCHANGED mockVars)
               /\ WF_appVars(~mock /\ Receives /\ UNCHANGED mockVars)
=============================================================================
