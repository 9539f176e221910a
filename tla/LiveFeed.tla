------------------------------ MODULE LiveFeed ------------------------------
(***************************************************************************)
(* The console's data path: what the server broadcasts over the WebSocket  *)
(* (server/src/ws, console, the handlers of indexer and api) and what the  *)
(* web client's reducer makes of it (web/src/ws, store, market).  The      *)
(* chain is one event at a time; a handler's write to the tables and its   *)
(* broadcasts are one step, the socket in between is a FIFO that breaks.   *)
(***************************************************************************)
EXTENDS Integers, Sequences, SequencesExt, FiniteSets

CONSTANTS Tasks, Stake, BetSize, Verdicts,
          Created,              \* bound: the tasks created on the chain
          Lines,                \* messages recorded by an earlier run of the server
          ServerCap, WebCap,    \* capacities of the server's rings, the store's feeds
          MaxBets, MaxItems,    \* bounds on bets and on feed items
          MaxBreaks,            \* bound on broken sockets and server restarts
          MaxFaults,            \* bound on events whose handler fails
          MaxReplays            \* bound on lines replayed

VARIABLES chain,                          \* the tasks as the contract has them
          rows, bets, ring, mode,         \* the server
          open, inbox,                    \* the socket, server to client
          store,                          \* the client
          items, breaks, faults, replays,
          away, tainted                   \* bets the client was not sent; a replay hit it

serverVars == <<rows, bets, ring, mode>>
bounds == <<items, breaks, faults, replays>>
vars == <<chain, serverVars, open, inbox, store, bounds, away, tainted>>

\* A task's row, a bet's, and what is broadcast (a snapshot goes to one socket).
TaskRow == [state : {"Created", "Open", "Executing", "Delivered", "Settled", "Cancelled"},
            yes : Nat, no : Nat, outcome : {"-", "Yes", "No"}, score : Int]
BetRow == [id : Nat, task : Tasks, amount : Nat, yes : Nat, no : Nat, pBps : Int]
WsMessage == [type : {"task"}, task : Tasks, row : TaskRow]
                \cup [type : {"bet"}, task : Tasks, bet : BetRow]
                \cup [type : {"settled"}, task : Tasks, outcome : {"Yes", "No"}, score : Int]
                \cup [type : {"item"}, item : Int]
                \cup [type : {"director"}, mode : {"live", "replay"}]

\* The server's rings and the store's feeds have one capacity, 200.
ASSUME FeedAssumption ==
    /\ Created \subseteq Tasks /\ Lines \subseteq WsMessage
    /\ Stake \in Nat /\ BetSize \in Nat
    /\ Verdicts \subseteq [outcome : {"Yes", "No"}, score : Nat]
    /\ ServerCap \in Nat \ {0} /\ WebCap = ServerCap

NoRow == [state |-> "none"]
PBps(row) == IF row.yes + row.no = 0 THEN 5000
             ELSE (row.yes * 10000) \div (row.yes + row.no)

-----------------------------------------------------------------------------
(* The web client: reducer(state, action) of store.ts.                     *)

InitialStore == [connected |-> FALSE, serverOk |-> FALSE, mode |-> "live",
                 entries |-> [t \in Tasks |-> NoRow], feed |-> <<>>]

\* Seeded fault: the oldest are kept.
KeepFirst(s, n) == IF Len(s) > n THEN SubSeq(s, 1, n) ELSE s
\* Seeded fault: one more than the capacity is kept.
KeepOneMore(s, n) == IF Len(s) > n + 1 THEN SubSeq(s, Len(s) - n, Len(s)) ELSE s
KeepLast(s, n) == IF Len(s) > n THEN SubSeq(s, Len(s) - n + 1, Len(s)) ELSE s

SeedOdds(row) == IF row.yes + row.no = 0 THEN <<>> ELSE <<PBps(row)>>
OddsOr(entry, row) == IF entry # NoRow /\ entry.odds # <<>> THEN entry.odds ELSE SeedOdds(row)
Entry(row, old, justSettled) ==
    [row |-> row, justSettled |-> justSettled, odds |-> OddsOr(old, row),
     bets |-> IF old = NoRow THEN <<>> ELSE old.bets]

Connection(s, up) == [s EXCEPT !.connected = up, !.serverOk = up]

\* Seeded fault: what the store already has of a task is kept.
SnapshotKeepsRows(s, m) ==
    [s EXCEPT !.entries = [t \in Tasks |-> IF m.rows[t] = NoRow THEN NoRow
                                           ELSE IF s.entries[t] # NoRow THEN s.entries[t]
                                           ELSE Entry(m.rows[t], NoRow, FALSE)],
              !.feed = KeepLast(m.feed, WebCap), !.mode = m.mode, !.serverOk = TRUE]

\* Seeded fault: the feed is appended to the one the store has.
SnapshotAppends(s, m) ==
    [s EXCEPT !.entries = [t \in Tasks |-> IF m.rows[t] = NoRow THEN NoRow
                                           ELSE Entry(m.rows[t], s.entries[t], FALSE)],
              !.feed = KeepLast(@ \o m.feed, WebCap), !.mode = m.mode, !.serverOk = TRUE]

\* Seeded fault: the bets of the tasks are dropped.
SnapshotForgetsBets(s, m) ==
    [s EXCEPT !.entries = [t \in Tasks |-> IF m.rows[t] = NoRow THEN NoRow
                                           ELSE Entry(m.rows[t], NoRow, FALSE)],
              !.feed = KeepLast(m.feed, WebCap), !.mode = m.mode, !.serverOk = TRUE]

\* The tasks are replaced, but for the bets and odds series of those known.
Snapshot(s, m) ==
    [s EXCEPT !.entries = [t \in Tasks |-> IF m.rows[t] = NoRow THEN NoRow
                                           ELSE Entry(m.rows[t], s.entries[t], FALSE)],
              !.feed = KeepLast(m.feed, WebCap), !.mode = m.mode, !.serverOk = TRUE]

\* Seeded fault: a task's new row drops its bets.
TaskForgetsBets(s, m) == [s EXCEPT !.entries[m.task] = Entry(m.row, NoRow, FALSE)]
TaskMessage(s, m) ==
    LET old == s.entries[m.task]
    IN  [s EXCEPT !.entries[m.task] = Entry(m.row, old, old # NoRow /\ old.justSettled)]
BetMessage(s, m) ==
    LET old == s.entries[m.task]
    IN  IF old = NoRow THEN s
        ELSE [s EXCEPT !.entries[m.task] =
                [old EXCEPT !.row = [@ EXCEPT !.yes = m.bet.yes, !.no = m.bet.no],
                            !.bets = Append(@, m.bet),
                            !.odds = KeepLast(Append(@, m.bet.pBps), WebCap)]]
SettledMessage(s, m) ==
    LET old == s.entries[m.task]
    IN  IF old = NoRow THEN s
        ELSE [s EXCEPT !.entries[m.task] =
                [old EXCEPT !.row = [@ EXCEPT !.state = "Settled", !.outcome = m.outcome,
                                              !.score = m.score],
                            !.justSettled = TRUE]]

Reducer(s, m) ==
    CASE m.type = "snapshot" -> Snapshot(s, m)
      [] m.type = "task" -> TaskMessage(s, m)
      [] m.type = "bet" -> BetMessage(s, m)
      [] m.type = "settled" -> SettledMessage(s, m)
      [] m.type = "item" -> [s EXCEPT !.feed = KeepLast(Append(@, m.item), WebCap)]
      [] m.type = "director" -> [s EXCEPT !.mode = m.mode, !.serverOk = TRUE]

\* market.ts prices: the last odds point, the pools when there is none.
ShownPBps(entry) == IF entry.odds # <<>> THEN Last(entry.odds) ELSE PBps(entry.row)

-----------------------------------------------------------------------------
(* The server: tables, rings and broadcasts.                               *)

\* A broadcast reaches the sockets that are open.
Broadcast(msgs) == inbox' = IF open THEN inbox \o msgs ELSE inbox

\* Ring.push and its message: a transaction, a payment or a line of activity.
Item == [type |-> "item", item |-> items + 1]
PushItem ==
    /\ items < MaxItems /\ items' = items + 1
    /\ ring' = KeepLast(Append(ring, items + 1), ServerCap)

\* pushTask: the row as it is after this step, when there is one.
PushTask(t) == IF rows'[t] = NoRow THEN <<>>
               ELSE <<[type |-> "task", task |-> t, row |-> rows'[t]]>>

\* UPDATE tasks SET ... WHERE task_id = t.
Update(t, row) == rows' = IF rows[t] = NoRow THEN rows ELSE [rows EXCEPT ![t] = row]

ChainMoves(t, from, next) ==
    /\ chain[t].state \in from
    /\ chain' = [chain EXCEPT ![t] = next]

\* The same change to a task of the contract and to its row.
In(state, r) == [r EXCEPT !.state = state]
Opened(r) == [r EXCEPT !.state = "Open", !.yes = Stake, !.no = 0]
WithPools(pools, r) == [r EXCEPT !.yes = pools.yes, !.no = pools.no]
Judged(verdict, r) ==
    [r EXCEPT !.state = "Settled", !.outcome = verdict.outcome, !.score = verdict.score]

HandlerFrame == UNCHANGED <<mode, open, store, breaks, faults, replays, tainted>>

Creates(t) ==
    /\ ChainMoves(t, {"none"}, In("Created", chain[t]))
    /\ rows' = [rows EXCEPT ![t] = [state |-> "Created", yes |-> 0, no |-> 0,
                                    outcome |-> "-", score |-> -1]]
    /\ PushItem /\ Broadcast(<<Item>> \o PushTask(t))
    /\ UNCHANGED <<bets, away>> /\ HandlerFrame

Advances(t, from, next, row) ==
    /\ ChainMoves(t, from, next)
    /\ Update(t, row)
    /\ PushItem /\ Broadcast(<<Item>> \o PushTask(t))
    /\ UNCHANGED <<bets, away>> /\ HandlerFrame

Accepts(t) == Advances(t, {"Created"}, Opened(chain[t]), Opened(rows[t]))
\* A delivery is two events of one transaction, each handled in its turn.
Delivers(t) == Advances(t, {"Executing"}, In("Delivered", chain[t]), In("Delivered", rows[t]))

\* ExecutionStarted and TaskCancelled are no console transactions: the row alone
\* is pushed.
Becomes(t, from, state) ==
    /\ ChainMoves(t, {from}, In(state, chain[t]))
    /\ Update(t, In(state, rows[t]))
    /\ Broadcast(PushTask(t))
    /\ UNCHANGED <<bets, ring, items, away>> /\ HandlerFrame

Starts(t) == Becomes(t, "Open", "Executing")
Cancels(t) == Becomes(t, "Created", "Cancelled")

Settles(t) ==
    \E verdict \in Verdicts :
        /\ ChainMoves(t, {"Open", "Delivered"}, In("Settled", chain[t]))
        /\ Update(t, Judged(verdict, rows[t]))
        /\ PushItem
        /\ Broadcast(<<Item>> \o PushTask(t) \o
                     <<[type |-> "settled", task |-> t, outcome |-> verdict.outcome,
                        score |-> verdict.score]>>)
        /\ UNCHANGED <<bets, away>> /\ HandlerFrame

\* The pools after a bet on side, as the event carries them.
PoolsAfter(t, side) ==
    [yes |-> chain[t].yes + (IF side = "Yes" THEN BetSize ELSE 0),
     no |-> chain[t].no + (IF side = "No" THEN BetSize ELSE 0)]

\* BetPlaced: the pools, the bet's row, and a message of its own.
PlacesBet(t) ==
    \E side \in {"Yes", "No"} :
    LET pools == PoolsAfter(t, side)
        bet == [id |-> Len(bets) + 1, task |-> t, amount |-> BetSize,
                yes |-> pools.yes, no |-> pools.no, pBps |-> PBps(pools)]
    IN  /\ Len(bets) < MaxBets
        /\ ChainMoves(t, {"Open"}, WithPools(pools, chain[t]))
        /\ Update(t, WithPools(pools, rows[t]))
        /\ bets' = Append(bets, bet)
        /\ away' = IF open THEN away ELSE away \cup {bet.id}
        /\ PushItem /\ Broadcast(<<Item, [type |-> "bet", task |-> t, bet |-> bet]>>)
        /\ HandlerFrame

\* The handler throws before it touches anything: the event is lost to the server.
HandlerFails(t) ==
    /\ faults < MaxFaults /\ faults' = faults + 1
    /\ \/ ChainMoves(t, {"none"}, In("Created", chain[t]))
       \/ ChainMoves(t, {"Created"}, Opened(chain[t]))
       \/ ChainMoves(t, {"Open"}, In("Executing", chain[t]))
       \/ ChainMoves(t, {"Executing"}, In("Delivered", chain[t]))
       \/ ChainMoves(t, {"Open", "Delivered"}, In("Settled", chain[t]))
       \/ \E side \in {"Yes", "No"} :
             ChainMoves(t, {"Open"}, WithPools(PoolsAfter(t, side), chain[t]))
    /\ UNCHANGED <<serverVars, open, inbox, store, items, breaks, replays,
                   away, tainted>>

\* handleValLog sets the validator's score and tells nobody.
Answers(t) ==
    /\ chain[t].state = "Delivered"
    /\ \E verdict \in Verdicts : Update(t, [rows[t] EXCEPT !.score = verdict.score])
    /\ UNCHANGED <<chain, bets, ring, mode, open, inbox, store, bounds,
                   away, tainted>>

\* POST /v1/activity, POST /v1/payment, and the payment of a gated route.
Posts ==
    /\ PushItem /\ Broadcast(<<Item>>)
    /\ UNCHANGED <<chain, rows, bets, away>> /\ HandlerFrame

\* POST /v1/director.
Directs ==
    /\ items < MaxItems /\ items' = items + 1
    /\ \E m \in {"live", "replay"} : mode' = m
    /\ Broadcast(<<[type |-> "director", mode |-> mode']>>)
    /\ UNCHANGED <<chain, rows, bets, ring, open, store, breaks, faults, replays,
                   away, tainted>>

\* GET /v1/replay/:id: timers broadcast the lines of a recorded run to everybody.
Replays ==
    /\ replays < MaxReplays /\ replays' = replays + 1
    /\ \E m \in Lines : Broadcast(<<m>>)
    /\ tainted' = (tainted \/ open)
    /\ UNCHANGED <<chain, serverVars, open, store, items, breaks, faults, away>>

-----------------------------------------------------------------------------
(* The socket.                                                             *)

\* Seeded fault: a socket that broke is not opened again.
ConnectsOnce ==
    /\ ~open /\ breaks = 0 /\ open' = TRUE
    /\ store' = Connection(store, TRUE)
    /\ inbox' = <<[type |-> "snapshot", rows |-> rows, feed |-> ring, mode |-> mode]>>
    /\ tainted' = FALSE
    /\ UNCHANGED <<chain, serverVars, bounds, away>>

\* A new socket is sent a snapshot before anything else.
Connects ==
    /\ ~open /\ open' = TRUE
    /\ store' = Connection(store, TRUE)
    /\ inbox' = <<[type |-> "snapshot", rows |-> rows, feed |-> ring, mode |-> mode]>>
    /\ tainted' = FALSE
    /\ UNCHANGED <<chain, serverVars, bounds, away>>

Receives ==
    /\ inbox # <<>>
    /\ store' = Reducer(store, Head(inbox)) /\ inbox' = Tail(inbox)
    /\ UNCHANGED <<chain, serverVars, open, bounds, away, tainted>>

Closes ==
    /\ open /\ breaks < MaxBreaks
    /\ open' = FALSE /\ inbox' = <<>> /\ breaks' = breaks + 1
    /\ UNCHANGED <<chain, rows, bets, items, faults, replays, tainted>>
Unsent == DOMAIN bets \cap
    {inbox[i].bet.id : i \in {j \in DOMAIN inbox : inbox[j].type = "bet"}}

\* The connection breaks; the client notices and tries again a second later.
Breaks ==
    /\ Closes
    /\ store' = Connection(store, FALSE) /\ away' = away \cup Unsent
    /\ UNCHANGED <<ring, mode>>

\* The page is reloaded: the store starts empty.
Reloads ==
    /\ Closes
    /\ store' = InitialStore /\ away' = DOMAIN bets
    /\ UNCHANGED <<ring, mode>>

\* The server restarts: its tables survive, its rings and its mode do not.
ServerRestarts ==
    /\ Closes
    /\ store' = Connection(store, FALSE) /\ away' = away \cup Unsent
    /\ ring' = <<>> /\ mode' = "live"

-----------------------------------------------------------------------------
Init ==
    /\ chain = [t \in Tasks |-> [state |-> "none", yes |-> 0, no |-> 0]]
    /\ rows = [t \in Tasks |-> NoRow] /\ bets = <<>> /\ ring = <<>> /\ mode = "live"
    /\ open = FALSE /\ inbox = <<>> /\ store = InitialStore
    /\ items = 0 /\ breaks = 0 /\ faults = 0 /\ replays = 0
    /\ away = {} /\ tainted = FALSE

Handlers(t) == Creates(t) \/ Accepts(t) \/ Cancels(t) \/ Starts(t) \/ Delivers(t)
                  \/ Settles(t) \/ PlacesBet(t) \/ HandlerFails(t) \/ Answers(t)

Next == \/ \E t \in Created : Handlers(t)
        \/ Posts \/ Directs \/ Replays
        \/ Connects \/ Receives \/ Breaks \/ Reloads \/ ServerRestarts

=============================================================================
