----------------------------- MODULE FeedSafety -----------------------------
(***************************************************************************)
(* What the console shows, compared with what the server knows.            *)
(***************************************************************************)
EXTENDS MockFeed

\* The client has everything the server sent on this connection, and no line of
\* a replay was among it.
InStep == open /\ inbox = <<>> /\ ~tainted
Known(t) == store.entries[t] # NoRow
BetsOf(t) == {i \in DOMAIN bets : bets[i].task = t}

\* Type invariant of the server's tables and rings, the socket and the store.
FeedTypeOK ==
    /\ open \in BOOLEAN /\ mode \in {"live", "replay"}
    /\ ~mock => store.connected = open
    /\ Len(ring) <= ServerCap /\ Len(store.feed) <= WebCap
    /\ away \subseteq DOMAIN bets
    /\ rows \in [Tasks -> TaskRow \cup {NoRow}]
    /\ \A t \in Tasks : Known(t) => Len(store.entries[t].odds) <= WebCap

\* A client in step shows exactly the tasks of the server's table, each with its
\* state, pools and outcome, whatever it missed before it reconnected (store.ts
\* snapshot, task, bet and settled; ws.ts sends the snapshot first).
RowsInStep ==
    InStep => \A t \in Tasks :
        /\ Known(t) <=> rows[t] # NoRow
        /\ Known(t) => LET shown == store.entries[t].row
                       IN  [shown EXCEPT !.score = 0] = [rows[t] EXCEPT !.score = 0]

\* Its feeds are the server's rings, oldest evicted alike, and survive neither a
\* restart of the server nor the reconnection that follows (console.ts Ring).
FeedsInStep == InStep => store.feed = ring /\ store.mode = mode

\* The bets a client shows are the table's, once each and in order, but for those
\* placed while it was away (store.ts bet; the snapshot carries no bets).
BetsMissedOnlyWhileAway ==
    replays = 0 /\ open /\ inbox = <<>> => \A t \in Tasks : Known(t) =>
        LET shown == store.entries[t].bets
        IN  /\ {shown[i].id : i \in DOMAIN shown} = BetsOf(t) \ away
            /\ \A i, j \in DOMAIN shown : i < j => shown[i].id < shown[j].id

\* The price shown is the pools' price unless a bet on the task was missed
\* (market.ts prices reads the odds series before the pools).
StalePriceNeedsAMissedBet ==
    replays = 0 /\ open /\ inbox = <<>> => \A t \in Tasks :
        Known(t) /\ ShownPBps(store.entries[t]) # PBps(rows[t]) =>
            BetsOf(t) \cap away # {}

\* The client is connected and up to date again and again, whatever breaks
\* (ws.ts: one second after a close it opens a new socket).
KeepsReconnecting == []<>(mock \/ (open /\ inbox = <<>>))

\* The scripted market is one the system could have had: at every time the bets'
\* volume and the worker's stake are the pools, the price shown is theirs, rounded,
\* and the verdict agrees with the score (mockFeed.ts startMockFeed through
\* store.ts; market.ts volumeUnits and prices).
MockAddsUp ==
    mock => \A t \in Tasks : Known(t) =>
        LET entry == store.entries[t]
            row == entry.row
        IN  /\ row.yes + row.no = row.stake + Volume(entry)
            /\ entry.bets # <<>> => ShownPBps(entry) - PBps(row) \in {0, 1}
            /\ row.state = "Settled" => (row.outcome = "Yes" <=> row.score >= 80)

\* Whenever the timers fire, the phase a page shows for a scripted task only moves
\* forward, and bets arrive only while it says that betting is open (market.ts
\* displayState and bettingOpen against mockFeed.ts startMockFeed's times).
Rank == [Created |-> 1, Open |-> 2, Executing |-> 3, Delivered |-> 4, Settled |-> 5]
Shown(t) == DisplayState(store.entries[t].row, clock \div 10)
MockPhasesAdvance ==
    [][mock => \A t \in Tasks : Known(t) =>
        /\ Rank[Shown(t)] <= Rank[Shown(t)']
        /\ store'.entries[t].bets # store.entries[t].bets => Shown(t) = "Open"]_appVars

\* Both properties of the scripted market at every step of its playing.
MockIsAMarket == []MockAddsUp /\ MockPhasesAdvance

\* Up to date, a client shows the server's tasks and feeds (store.ts snapshot and
\* the messages after it, against api.ts, indexer.ts and console.ts).
ConsoleInStep == FeedTypeOK /\ RowsInStep /\ FeedsInStep

\* What a client misses, and what its price misses, was placed while it was away
\* (store.ts keeps bets and odds across a snapshot).
MissedOnlyWhileAway == BetsMissedOnlyWhileAway /\ StalePriceNeedsAMissedBet
=============================================================================
