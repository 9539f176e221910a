----------------------------- MODULE FeedProofs -----------------------------
(***************************************************************************)
(* What a console shows.  Its store is behind by the messages in the       *)
(* socket, so the invariant speaks of the stages it will go through: the   *)
(* store now, and after each message received.  The last stage agrees with *)
(* the server; every stage tells of the bets that had been sent by then,   *)
(* so a connection that breaks leaves the store in a state it can go on    *)
(* from.  The stages are the witness of an existential, since the value of *)
(* a fold over the socket is out of the provers' reach.                    *)
(***************************************************************************)
EXTENDS FeedSafety, SequenceTheorems, TLAPS

ChainTask == [state : {"none", "Created", "Open", "Executing", "Delivered", "Settled",
                       "Cancelled"},
              yes : Nat, no : Nat]

\* What a socket carries: the broadcasts, and a snapshot before them.
Wire == WsMessage \cup [type : {"snapshot"}, rows : [Tasks -> TaskRow \cup {NoRow}],
                        feed : Seq(Int), mode : {"live", "replay"}]

EntryShape(e) ==
    /\ e = [row |-> e.row, justSettled |-> e.justSettled, odds |-> e.odds, bets |-> e.bets]
    /\ e.odds \in Seq(Int) /\ Len(e.odds) <= WebCap
    /\ e.bets \in Seq(BetRow)

StoreFields(s) == s = [connected |-> s.connected, serverOk |-> s.serverOk, mode |-> s.mode,
                       entries |-> s.entries, feed |-> s.feed]

StoreShape(s) ==
    /\ StoreFields(s)
    /\ s.entries = [t \in Tasks |-> s.entries[t]]
    /\ \A t \in Tasks : s.entries[t] = NoRow \/ EntryShape(s.entries[t])
    /\ s.feed \in Seq(Int) /\ Len(s.feed) <= WebCap

BetsIn(bt, t) == {i \in DOMAIN bt : bt[i].task = t}

\* The tables follow the chain: no row before its task, no bet and no pool
\* before the task is open.
Tables(ch, rw, bt) ==
    /\ ch \in [Tasks -> ChainTask]
    /\ rw \in [Tasks -> TaskRow \cup {NoRow}]
    /\ bt \in Seq(BetRow) /\ \A i \in DOMAIN bt : bt[i].id = i
    /\ \A t \in Tasks : ch[t].state = "none" => rw[t] = NoRow
    /\ \A t \in Tasks : ch[t].state \in {"none", "Created"} =>
          BetsIn(bt, t) = {} /\ (rw[t] # NoRow => rw[t].yes = 0 /\ rw[t].no = 0)

Had(e) == IF e = NoRow THEN {} ELSE {e.bets[i].id : i \in DOMAIN e.bets}

\* The entry of task t, when the bets in gone are missing or still to come.
TracksTask(t, e, gone, ch, rw, bt) ==
    /\ rw[t] = NoRow => e = NoRow
    /\ rw[t] # NoRow => Had(e) = BetsIn(bt, t) \ gone
    /\ e # NoRow =>
          /\ \A i, j \in DOMAIN e.bets : i < j => e.bets[i].id < e.bets[j].id
          /\ ch[t].state \in {"none", "Created"} => e.odds = <<>>
          /\ e.odds # <<>> /\ BetsIn(bt, t) \cap gone = {} => Last(e.odds) = PBps(rw[t])

Tracks(s, gone, ch, rw, bt) ==
    \A t \in Tasks : TracksTask(t, s.entries[t], gone, ch, rw, bt)

\* The rows agree but for the validator's score, which is not broadcast alone.
SameRow(r, row) ==
    /\ r \in TaskRow /\ r.state = row.state /\ r.outcome = row.outcome
    /\ r.yes = row.yes /\ r.no = row.no

Agrees(s, rw, rg, md) ==
    /\ \A t \in Tasks : s.entries[t] # NoRow <=> rw[t] # NoRow
    /\ \A t \in Tasks : s.entries[t] # NoRow => SameRow(s.entries[t].row, rw[t])
    /\ s.feed = rg /\ s.mode = md

\* The bets among the messages of a socket after the first i.
Ids(m) == IF m.type = "bet" THEN {m.bet.id} ELSE {}
Later(box, i) == UNION {Ids(box[j]) : j \in (i + 1) .. Len(box)}

\* F[i] is the store after i messages.
Path(F, s, box) ==
    /\ F[0] = s
    /\ \A i \in 1 .. Len(box) : F[i] = Reducer(F[i - 1], box[i])

Stages(F, s, box, up, gone, calm, ch, rw, bt) ==
    /\ Path(F, s, box)
    /\ \A i \in 0 .. Len(box) :
          /\ StoreShape(F[i]) /\ F[i].connected = up
          /\ calm => Tracks(F[i], gone \cup Later(box, i), ch, rw, bt)

ServerShape ==
    /\ Tables(chain, rows, bets)
    /\ ring \in Seq(Int) /\ Len(ring) <= ServerCap /\ mode \in {"live", "replay"}
    /\ items \in Nat /\ replays \in Nat /\ played \in Nat
    /\ open \in BOOLEAN /\ tainted \in BOOLEAN /\ mock \in BOOLEAN
    /\ inbox \in Seq(Wire) /\ away \subseteq DOMAIN bets
    /\ ~open => inbox = <<>>
    /\ open => ~mock
    /\ tainted => replays > 0

\* A client, what it has and what is on its way: the last stage, when fresh, is
\* the server's.
Good(s, box, up, gone, calm, fresh, ch, rw, bt, rg, md) ==
    /\ box \in Seq(Wire)
    /\ \E F : /\ Stages(F, s, box, up, gone, calm, ch, rw, bt)
              /\ fresh => Agrees(F[Len(box)], rw, rg, md)

\* A console fed by the server.
Fed == Good(store, inbox, open, away, replays = 0, open /\ ~tainted,
            chain, rows, bets, ring, mode)

FeedInv ==
    /\ ServerShape
    /\ mock => StoreShape(store)
    /\ ~mock => Fed

-----------------------------------------------------------------------------
(* Sequences that keep their last elements. *)

LEMMA KeepLastShape ==
    ASSUME NEW S, NEW s \in Seq(S), NEW n \in Nat
    PROVE  KeepLast(s, n) \in Seq(S) /\ Len(KeepLast(s, n)) <= n
<1>1. CASE Len(s) > n
  <2>1. Len(s) - n + 1 \in 1 .. Len(s) + 1 /\ Len(s) \in Nat
    BY <1>1, LenProperties
  <2>2. /\ SubSeq(s, Len(s) - n + 1, Len(s)) \in Seq(S)
        /\ Len(SubSeq(s, Len(s) - n + 1, Len(s))) = Len(s) - (Len(s) - n + 1) + 1
    BY <2>1, SubSeqProperties
  <2> QED
    BY <1>1, <2>1, <2>2 DEF KeepLast
<1>2. CASE ~(Len(s) > n)
  BY <1>2, LenProperties DEF KeepLast
<1> QED
  BY <1>1, <1>2

LEMMA KeepLastFits ==
    ASSUME NEW S, NEW s \in Seq(S), NEW n \in Nat, Len(s) <= n
    PROVE  KeepLast(s, n) = s
BY LenProperties DEF KeepLast

\* What was appended last is kept.
LEMMA LastKept ==
    ASSUME NEW S, NEW s \in Seq(S), NEW x \in S, NEW n \in Nat \ {0}
    PROVE  KeepLast(Append(s, x), n) # <<>> /\ Last(KeepLast(Append(s, x), n)) = x
<1> DEFINE a == Append(s, x)
<1>1. a \in Seq(S) /\ Len(a) = Len(s) + 1 /\ a[Len(a)] = x /\ Len(s) \in Nat
  BY AppendProperties, LenProperties
<1> HIDE DEF a
<1>2. CASE Len(a) > n
  <2> DEFINE m == Len(a) - n + 1
             b == SubSeq(a, m, Len(a))
  <2>1. m \in 1 .. Len(a) + 1 /\ Len(a) - m + 1 = n /\ n >= 1 /\ m + n - 1 = Len(a)
    BY <1>1, <1>2
  <2>2. Len(b) = n /\ \A i \in 1 .. n : b[i] = a[m + i - 1]
    <3> HIDE DEF m
    <3> QED
      BY <1>1, <2>1, SubSeqProperties
  <2>3. b[n] = x
    BY <1>1, <2>1, <2>2
  <2>4. KeepLast(a, n) = b
    BY <1>2 DEF KeepLast
  <2>5. b # <<>>
    BY <2>1, <2>2
  <2> HIDE DEF b, m
  <2> QED
    BY <2>2, <2>3, <2>4, <2>5 DEF a, Last
<1>3. CASE ~(Len(a) > n)
  <2>1. KeepLast(a, n) = a
    BY <1>3 DEF KeepLast
  <2>2. a # <<>>
    BY <1>1
  <2> QED
    BY <1>1, <2>1, <2>2 DEF a, Last
<1> QED
  BY <1>2, <1>3

-----------------------------------------------------------------------------
(* The reducer keeps the shape of the store. *)

\* All a message needs for it: a script's rows have more fields than the table's.
MessageShape(m) ==
    \/ /\ m.type = "snapshot" /\ m.feed \in Seq(Int)
       /\ \A t \in Tasks : m.rows[t] = NoRow \/ (m.rows[t].yes \in Nat /\ m.rows[t].no \in Nat)
    \/ m.type = "task" /\ m.task \in Tasks /\ m.row.yes \in Nat /\ m.row.no \in Nat
    \/ m.type = "bet" /\ m.task \in Tasks /\ m.bet \in BetRow
    \/ m.type = "settled" /\ m.task \in Tasks
    \/ m.type = "item" /\ m.item \in Int
    \/ m.type = "director"

LEMMA WireShape == ASSUME NEW m \in Wire PROVE MessageShape(m)
<1>1. \A row \in TaskRow : row.yes \in Nat /\ row.no \in Nat
  BY DEF TaskRow
<1> HIDE DEF TaskRow
<1> QED
  BY <1>1 DEF Wire, WsMessage, MessageShape

LEMMA PBpsInt ==
    ASSUME NEW row, row.yes \in Nat, row.no \in Nat
    PROVE  PBps(row) \in Int
BY DEF PBps

LEMMA EntryIsNoNoRow == ASSUME NEW e, EntryShape(e) PROVE e # NoRow
<1>1. DOMAIN e # DOMAIN NoRow
  BY DEF EntryShape, NoRow
<1> QED
  BY <1>1

LEMMA CapIsPositive == WebCap \in Nat \ {0} /\ ServerCap = WebCap
BY FeedAssumption

LEMMA EntryKeepsShape ==
    ASSUME NEW row, row.yes \in Nat, row.no \in Nat, NEW old, NEW fresh,
           old = NoRow \/ EntryShape(old)
    PROVE  EntryShape(Entry(row, old, fresh))
<1> DEFINE e == Entry(row, old, fresh)
<1>1. SeedOdds(row) \in Seq(Int) /\ Len(SeedOdds(row)) <= WebCap
  BY PBpsInt, CapIsPositive DEF SeedOdds
<1>2. OddsOr(old, row) \in Seq(Int) /\ Len(OddsOr(old, row)) <= WebCap
  BY <1>1 DEF OddsOr, EntryShape
<1>3. (IF old = NoRow THEN <<>> ELSE old.bets) \in Seq(BetRow)
  BY DEF EntryShape
<1> QED
  BY <1>2, <1>3 DEF Entry, EntryShape

LEMMA ConnectionShape ==
    ASSUME NEW s, StoreShape(s), NEW up
    PROVE  /\ StoreShape(Connection(s, up)) /\ Connection(s, up).connected = up
           /\ Connection(s, up).entries = s.entries
<1> DEFINE next == Connection(s, up)
<1>0. StoreFields(s) /\ next = [s EXCEPT !.connected = up, !.serverOk = up]
  BY DEF StoreShape, Connection
<1> HIDE DEF next
<1>1. StoreFields(next) /\ next.connected = up /\ next.entries = s.entries /\ next.feed = s.feed
  BY <1>0 DEF StoreFields
<1>2. StoreShape(next)
  BY <1>1 DEF StoreShape
<1> QED
  BY <1>1, <1>2 DEF next

\* A store whose entry of task t is replaced, and one whose feed is.
WithEntry(s, t, e) == [s EXCEPT !.entries[t] = e]

LEMMA NewEntryShape ==
    ASSUME NEW s, StoreShape(s), NEW t \in Tasks, NEW e, EntryShape(e),
           NEW next, next = WithEntry(s, t, e)
    PROVE  /\ StoreShape(next)
           /\ \A u \in Tasks : next.entries[u] = IF u = t THEN e ELSE s.entries[u]
           /\ next.feed = s.feed /\ next.mode = s.mode /\ next.connected = s.connected
<1>1. /\ next.entries = [s.entries EXCEPT ![t] = e] /\ next.feed = s.feed
      /\ next.mode = s.mode /\ next.connected = s.connected /\ StoreFields(next)
  <2>1. StoreFields(s)
    BY DEF StoreShape
  <2> QED
    BY <2>1 DEF StoreFields, WithEntry
<1>2. \A u \in Tasks : next.entries[u] = IF u = t THEN e ELSE s.entries[u]
  BY <1>1 DEF StoreShape
<1>3. next.entries = [u \in Tasks |-> next.entries[u]]
  BY <1>1 DEF StoreShape
<1>4. \A u \in Tasks : next.entries[u] = NoRow \/ EntryShape(next.entries[u])
  <2> HIDE DEF EntryShape
  <2> QED
    BY <1>2 DEF StoreShape
<1>5. StoreShape(next)
  BY <1>1, <1>3, <1>4 DEF StoreShape
<1> QED
  BY <1>1, <1>2, <1>5

LEMMA NewFeedShape ==
    ASSUME NEW s, StoreShape(s), NEW feed \in Seq(Int), Len(feed) <= WebCap,
           NEW next, next = [s EXCEPT !.feed = feed]
    PROVE  /\ StoreShape(next) /\ next.entries = s.entries /\ next.feed = feed
           /\ next.mode = s.mode /\ next.connected = s.connected
<1>1. /\ next.entries = s.entries /\ next.feed = feed /\ next.mode = s.mode
      /\ next.connected = s.connected /\ StoreFields(next)
  <2>1. StoreFields(s)
    BY DEF StoreShape
  <2> QED
    BY <2>1 DEF StoreFields
<1>2. StoreShape(next)
  BY <1>1 DEF StoreShape
<1> QED
  BY <1>1, <1>2

Refreshed(next, s, m) ==
    /\ StoreShape(next)
    /\ \A t \in Tasks : next.entries[t] = IF m.rows[t] = NoRow THEN NoRow
                                          ELSE Entry(m.rows[t], s.entries[t], FALSE)
    /\ next.feed = KeepLast(m.feed, WebCap) /\ next.mode = m.mode
    /\ next.connected = s.connected

LEMMA SnapshotShape ==
    ASSUME NEW s, StoreShape(s), NEW m, m.feed \in Seq(Int),
           \A t \in Tasks : m.rows[t] = NoRow \/ (m.rows[t].yes \in Nat /\ m.rows[t].no \in Nat)
    PROVE  Refreshed(Snapshot(s, m), s, m)
<1> DEFINE next == Snapshot(s, m)
<1> DEFINE shown == [t \in Tasks |-> IF m.rows[t] = NoRow THEN NoRow
                                     ELSE Entry(m.rows[t], s.entries[t], FALSE)]
           feed == KeepLast(m.feed, WebCap)
<1>1. feed \in Seq(Int) /\ Len(feed) <= WebCap
  BY KeepLastShape, CapIsPositive
<1>2. \A t \in Tasks : shown[t] = NoRow \/ EntryShape(shown[t])
  BY EntryKeepsShape DEF StoreShape
<1> HIDE DEF shown, feed, next
<1>3. next = [s EXCEPT !.entries = shown, !.feed = feed, !.mode = m.mode, !.serverOk = TRUE]
  BY DEF next, Snapshot, shown, feed
<1>4. /\ next.entries = shown /\ next.feed = feed /\ next.mode = m.mode
      /\ next.connected = s.connected /\ StoreFields(next)
  <2>1. StoreFields(s)
    BY DEF StoreShape
  <2> QED
    BY <1>3, <2>1 DEF StoreFields
<1>5. shown = [t \in Tasks |-> shown[t]]
  BY DEF shown
<1>6. StoreShape(next)
  BY <1>1, <1>2, <1>4, <1>5 DEF StoreShape
<1>7. \A t \in Tasks : shown[t] = IF m.rows[t] = NoRow THEN NoRow
                                  ELSE Entry(m.rows[t], s.entries[t], FALSE)
  BY DEF shown
<1> QED
  BY <1>4, <1>6, <1>7 DEF feed, next, Refreshed

\* The entry of a known task after a bet, and after its settlement.
BetEntry(old, m) ==
    [old EXCEPT !.row = [@ EXCEPT !.yes = m.bet.yes, !.no = m.bet.no],
                !.bets = Append(@, m.bet),
                !.odds = KeepLast(Append(@, m.bet.pBps), WebCap)]
SettledEntry(old, m) ==
    [old EXCEPT !.row = [@ EXCEPT !.state = "Settled", !.outcome = m.outcome,
                                  !.score = m.score],
                !.justSettled = TRUE]

LEMMA BetEntryShape ==
    ASSUME NEW old, EntryShape(old), NEW m, m.bet \in BetRow
    PROVE  /\ EntryShape(BetEntry(old, m))
           /\ BetEntry(old, m).row = [old.row EXCEPT !.yes = m.bet.yes, !.no = m.bet.no]
           /\ BetEntry(old, m).bets = Append(old.bets, m.bet)
           /\ BetEntry(old, m).odds = KeepLast(Append(old.odds, m.bet.pBps), WebCap)
<1> DEFINE e == BetEntry(old, m)
           row == [old.row EXCEPT !.yes = m.bet.yes, !.no = m.bet.no]
           odds == KeepLast(Append(old.odds, m.bet.pBps), WebCap)
           list == Append(old.bets, m.bet)
<1>1. old.odds \in Seq(Int) /\ old.bets \in Seq(BetRow) /\ m.bet.pBps \in Int
  BY DEF EntryShape, BetRow
<1>2. Append(old.odds, m.bet.pBps) \in Seq(Int) /\ list \in Seq(BetRow)
  BY <1>1, AppendProperties
<1>3. odds \in Seq(Int) /\ Len(odds) <= WebCap
  BY <1>2, KeepLastShape, CapIsPositive
<1>4. e = [old EXCEPT !.row = row, !.bets = list, !.odds = odds]
  BY DEF BetEntry, EntryShape
<1> HIDE DEF e, row, odds, list
<1>5. /\ e.row = row /\ e.bets = list /\ e.odds = odds
      /\ e = [row |-> e.row, justSettled |-> e.justSettled, odds |-> e.odds, bets |-> e.bets]
  BY <1>4 DEF EntryShape
<1>6. EntryShape(e)
  BY <1>2, <1>3, <1>5 DEF EntryShape
<1> QED
  BY <1>5, <1>6 DEF e, row, odds, list

LEMMA SettledEntryShape ==
    ASSUME NEW old, EntryShape(old), NEW m
    PROVE  /\ EntryShape(SettledEntry(old, m))
           /\ SettledEntry(old, m).row = [old.row EXCEPT !.state = "Settled",
                                            !.outcome = m.outcome, !.score = m.score]
           /\ SettledEntry(old, m).bets = old.bets /\ SettledEntry(old, m).odds = old.odds
<1> DEFINE e == SettledEntry(old, m)
           row == [old.row EXCEPT !.state = "Settled", !.outcome = m.outcome, !.score = m.score]
<1>1. e = [old EXCEPT !.row = row, !.justSettled = TRUE]
  BY DEF SettledEntry, EntryShape
<1> HIDE DEF e, row
<1>2. /\ e.row = row /\ e.bets = old.bets /\ e.odds = old.odds
      /\ e = [row |-> e.row, justSettled |-> e.justSettled, odds |-> e.odds, bets |-> e.bets]
  BY <1>1 DEF EntryShape
<1>3. EntryShape(e)
  BY <1>2 DEF EntryShape
<1> QED
  BY <1>2, <1>3 DEF e, row

LEMMA ReducerShape ==
    ASSUME NEW s, StoreShape(s), NEW m, MessageShape(m)
    PROVE  StoreShape(Reducer(s, m)) /\ Reducer(s, m).connected = s.connected
<1>1. CASE m.type = "snapshot"
  <2>1. Refreshed(Snapshot(s, m), s, m)
    BY <1>1, SnapshotShape DEF MessageShape
  <2> QED
    BY <1>1, <2>1 DEF Reducer, Refreshed
<1>2. CASE m.type = "task"
  <2> DEFINE old == s.entries[m.task]
             e == Entry(m.row, old, old # NoRow /\ old.justSettled)
  <2>1. m.task \in Tasks /\ m.row.yes \in Nat /\ m.row.no \in Nat
    BY <1>2 DEF MessageShape
  <2>2. EntryShape(e)
    BY <2>1, EntryKeepsShape DEF StoreShape
  <2>3. Reducer(s, m) = WithEntry(s, m.task, e)
    BY <1>2 DEF Reducer, TaskMessage, WithEntry
  <2> HIDE DEF e
  <2> QED
    BY <2>1, <2>2, <2>3, NewEntryShape
<1>3. CASE m.type = "bet"
  <2>1. m.task \in Tasks /\ m.bet \in BetRow
    BY <1>3 DEF MessageShape
  <2>2. CASE s.entries[m.task] = NoRow
    BY <1>3, <2>2 DEF Reducer, BetMessage
  <2>3. CASE s.entries[m.task] # NoRow
    <3>1. EntryShape(BetEntry(s.entries[m.task], m))
      BY <2>1, <2>3, BetEntryShape DEF StoreShape
    <3>2. Reducer(s, m) = WithEntry(s, m.task, BetEntry(s.entries[m.task], m))
      BY <1>3, <2>3 DEF Reducer, BetMessage, BetEntry, WithEntry
    <3> QED
      BY <2>1, <3>1, <3>2, NewEntryShape
  <2> QED
    BY <2>2, <2>3
<1>4. CASE m.type = "settled"
  <2>1. m.task \in Tasks
    BY <1>4 DEF MessageShape
  <2>2. CASE s.entries[m.task] = NoRow
    BY <1>4, <2>2 DEF Reducer, SettledMessage
  <2>3. CASE s.entries[m.task] # NoRow
    <3>1. EntryShape(SettledEntry(s.entries[m.task], m))
      BY <2>1, <2>3, SettledEntryShape DEF StoreShape
    <3>2. Reducer(s, m) = WithEntry(s, m.task, SettledEntry(s.entries[m.task], m))
      BY <1>4, <2>3 DEF Reducer, SettledMessage, SettledEntry, WithEntry
    <3> QED
      BY <2>1, <3>1, <3>2, NewEntryShape
  <2> QED
    BY <2>2, <2>3
<1>5. CASE m.type = "item"
  <2> DEFINE feed == KeepLast(Append(s.feed, m.item), WebCap)
  <2>1. s.feed \in Seq(Int) /\ m.item \in Int
    BY <1>5 DEF MessageShape, StoreShape
  <2>2. feed \in Seq(Int) /\ Len(feed) <= WebCap
    BY <2>1, AppendProperties, KeepLastShape, CapIsPositive
  <2>3. Reducer(s, m) = [s EXCEPT !.feed = feed]
    BY <1>5 DEF Reducer
  <2> HIDE DEF feed
  <2> QED
    BY <2>2, <2>3, NewFeedShape
<1>6. CASE m.type = "director"
  <2> DEFINE next == Reducer(s, m)
  <2>1. next = [s EXCEPT !.mode = m.mode, !.serverOk = TRUE] /\ StoreFields(s)
    BY <1>6 DEF Reducer, StoreShape
  <2> HIDE DEF next
  <2>2. /\ StoreFields(next) /\ next.entries = s.entries /\ next.feed = s.feed
        /\ next.connected = s.connected
    BY <2>1 DEF StoreFields
  <2> QED
    BY <2>2 DEF StoreShape, next
<1> QED
  BY <1>1, <1>2, <1>3, <1>4, <1>5, <1>6 DEF MessageShape

-----------------------------------------------------------------------------
(* Stages: a message is appended to the socket, or taken from it. *)

LEMMA LaterAppended ==
    ASSUME NEW box \in Seq(Wire), NEW m \in Wire, NEW i \in 0 .. Len(box)
    PROVE  /\ Later(Append(box, m), i) = Later(box, i) \cup Ids(m)
           /\ Later(Append(box, m), Len(box) + 1) = {}
<1> DEFINE n == Len(box)
           long == Append(box, m)
<1>1. /\ n \in Nat /\ Len(long) = n + 1 /\ long[n + 1] = m
      /\ \A j \in 1 .. n : long[j] = box[j]
  BY AppendProperties, LenProperties
<1> HIDE DEF long, n
<1>2. i \in 0 .. n
  BY DEF n
<1>3. Later(box, i) = UNION {Ids(box[j]) : j \in (i + 1) .. n}
  BY DEF Later, n
<1>4. Later(long, i) = UNION {Ids(long[j]) : j \in (i + 1) .. (n + 1)}
  BY <1>1 DEF Later
<1>5. ASSUME NEW x PROVE x \in Later(long, i) <=> x \in Later(box, i) \cup Ids(m)
  <2>1. x \in Later(long, i) <=> \E j \in (i + 1) .. (n + 1) : x \in Ids(long[j])
    BY <1>4
  <2>2. x \in Later(box, i) <=> \E j \in (i + 1) .. n : x \in Ids(box[j])
    BY <1>3
  <2>3. \A j \in (i + 1) .. (n + 1) : j \in (i + 1) .. n \/ j = n + 1
    BY <1>1, <1>2
  <2>4. (i + 1) .. n \subseteq (i + 1) .. (n + 1) /\ n + 1 \in (i + 1) .. (n + 1)
    BY <1>1, <1>2
  <2>5. \A j \in (i + 1) .. n : long[j] = box[j]
    BY <1>1, <1>2
  <2> HIDE DEF Later
  <2> QED
    BY <1>1, <2>1, <2>2, <2>3, <2>4, <2>5
<1>6. Later(long, n + 1) = {}
  <2>1. (n + 1 + 1) .. (n + 1) = {}
    BY <1>1
  <2> QED
    BY <1>1, <2>1 DEF Later
<1> QED
  BY <1>5, <1>6 DEF long, n

LEMMA NothingLater == ASSUME NEW box \in Seq(Wire) PROVE Later(box, Len(box)) = {}
<1>1. (Len(box) + 1) .. Len(box) = {}
  BY LenProperties
<1> QED
  BY <1>1 DEF Later

LEMMA LaterTail ==
    ASSUME NEW box \in Seq(Wire), box # <<>>, NEW i \in 0 .. Len(box) - 1
    PROVE  Later(Tail(box), i) = Later(box, i + 1)
<1> DEFINE n == Len(box)
           short == Tail(box)
<1>1. n \in Nat \ {0} /\ Len(short) = n - 1 /\ \A j \in 1 .. n - 1 : short[j] = box[j + 1]
  BY HeadTailProperties, EmptySeq, LenProperties
<1> HIDE DEF short, n
<1>2. i \in 0 .. n - 1
  BY DEF n
<1>3. Later(box, i + 1) = UNION {Ids(box[j]) : j \in (i + 1 + 1) .. n}
  BY DEF Later, n
<1>4. Later(short, i) = UNION {Ids(short[j]) : j \in (i + 1) .. (n - 1)}
  BY <1>1 DEF Later
<1>5. ASSUME NEW x PROVE x \in Later(short, i) <=> x \in Later(box, i + 1)
  <2>1. x \in Later(short, i) <=> \E j \in (i + 1) .. (n - 1) : x \in Ids(short[j])
    BY <1>4
  <2>2. x \in Later(box, i + 1) <=> \E j \in (i + 1 + 1) .. n : x \in Ids(box[j])
    BY <1>3
  <2>3. \A j \in (i + 1) .. (n - 1) : short[j] = box[j + 1] /\ j + 1 \in (i + 1 + 1) .. n
    BY <1>1, <1>2
  <2>4. \A j \in (i + 1 + 1) .. n : j - 1 \in (i + 1) .. (n - 1) /\ short[j - 1] = box[j]
    <3>1. \A j \in (i + 1 + 1) .. n : j - 1 \in (i + 1) .. (n - 1) /\ (j - 1) + 1 = j
      BY <1>1, <1>2
    <3> QED
      BY <2>3, <3>1
  <2> QED
    BY <2>1, <2>2, <2>3, <2>4
<1> QED
  BY <1>5 DEF short, n

\* Message m adds the stage last.
Grown(last, m, s, box, up, gone, calm, ch, rw, bt) ==
    /\ Append(box, m) \in Seq(Wire) /\ Len(Append(box, m)) = Len(box) + 1
    /\ \E G : Stages(G, s, Append(box, m), up, gone, calm, ch, rw, bt) /\ G[Len(box) + 1] = last

LEMMA StagesGrow ==
    ASSUME NEW F, NEW s, NEW box \in Seq(Wire), NEW up, NEW more, NEW calm \in BOOLEAN,
           NEW ch, NEW rw, NEW bt, NEW m \in Wire, NEW last, NEW gone,
           Stages(F, s, box, up, more, calm, ch, rw, bt), more = gone \cup Ids(m),
           last = Reducer(F[Len(box)], m),
           calm => Tracks(last, gone, ch, rw, bt)
    PROVE  Grown(last, m, s, box, up, gone, calm, ch, rw, bt)
<1> DEFINE n == Len(box)
           long == Append(box, m)
           G == [i \in 0 .. n + 1 |-> IF i = n + 1 THEN last ELSE F[i]]
<1>1. /\ n \in Nat /\ long \in Seq(Wire) /\ Len(long) = n + 1 /\ long[n + 1] = m
      /\ \A j \in 1 .. n : long[j] = box[j]
  BY AppendProperties, LenProperties
<1>2. \A i \in 0 .. n : G[i] = F[i]
  BY <1>1
<1>3. G[n + 1] = last
  BY <1>1
<1>4. \A i \in 0 .. n : Later(long, i) = Later(box, i) \cup Ids(m)
  BY LaterAppended
<1>5. Later(long, n + 1) = {}
  <2>1. 0 \in 0 .. n
    BY <1>1
  <2> QED
    BY <2>1, LaterAppended
<1>6. StoreShape(last) /\ last.connected = up
  <2>1. StoreShape(F[n]) /\ F[n].connected = up
    <3>1. n \in 0 .. Len(box)
      BY <1>1
    <3> QED
      BY <3>1 DEF Stages
  <2> QED
    BY <2>1, WireShape, ReducerShape
<1>7. Path(F, s, box)
  BY DEF Stages
<1>8. \A i \in 0 .. n : /\ StoreShape(F[i]) /\ F[i].connected = up
                        /\ calm => Tracks(F[i], (gone \cup Ids(m)) \cup Later(box, i), ch, rw, bt)
  BY DEF Stages
<1>9. calm => Tracks(last, gone, ch, rw, bt)
  OBVIOUS
<1>10. last = Reducer(F[n], m)
  OBVIOUS
<1> HIDE DEF long, G, n
<1>11. Path(G, s, long)
  <2>1. G[0] = s
    BY <1>1, <1>2, <1>7 DEF Path
  <2>2. ASSUME NEW i \in 1 .. n + 1 PROVE G[i] = Reducer(G[i - 1], long[i])
    <3>1. i - 1 \in 0 .. n
      BY <1>1
    <3>2. CASE i = n + 1
      BY <1>1, <1>2, <1>3, <1>10, <3>1, <3>2
    <3>3. CASE i # n + 1
      <4>1. i \in 1 .. n /\ i \in 0 .. n
        BY <1>1, <3>3
      <4>2. F[i] = Reducer(F[i - 1], box[i])
        BY <1>7, <4>1 DEF Path, n
      <4> QED
        BY <1>1, <1>2, <3>1, <4>1, <4>2
    <3> QED
      BY <3>2, <3>3
  <2> QED
    BY <1>1, <2>1, <2>2 DEF Path
<1>12. ASSUME NEW i \in 0 .. n + 1
       PROVE  /\ StoreShape(G[i]) /\ G[i].connected = up
              /\ calm => Tracks(G[i], gone \cup Later(long, i), ch, rw, bt)
  <2>1. CASE i = n + 1
    <3>1. gone \cup Later(long, i) = gone
      BY <1>5, <2>1
    <3> QED
      BY <1>3, <1>6, <1>9, <2>1, <3>1
  <2>2. CASE i # n + 1
    <3>1. i \in 0 .. n
      BY <1>1, <2>2
    <3>2. (gone \cup Ids(m)) \cup Later(box, i) = gone \cup Later(long, i)
      BY <1>4, <3>1
    <3> QED
      BY <1>2, <1>8, <3>1, <3>2
  <2> QED
    BY <2>1, <2>2
<1>13. Stages(G, s, long, up, gone, calm, ch, rw, bt)
  BY <1>1, <1>11, <1>12 DEF Stages
<1> QED
  BY <1>1, <1>3, <1>13 DEF long, n, Grown

\* The first message is received.
LEMMA StagesShift ==
    ASSUME NEW F, NEW s, NEW box \in Seq(Wire), box # <<>>, NEW up, NEW gone,
           NEW calm \in BOOLEAN, NEW ch, NEW rw, NEW bt,
           Stages(F, s, box, up, gone, calm, ch, rw, bt)
    PROVE  /\ Tail(box) \in Seq(Wire)
           /\ \E G : /\ Stages(G, Reducer(s, Head(box)), Tail(box), up, gone, calm, ch, rw, bt)
                     /\ G[Len(Tail(box))] = F[Len(box)]
<1> DEFINE n == Len(box)
           short == Tail(box)
           G == [i \in 0 .. n - 1 |-> F[i + 1]]
<1>1. /\ n \in Nat \ {0} /\ short \in Seq(Wire) /\ Len(short) = n - 1
      /\ \A j \in 1 .. n - 1 : short[j] = box[j + 1]
      /\ Head(box) = box[1]
  BY HeadTailProperties, EmptySeq, LenProperties
<1>2. \A i \in 0 .. n - 1 : G[i] = F[i + 1] /\ i + 1 \in 0 .. n /\ i + 1 \in 1 .. n
  BY <1>1
<1>3. \A i \in 0 .. n - 1 : Later(short, i) = Later(box, i + 1)
  BY LaterTail
<1>4. F[0] = s /\ \A i \in 1 .. n : F[i] = Reducer(F[i - 1], box[i])
  BY DEF Stages, Path
<1>5. \A i \in 0 .. n : /\ StoreShape(F[i]) /\ F[i].connected = up
                        /\ calm => Tracks(F[i], gone \cup Later(box, i), ch, rw, bt)
  BY DEF Stages
<1> HIDE DEF short, G, n
<1>6. Path(G, Reducer(s, Head(box)), short)
  <2>1. G[0] = Reducer(s, Head(box))
    <3>1. 0 \in 0 .. n - 1 /\ 1 \in 1 .. n /\ 0 + 1 = 1 /\ 1 - 1 = 0
      BY <1>1
    <3> QED
      BY <1>1, <1>2, <1>4, <3>1
  <2>2. ASSUME NEW i \in 1 .. n - 1 PROVE G[i] = Reducer(G[i - 1], short[i])
    <3>1. /\ i \in 0 .. n - 1 /\ i - 1 \in 0 .. n - 1 /\ i + 1 \in 1 .. n
          /\ (i + 1) - 1 = i /\ (i - 1) + 1 = i
      BY <1>1
    <3>2. F[i + 1] = Reducer(F[i], box[i + 1])
      BY <1>4, <3>1
    <3> QED
      BY <1>1, <1>2, <3>1, <3>2
  <2> QED
    BY <1>1, <2>1, <2>2 DEF Path
<1>7. \A i \in 0 .. n - 1 : /\ StoreShape(G[i]) /\ G[i].connected = up
                            /\ calm => Tracks(G[i], gone \cup Later(short, i), ch, rw, bt)
  BY <1>2, <1>3, <1>5
<1>8. Stages(G, Reducer(s, Head(box)), short, up, gone, calm, ch, rw, bt)
  BY <1>1, <1>6, <1>7 DEF Stages
<1>9. G[n - 1] = F[n]
  <2>1. n - 1 \in 0 .. n - 1 /\ (n - 1) + 1 = n
    BY <1>1
  <2> QED
    BY <1>2, <2>1
<1> QED
  BY <1>1, <1>8, <1>9 DEF short, n

\* The server moves and nothing is sent: every stage keeps track, missing the bets new.
Follows(ch, rw, bt, ch2, rw2, bt2, new) ==
    \A e, g : \A t \in Tasks : TracksTask(t, e, g, ch, rw, bt)
        => TracksTask(t, e, g \cup new, ch2, rw2, bt2)

LEMMA StagesMove ==
    ASSUME NEW F, NEW s, NEW box \in Seq(Wire), NEW up, NEW gone, NEW calm \in BOOLEAN,
           NEW ch, NEW rw, NEW bt, NEW ch2, NEW rw2, NEW bt2, NEW new,
           Stages(F, s, box, up, gone, calm, ch, rw, bt),
           Follows(ch, rw, bt, ch2, rw2, bt2, new)
    PROVE  Stages(F, s, box, up, gone \cup new, calm, ch2, rw2, bt2)
<1>1. ASSUME NEW i \in 0 .. Len(box), calm
      PROVE  Tracks(F[i], (gone \cup new) \cup Later(box, i), ch2, rw2, bt2)
  <2>1. Tracks(F[i], gone \cup Later(box, i), ch, rw, bt)
    BY <1>1 DEF Stages
  <2>2. (gone \cup Later(box, i)) \cup new = (gone \cup new) \cup Later(box, i)
    OBVIOUS
  <2> HIDE DEF TracksTask, Later
  <2> QED
    BY <1>1, <2>1, <2>2 DEF Tracks, Follows
<1> QED
  BY <1>1 DEF Stages

\* With nothing in the socket the store is the only stage.
OnlyStage(s, up, gone, calm, ch, rw, bt) ==
    \E F : Stages(F, s, <<>>, up, gone, calm, ch, rw, bt) /\ F[Len(<<>>)] = s

LEMMA OneStage ==
    ASSUME NEW s, StoreShape(s), NEW up, s.connected = up, NEW gone, NEW calm \in BOOLEAN,
           NEW ch, NEW rw, NEW bt, calm => Tracks(s, gone, ch, rw, bt)
    PROVE  OnlyStage(s, up, gone, calm, ch, rw, bt)
<1> DEFINE F == [i \in {0} |-> s]
<1>1. Len(<<>>) = 0 /\ F[0] = s /\ 1 .. 0 = {} /\ 0 .. 0 = {0}
  OBVIOUS
<1> HIDE DEF F
<1>2. Path(F, s, <<>>)
  BY <1>1 DEF Path
<1>3. Later(<<>>, 0) = {}
  <2>1. (0 + 1) .. 0 = {}
    OBVIOUS
  <2> QED
    BY <1>1, <2>1 DEF Later
<1>4. gone \cup Later(<<>>, 0) = gone
  BY <1>3
<1>5. Stages(F, s, <<>>, up, gone, calm, ch, rw, bt)
  BY <1>1, <1>2, <1>4 DEF Stages
<1> QED
  BY <1>1, <1>5 DEF OnlyStage

-----------------------------------------------------------------------------
(* The messages a handler sends, each with the stage it adds. *)

\* Only the feed differs, by an item more.
FeedOnly(old, new, item) ==
    /\ new.entries = old.entries /\ new.mode = old.mode
    /\ new.feed = KeepLast(Append(old.feed, item), WebCap)

LEMMA GrowItem ==
    ASSUME NEW F, NEW s, NEW box \in Seq(Wire), NEW up, NEW gone, NEW calm \in BOOLEAN,
           NEW ch, NEW rw, NEW bt, NEW item \in Int,
           Stages(F, s, box, up, gone, calm, ch, rw, bt)
    PROVE  LET long == Append(box, [type |-> "item", item |-> item])
           IN  /\ long \in Seq(Wire)
               /\ \E G : /\ Stages(G, s, long, up, gone, calm, ch, rw, bt)
                         /\ FeedOnly(F[Len(box)], G[Len(long)], item)
<1> DEFINE m == [type |-> "item", item |-> item]
           old == F[Len(box)]
           new == Reducer(old, m)
           feed == KeepLast(Append(old.feed, item), WebCap)
<1>1. m \in Wire /\ m.type = "item" /\ m.item = item /\ MessageShape(m)
  BY DEF Wire, WsMessage, MessageShape
<1>2. Len(box) \in 0 .. Len(box)
  BY LenProperties
<1>3. StoreShape(old) /\ (calm => Tracks(old, gone, ch, rw, bt))
  <2>1. gone \cup Later(box, Len(box)) = gone
    BY NothingLater
  <2> QED
    BY <1>2, <2>1 DEF Stages
<1>4. gone \cup Ids(m) = gone
  BY <1>1 DEF Ids
<1> HIDE DEF m, old
<1>5. feed \in Seq(Int) /\ Len(feed) <= WebCap
  <2>1. Append(old.feed, item) \in Seq(Int)
    BY <1>3, AppendProperties DEF StoreShape
  <2> QED
    BY <2>1, KeepLastShape, CapIsPositive
<1>6. new = [old EXCEPT !.feed = feed]
  BY <1>1 DEF Reducer
<1> HIDE DEF new
<1>7. FeedOnly(old, new, item)
  <2> HIDE DEF feed
  <2>1. new.entries = old.entries /\ new.mode = old.mode /\ new.feed = feed
    BY <1>3, <1>5, <1>6, NewFeedShape
  <2> QED
    BY <2>1 DEF FeedOnly, feed
<1>8. calm => Tracks(new, gone, ch, rw, bt)
  BY <1>3, <1>7 DEF FeedOnly, Tracks
<1>9. Grown(new, m, s, box, up, gone, calm, ch, rw, bt)
  BY <1>1, <1>4, <1>8, StagesGrow DEF new, old
<1> QED
  BY <1>7, <1>9 DEF m, old, Grown

\* Task t's row is pushed when there is one.
PushOf(row, t) == IF row = NoRow THEN <<>> ELSE <<[type |-> "task", task |-> t, row |-> row]>>
Pushed(old, new, t, row) ==
    /\ new.feed = old.feed /\ new.mode = old.mode
    /\ IF row = NoRow THEN new.entries = old.entries
       ELSE \E fresh : \A u \in Tasks :
               new.entries[u] = IF u = t THEN Entry(row, old.entries[t], fresh)
                                ELSE old.entries[u]

LEMMA EntryTracks ==
    ASSUME NEW t \in Tasks, NEW old, old = NoRow \/ EntryShape(old), NEW fresh, NEW gone,
           NEW ch, NEW rw, NEW bt, Tables(ch, rw, bt), rw[t] # NoRow,
           TracksTask(t, old, gone, ch, rw, bt)
    PROVE  TracksTask(t, Entry(rw[t], old, fresh), gone, ch, rw, bt)
<1> DEFINE e == Entry(rw[t], old, fresh)
           list == IF old = NoRow THEN <<>> ELSE old.bets
<1>1. rw[t] \in TaskRow /\ rw[t].yes \in Nat /\ rw[t].no \in Nat
  BY DEF Tables, TaskRow
<1>2. EntryShape(e)
  BY <1>1, EntryKeepsShape
<1>3. e # NoRow
  BY <1>2, EntryIsNoNoRow
<1>4. e.odds = OddsOr(old, rw[t]) /\ e.bets = list
  BY DEF Entry
<1> HIDE DEF e, list
<1>5. Had(e) = Had(old)
  <2>1. CASE old = NoRow
    <3>1. DOMAIN list = {}
      BY <2>1 DEF list
    <3> QED
      BY <1>3, <1>4, <2>1, <3>1 DEF Had
  <2>2. CASE old # NoRow
    BY <1>3, <1>4, <2>2 DEF Had, list
  <2> QED
    BY <2>1, <2>2
<1>6. \A i, j \in DOMAIN e.bets : i < j => e.bets[i].id < e.bets[j].id
  <2>1. CASE old = NoRow
    <3>1. DOMAIN list = {}
      BY <2>1 DEF list
    <3> QED
      BY <1>4, <3>1
  <2>2. CASE old # NoRow
    BY <1>4, <2>2 DEF TracksTask, list
  <2> QED
    BY <2>1, <2>2
<1>7. ch[t].state \in {"none", "Created"} => e.odds = <<>>
  <2>1. SUFFICES ASSUME ch[t].state \in {"none", "Created"} PROVE e.odds = <<>>
    OBVIOUS
  <2>2. rw[t].yes + rw[t].no = 0
    BY <2>1 DEF Tables
  <2>3. old # NoRow => old.odds = <<>>
    BY <2>1 DEF TracksTask
  <2> QED
    BY <1>4, <2>2, <2>3 DEF OddsOr, SeedOdds
<1>8. e.odds # <<>> /\ BetsIn(bt, t) \cap gone = {} => Last(e.odds) = PBps(rw[t])
  <2>1. CASE old # NoRow /\ old.odds # <<>>
    <3>1. e.odds = old.odds
      BY <1>4, <2>1 DEF OddsOr
    <3> QED
      BY <2>1, <3>1 DEF TracksTask
  <2>2. CASE ~(old # NoRow /\ old.odds # <<>>)
    <3>1. e.odds = SeedOdds(rw[t])
      BY <1>4, <2>2 DEF OddsOr
    <3>2. CASE rw[t].yes + rw[t].no = 0
      BY <3>1, <3>2 DEF SeedOdds
    <3>3. CASE rw[t].yes + rw[t].no # 0
      BY <3>1, <3>3 DEF SeedOdds, Last
    <3> QED
      BY <3>2, <3>3
  <2> QED
    BY <2>1, <2>2
<1>9. Had(e) = BetsIn(bt, t) \ gone
  BY <1>5 DEF TracksTask
<1> QED
  BY <1>3, <1>6, <1>7, <1>8, <1>9 DEF TracksTask, e

\* The messages that make box into long add stages, the last of which has the row.
PushGrown(F, s, box, long, up, gone, calm, ch, rw, bt, t, r) ==
    /\ long \in Seq(Wire)
    /\ \E G : /\ Stages(G, s, long, up, gone, calm, ch, rw, bt)
              /\ Pushed(F[Len(box)], G[Len(long)], t, r)

LEMMA GrowPush ==
    ASSUME NEW F, NEW s, NEW box \in Seq(Wire), NEW up, NEW gone, NEW calm \in BOOLEAN,
           NEW ch, NEW rw, NEW bt, Tables(ch, rw, bt), NEW t \in Tasks,
           Stages(F, s, box, up, gone, calm, ch, rw, bt),
           NEW r, r = rw[t], NEW long, long = box \o PushOf(r, t)
    PROVE  PushGrown(F, s, box, long, up, gone, calm, ch, rw, bt, t, r)
<1>1. CASE rw[t] = NoRow
  <2>1. box \o PushOf(rw[t], t) = box
    BY <1>1, ConcatEmptySeq DEF PushOf
  <2>2. Pushed(F[Len(box)], F[Len(box)], t, rw[t])
    BY <1>1 DEF Pushed
  <2> QED
    BY <2>1, <2>2 DEF PushGrown
<1>2. CASE rw[t] # NoRow
  <2> DEFINE m == [type |-> "task", task |-> t, row |-> rw[t]]
             old == F[Len(box)]
             new == Reducer(old, m)
             fresh == old.entries[t] # NoRow /\ old.entries[t].justSettled
             e == Entry(rw[t], old.entries[t], fresh)
  <2>1. rw[t] \in TaskRow /\ rw[t].yes \in Nat /\ rw[t].no \in Nat
    BY <1>2 DEF Tables, TaskRow
  <2>2. m \in Wire /\ m.type = "task" /\ m.task = t /\ m.row = rw[t]
    <3> HIDE DEF TaskRow
    <3> QED
      BY <2>1 DEF Wire, WsMessage
  <2>3. box \o PushOf(rw[t], t) = Append(box, m)
    BY <1>2, AppendIsConcat DEF PushOf
  <2>4. Len(box) \in 0 .. Len(box)
    BY LenProperties
  <2>5. StoreShape(old) /\ (calm => Tracks(old, gone, ch, rw, bt))
    <3>1. gone \cup Later(box, Len(box)) = gone
      BY NothingLater
    <3> QED
      BY <2>4, <3>1 DEF Stages
  <2>6. gone \cup Ids(m) = gone
    BY <2>2 DEF Ids
  <2> HIDE DEF m, old
  <2>7. old.entries[t] = NoRow \/ EntryShape(old.entries[t])
    BY <2>5 DEF StoreShape
  <2>8. EntryShape(e)
    BY <2>1, <2>7, EntryKeepsShape
  <2>9. new = WithEntry(old, t, e)
    BY <2>2 DEF Reducer, TaskMessage, WithEntry
  <2>10. calm => TracksTask(t, e, gone, ch, rw, bt)
    BY <1>2, <2>5, <2>7, EntryTracks DEF Tracks
  <2>11. Pushed(old, new, t, rw[t]) /\ (\A u \in Tasks : new.entries[u] = IF u = t THEN e ELSE old.entries[u])
    <3>1. \A u \in Tasks : new.entries[u] = IF u = t THEN e ELSE old.entries[u]
      <4> HIDE DEF e, new
      <4> QED
        BY <2>5, <2>8, <2>9, NewEntryShape
    <3>2. new.feed = old.feed /\ new.mode = old.mode
      <4> HIDE DEF e, new
      <4> QED
        BY <2>5, <2>8, <2>9, NewEntryShape
    <3> HIDE DEF new, fresh
    <3> QED
      BY <1>2, <3>1, <3>2 DEF Pushed
  <2> HIDE DEF new, e
  <2>12. calm => Tracks(new, gone, ch, rw, bt)
    BY <2>5, <2>10, <2>11 DEF Tracks
  <2>13. Grown(new, m, s, box, up, gone, calm, ch, rw, bt)
    BY <2>2, <2>6, <2>12, StagesGrow DEF new, old
  <2> QED
    BY <2>3, <2>11, <2>13 DEF old, Grown, PushGrown
<1> QED
  BY <1>1, <1>2

\* A known task's entry is replaced by e.
Replaced(old, new, t, e) ==
    /\ new.feed = old.feed /\ new.mode = old.mode
    /\ \A u \in Tasks : new.entries[u] = IF u = t /\ old.entries[t] # NoRow THEN e
                                         ELSE old.entries[u]

LEMMA ReplacedEntry ==
    ASSUME NEW old, StoreShape(old), NEW new, NEW t \in Tasks, NEW e,
           old.entries[t] = NoRow => new = old,
           old.entries[t] # NoRow => EntryShape(e) /\ new = WithEntry(old, t, e)
    PROVE  Replaced(old, new, t, e)
<1>1. CASE old.entries[t] = NoRow
  BY <1>1 DEF Replaced
<1>2. CASE old.entries[t] # NoRow
  <2>1. EntryShape(e) /\ new = WithEntry(old, t, e)
    BY <1>2
  <2>2. /\ new.feed = old.feed /\ new.mode = old.mode
        /\ \A u \in Tasks : new.entries[u] = IF u = t THEN e ELSE old.entries[u]
    BY <2>1, NewEntryShape
  <2> QED
    BY <1>2, <2>2 DEF Replaced
<1> QED
  BY <1>1, <1>2

\* Message m adds a stage, where task t has the entry e if it is known.
EntryGrown(F, s, box, m, up, gone, calm, ch, rw, bt, t, e) ==
    /\ Append(box, m) \in Seq(Wire)
    /\ \E G : /\ Stages(G, s, Append(box, m), up, gone, calm, ch, rw, bt)
              /\ Replaced(F[Len(box)], G[Len(Append(box, m))], t, e)

LEMMA GrowSettled ==
    ASSUME NEW F, NEW s, NEW box \in Seq(Wire), NEW up, NEW gone, NEW calm \in BOOLEAN,
           NEW ch, NEW rw, NEW bt, NEW t \in Tasks, NEW outcome \in {"Yes", "No"},
           NEW score \in Int, NEW m,
           m = [type |-> "settled", task |-> t, outcome |-> outcome, score |-> score],
           Stages(F, s, box, up, gone, calm, ch, rw, bt),
           NEW e, e = SettledEntry(F[Len(box)].entries[t], m)
    PROVE  EntryGrown(F, s, box, m, up, gone, calm, ch, rw, bt, t, e)
<1> DEFINE old == F[Len(box)]
           new == Reducer(old, m)
<1>0. e = SettledEntry(old.entries[t], m)
  OBVIOUS
<1>1. m \in Wire /\ m.type = "settled" /\ m.task = t
  BY DEF Wire, WsMessage
<1>2. Len(box) \in 0 .. Len(box)
  BY LenProperties
<1>3. StoreShape(old) /\ (calm => Tracks(old, gone, ch, rw, bt))
  <2>1. gone \cup Later(box, Len(box)) = gone
    BY NothingLater
  <2> QED
    BY <1>2, <2>1 DEF Stages
<1>4. gone = gone \cup Ids(m)
  BY <1>1 DEF Ids
<1> HIDE DEF old
<1>5. old.entries[t] = NoRow \/ EntryShape(old.entries[t])
  BY <1>3 DEF StoreShape
<1>6. old.entries[t] = NoRow => new = old
  BY <1>1 DEF Reducer, SettledMessage
<1>7. old.entries[t] # NoRow => EntryShape(e) /\ new = WithEntry(old, t, e)
  <2>1. old.entries[t] # NoRow => EntryShape(e)
    <3>1. old.entries[t] # NoRow => EntryShape(SettledEntry(old.entries[t], m))
      BY <1>5, SettledEntryShape
    <3> QED
      BY <1>0, <3>1
  <2>2. old.entries[t] # NoRow => new = WithEntry(old, t, e)
    BY <1>0, <1>1 DEF Reducer, SettledMessage, SettledEntry, WithEntry
  <2> QED
    BY <2>1, <2>2
<1> HIDE DEF new
<1>8. Replaced(old, new, t, e)
  BY <1>3, <1>6, <1>7, ReplacedEntry
<1>9. ASSUME calm, old.entries[t] # NoRow PROVE TracksTask(t, e, gone, ch, rw, bt)
  <2>1. TracksTask(t, old.entries[t], gone, ch, rw, bt)
    BY <1>3, <1>9 DEF Tracks
  <2>2. /\ EntryShape(old.entries[t]) /\ e # NoRow
        /\ e.bets = old.entries[t].bets /\ e.odds = old.entries[t].odds
    <3> DEFINE was == old.entries[t]
    <3>1. EntryShape(was)
      BY <1>5, <1>9
    <3> HIDE DEF was
    <3>2. /\ EntryShape(SettledEntry(was, m)) /\ SettledEntry(was, m).bets = was.bets
          /\ SettledEntry(was, m).odds = was.odds
      BY <3>1, SettledEntryShape
    <3>3. e = SettledEntry(was, m)
      BY <1>0 DEF was
    <3>4. EntryShape(e) /\ e.bets = was.bets /\ e.odds = was.odds
      BY <3>2, <3>3
    <3> QED
      BY <3>1, <3>4, EntryIsNoNoRow DEF was
  <2> QED
    BY <1>9, <2>1, <2>2 DEF TracksTask, Had
<1>10. calm => Tracks(new, gone, ch, rw, bt)
  BY <1>3, <1>8, <1>9 DEF Tracks, Replaced
<1>11. Grown(new, m, s, box, up, gone, calm, ch, rw, bt)
  BY <1>1, <1>4, <1>10, StagesGrow DEF new, old
<1> QED
  BY <1>8, <1>11 DEF old, Grown, EntryGrown

LEMMA BetTracks ==
    ASSUME NEW t \in Tasks, NEW old, EntryShape(old), NEW m, m.bet \in BetRow, NEW gone,
           NEW ch, NEW rw, NEW bt, Tables(ch, rw, bt), ch[t].state = "Open",
           Len(bt) \in DOMAIN bt, bt[Len(bt)] = m.bet, m.bet.task = t, Len(bt) \notin gone,
           rw[t] # NoRow => PBps(rw[t]) = m.bet.pBps,
           TracksTask(t, old, gone \cup {Len(bt)}, ch, rw, bt)
    PROVE  TracksTask(t, BetEntry(old, m), gone, ch, rw, bt)
<1> DEFINE e == BetEntry(old, m)
           id == Len(bt)
           n == Len(old.bets)
<1>1. bt \in Seq(BetRow) /\ m.bet.id = id
  BY DEF Tables
<1>2. EntryShape(e) /\ e.bets = Append(old.bets, m.bet)
      /\ e.odds = KeepLast(Append(old.odds, m.bet.pBps), WebCap)
  BY BetEntryShape
<1>3. e # NoRow /\ old # NoRow
  BY <1>2, EntryIsNoNoRow
<1>4. rw[t] # NoRow /\ Had(old) = BetsIn(bt, t) \ (gone \cup {id})
  BY <1>3 DEF TracksTask
<1>5. id \in BetsIn(bt, t)
  BY <1>1 DEF BetsIn
<1>6. /\ n \in Nat /\ DOMAIN old.bets = 1 .. n /\ DOMAIN e.bets = 1 .. n + 1
      /\ e.bets[n + 1] = m.bet /\ \A i \in 1 .. n : e.bets[i] = old.bets[i]
  BY <1>2, AppendProperties, LenProperties DEF EntryShape
<1> HIDE DEF e, n
<1>7. Had(e) = Had(old) \cup {id}
  <2>1. Had(old) = {old.bets[i].id : i \in 1 .. n} /\ Had(e) = {e.bets[i].id : i \in 1 .. n + 1}
    BY <1>3, <1>6 DEF Had
  <2>2. \A i \in 1 .. n + 1 : i \in 1 .. n \/ i = n + 1
    BY <1>6
  <2>3. n + 1 \in 1 .. n + 1 /\ \A i \in 1 .. n : i \in 1 .. n + 1
    BY <1>6
  <2>4. ASSUME NEW x \in Had(e) PROVE x \in Had(old) \cup {id}
    BY <1>1, <1>6, <2>1, <2>2
  <2>5. ASSUME NEW x \in Had(old) PROVE x \in Had(e)
    BY <1>6, <2>1, <2>3
  <2>6. id \in Had(e)
    BY <1>1, <1>6, <2>1, <2>3
  <2> QED
    BY <2>4, <2>5, <2>6
<1>8. Had(e) = BetsIn(bt, t) \ gone
  BY <1>4, <1>5, <1>7
<1>9. \A i, j \in DOMAIN e.bets : i < j => e.bets[i].id < e.bets[j].id
  <2> SUFFICES ASSUME NEW i \in 1 .. n + 1, NEW j \in 1 .. n + 1, i < j
               PROVE  e.bets[i].id < e.bets[j].id
    BY <1>6
  <2>1. i \in 1 .. n
    BY <1>6
  <2>2. CASE j = n + 1
    <3>1. old.bets[i].id \in Had(old)
      BY <1>3, <1>6, <2>1 DEF Had
    <3>2. old.bets[i].id \in DOMAIN bt /\ old.bets[i].id # id
      BY <1>4, <3>1 DEF BetsIn
    <3>3. DOMAIN bt = 1 .. id /\ id \in Nat
      BY <1>1, LenProperties
    <3>4. old.bets[i].id < id
      BY <3>2, <3>3
    <3> QED
      BY <1>1, <1>6, <2>1, <2>2, <3>4
  <2>3. CASE j # n + 1
    <3>1. j \in 1 .. n
      BY <1>6, <2>3
    <3>2. old.bets[i].id < old.bets[j].id
      BY <1>3, <1>6, <2>1, <3>1 DEF TracksTask
    <3> QED
      BY <1>6, <2>1, <3>1, <3>2
  <2> QED
    BY <2>2, <2>3
<1>10. e.odds # <<>> /\ Last(e.odds) = PBps(rw[t])
  <2>1. old.odds \in Seq(Int) /\ m.bet.pBps \in Int
    BY DEF EntryShape, BetRow
  <2> QED
    BY <1>2, <1>4, <2>1, LastKept, CapIsPositive
<1> QED
  BY <1>3, <1>4, <1>8, <1>9, <1>10 DEF TracksTask, e

\* The last bet of the table is on task t, and its row has the pools after it.
LastBet(t, bet, ch, rw, bt) ==
    /\ Tables(ch, rw, bt) /\ ch[t].state = "Open"
    /\ Len(bt) = bet.id /\ bet.id \in DOMAIN bt /\ bt[bet.id] = bet
    /\ bet.task = t /\ bet \in BetRow
    /\ rw[t] # NoRow => PBps(rw[t]) = bet.pBps

\* A bet that was still to come arrives.
LEMMA GrowBet ==
    ASSUME NEW F, NEW s, NEW box \in Seq(Wire), NEW up, NEW gone, NEW calm \in BOOLEAN,
           NEW ch, NEW rw, NEW bt, NEW t \in Tasks, NEW bet, NEW m,
           m = [type |-> "bet", task |-> t, bet |-> bet],
           LastBet(t, bet, ch, rw, bt), bet.id \notin gone, NEW more, more = gone \cup {bet.id},
           calm /\ rw[t] # NoRow => F[Len(box)].entries[t] # NoRow,
           Stages(F, s, box, up, more, calm, ch, rw, bt),
           NEW e, e = BetEntry(F[Len(box)].entries[t], m)
    PROVE  EntryGrown(F, s, box, m, up, gone, calm, ch, rw, bt, t, e)
<1> DEFINE old == F[Len(box)]
           new == Reducer(old, m)
<1>a. /\ Tables(ch, rw, bt) /\ ch[t].state = "Open" /\ Len(bt) = bet.id /\ Len(bt) \in DOMAIN bt
      /\ bt[Len(bt)] = bet /\ bet.task = t /\ bet \in BetRow
      /\ rw[t] # NoRow => PBps(rw[t]) = bet.pBps
  BY DEF LastBet
<1>0. e = BetEntry(old.entries[t], m)
  OBVIOUS
<1>1. m \in Wire /\ m.type = "bet" /\ m.task = t /\ m.bet = bet
  <2> HIDE DEF BetRow
  <2> QED
    BY <1>a DEF Wire, WsMessage
<1>2. Len(box) \in 0 .. Len(box)
  BY LenProperties
<1>3. StoreShape(old) /\ (calm => Tracks(old, more, ch, rw, bt))
  <2>1. more \cup Later(box, Len(box)) = more
    BY NothingLater
  <2> QED
    BY <1>2, <2>1 DEF Stages
<1>4. more = gone \cup Ids(m)
  BY <1>1 DEF Ids
<1> HIDE DEF old
<1>5. old.entries[t] = NoRow \/ EntryShape(old.entries[t])
  BY <1>3 DEF StoreShape
<1>6. old.entries[t] = NoRow => new = old
  BY <1>1 DEF Reducer, BetMessage
<1>7. old.entries[t] # NoRow => EntryShape(e) /\ new = WithEntry(old, t, e)
  <2>1. old.entries[t] # NoRow => EntryShape(e)
    <3> SUFFICES ASSUME old.entries[t] # NoRow PROVE EntryShape(e)
      OBVIOUS
    <3> DEFINE was == old.entries[t]
    <3>1. EntryShape(was) /\ m.bet \in BetRow /\ e = BetEntry(was, m)
      BY <1>0, <1>1, <1>5, <1>a
    <3> HIDE DEF was
    <3>2. /\ EntryShape(BetEntry(was, m))
          /\ BetEntry(was, m).row = [was.row EXCEPT !.yes = m.bet.yes, !.no = m.bet.no]
          /\ BetEntry(was, m).bets = Append(was.bets, m.bet)
          /\ BetEntry(was, m).odds = KeepLast(Append(was.odds, m.bet.pBps), WebCap)
      BY <3>1, BetEntryShape
    <3> QED
      BY <3>1, <3>2
  <2>2. old.entries[t] # NoRow => new = WithEntry(old, t, e)
    BY <1>0, <1>1 DEF Reducer, BetMessage, BetEntry, WithEntry
  <2> QED
    BY <2>1, <2>2
<1> HIDE DEF new
<1>8. Replaced(old, new, t, e)
  BY <1>3, <1>6, <1>7, ReplacedEntry
<1>9. ASSUME calm, old.entries[t] # NoRow PROVE TracksTask(t, e, gone, ch, rw, bt)
  <2>1. TracksTask(t, old.entries[t], gone \cup {Len(bt)}, ch, rw, bt)
    BY <1>3, <1>9, <1>a DEF Tracks
  <2>2. EntryShape(old.entries[t]) /\ m.bet = bet
    BY <1>1, <1>5, <1>9
  <2>3. TracksTask(t, BetEntry(old.entries[t], m), gone, ch, rw, bt)
    BY <1>a, <2>1, <2>2, BetTracks
  <2> QED
    BY <1>0, <2>3
<1>10. ASSUME calm, NEW u \in Tasks, u # t \/ old.entries[t] = NoRow
       PROVE  TracksTask(u, old.entries[u], gone, ch, rw, bt)
  <2>1. TracksTask(u, old.entries[u], gone \cup {Len(bt)}, ch, rw, bt)
    BY <1>3, <1>10, <1>a DEF Tracks
  <2>2. CASE u # t
    <3>1. Len(bt) \notin BetsIn(bt, u)
      BY <1>a, <2>2 DEF BetsIn
    <3>2. /\ BetsIn(bt, u) \ (gone \cup {Len(bt)}) = BetsIn(bt, u) \ gone
          /\ BetsIn(bt, u) \cap (gone \cup {Len(bt)}) = BetsIn(bt, u) \cap gone
      BY <3>1
    <3> QED
      BY <2>1, <3>2 DEF TracksTask
  <2>3. CASE u = t
    <3>1. old.entries[t] = NoRow
      BY <1>10, <2>3
    <3>2. rw[t] = NoRow
      BY <1>10, <3>1 DEF old
    <3> QED
      BY <2>3, <3>1, <3>2 DEF TracksTask
  <2> QED
    BY <2>2, <2>3
<1>11. calm => Tracks(new, gone, ch, rw, bt)
  BY <1>8, <1>9, <1>10 DEF Tracks, Replaced
<1>12. Grown(new, m, s, box, up, gone, calm, ch, rw, bt)
  BY <1>1, <1>4, <1>11, StagesGrow DEF new, old
<1> QED
  BY <1>8, <1>12 DEF old, Grown, EntryGrown

-----------------------------------------------------------------------------
(* The server moves: task t becomes c on the chain and r in the table. *)

Moves(t, c, r, ch, rw) ==
    /\ c \in ChainTask /\ c.state # "none" /\ r \in TaskRow \cup {NoRow}
    /\ r = NoRow => rw[t] = NoRow
    /\ rw[t] = NoRow /\ r # NoRow => ch[t].state = "none"
    /\ rw[t] # NoRow => PBps(r) = PBps(rw[t]) \/ ch[t].state = "Created"
    /\ c.state = "Created" => /\ ch[t].state \in {"none", "Created"}
                              /\ r # NoRow => r.yes = 0 /\ r.no = 0

LEMMA MoveTables ==
    ASSUME NEW ch, NEW rw, NEW bt, Tables(ch, rw, bt), NEW t \in Tasks, NEW c, NEW r,
           Moves(t, c, r, ch, rw)
    PROVE  Tables([ch EXCEPT ![t] = c], [rw EXCEPT ![t] = r], bt)
<1> DEFINE ch2 == [ch EXCEPT ![t] = c]
           rw2 == [rw EXCEPT ![t] = r]
<1>1. /\ ch \in [Tasks -> ChainTask] /\ rw \in [Tasks -> TaskRow \cup {NoRow}]
      /\ c \in ChainTask /\ r \in TaskRow \cup {NoRow}
  BY DEF Tables, Moves
<1>2. ch2 \in [Tasks -> ChainTask] /\ rw2 \in [Tasks -> TaskRow \cup {NoRow}]
  <2> HIDE DEF ChainTask, TaskRow, NoRow
  <2> QED
    BY <1>1
<1>3. \A u \in Tasks : /\ ch2[u] = IF u = t THEN c ELSE ch[u]
                       /\ rw2[u] = IF u = t THEN r ELSE rw[u]
  BY <1>1
<1> HIDE DEF ch2, rw2
<1>4. \A u \in Tasks : ch2[u].state = "none" => rw2[u] = NoRow
  BY <1>3 DEF Tables, Moves
<1>5. \A u \in Tasks : ch2[u].state \in {"none", "Created"} =>
         BetsIn(bt, u) = {} /\ (rw2[u] # NoRow => rw2[u].yes = 0 /\ rw2[u].no = 0)
  BY <1>3 DEF Tables, Moves
<1>6. bt \in Seq(BetRow) /\ \A i \in DOMAIN bt : bt[i].id = i
  BY DEF Tables
<1> QED
  BY <1>2, <1>4, <1>5, <1>6 DEF Tables, ch2, rw2

LEMMA MoveTracks ==
    ASSUME NEW ch, NEW rw, NEW bt, Tables(ch, rw, bt), NEW t \in Tasks, NEW c, NEW r,
           Moves(t, c, r, ch, rw), NEW u \in Tasks, NEW e, NEW gone,
           TracksTask(u, e, gone, ch, rw, bt)
    PROVE  TracksTask(u, e, gone, [ch EXCEPT ![t] = c], [rw EXCEPT ![t] = r], bt)
<1> DEFINE ch2 == [ch EXCEPT ![t] = c]
           rw2 == [rw EXCEPT ![t] = r]
<1>1. /\ ch2[u] = IF u = t THEN c ELSE ch[u]
      /\ rw2[u] = IF u = t THEN r ELSE rw[u]
  BY DEF Tables
<1> HIDE DEF ch2, rw2
<1>2. CASE u # t
  BY <1>1, <1>2 DEF TracksTask, ch2, rw2
<1>3. CASE u = t
  <2>1. rw2[t] = NoRow => e = NoRow
    BY <1>1, <1>3 DEF Moves, TracksTask
  <2>2. rw2[t] # NoRow => Had(e) = BetsIn(bt, t) \ gone
    <3>1. CASE rw[t] = NoRow
      <4>1. rw2[t] # NoRow => BetsIn(bt, t) = {}
        BY <1>1, <1>3, <3>1 DEF Moves, Tables
      <4>2. Had(e) = {}
        BY <1>3, <3>1 DEF TracksTask, Had
      <4> QED
        BY <4>1, <4>2
    <3>2. CASE rw[t] # NoRow
      BY <1>3, <3>2 DEF TracksTask
    <3> QED
      BY <3>1, <3>2
  <2>3. ASSUME e # NoRow
        PROVE  /\ \A i, j \in DOMAIN e.bets : i < j => e.bets[i].id < e.bets[j].id
               /\ ch2[t].state \in {"none", "Created"} => e.odds = <<>>
               /\ e.odds # <<>> /\ BetsIn(bt, t) \cap gone = {} => Last(e.odds) = PBps(rw2[t])
    <3>1. rw[t] # NoRow /\ (ch[t].state \in {"none", "Created"} => e.odds = <<>>)
      BY <1>3, <2>3 DEF TracksTask
    <3>2. ch2[t].state \in {"none", "Created"} => e.odds = <<>>
      BY <1>1, <1>3, <3>1 DEF Moves
    <3>3. e.odds # <<>> => PBps(rw2[t]) = PBps(rw[t])
      BY <1>1, <1>3, <3>1 DEF Moves
    <3> QED
      BY <1>3, <2>3, <3>2, <3>3 DEF TracksTask
  <2> QED
    BY <1>3, <2>1, <2>2, <2>3 DEF TracksTask, ch2, rw2
<1> QED
  BY <1>2, <1>3

LEMMA StagesMoved ==
    ASSUME NEW F, NEW s, NEW box \in Seq(Wire), NEW up, NEW gone, NEW calm \in BOOLEAN,
           NEW ch, NEW rw, NEW bt, Tables(ch, rw, bt), NEW t \in Tasks, NEW c, NEW r,
           Moves(t, c, r, ch, rw), Stages(F, s, box, up, gone, calm, ch, rw, bt)
    PROVE  Stages(F, s, box, up, gone, calm, [ch EXCEPT ![t] = c], [rw EXCEPT ![t] = r], bt)
<1> DEFINE ch2 == [ch EXCEPT ![t] = c]
           rw2 == [rw EXCEPT ![t] = r]
<1>1. ASSUME NEW e, NEW g, NEW u \in Tasks, TracksTask(u, e, g, ch, rw, bt)
      PROVE  TracksTask(u, e, g \cup {}, ch2, rw2, bt)
  <2>1. g \cup {} = g
    OBVIOUS
  <2> QED
    BY <1>1, <2>1, MoveTracks
<1> HIDE DEF ch2, rw2
<1>2. Stages(F, s, box, up, gone \cup {}, calm, ch2, rw2, bt)
  <2>1. Follows(ch, rw, bt, ch2, rw2, bt, {})
    BY <1>1 DEF Follows
  <2> QED
    BY <2>1, StagesMove
<1>3. gone \cup {} = gone
  OBVIOUS
<1> QED
  BY <1>2, <1>3 DEF ch2, rw2

\* The bet's pools are those of its task's row, if it has one.
BetRows(t, bet, rw, rw2) ==
    /\ rw \in [Tasks -> TaskRow \cup {NoRow}]
    /\ rw2 = [rw EXCEPT ![t] = IF rw[t] = NoRow THEN NoRow
                               ELSE [rw[t] EXCEPT !.yes = bet.yes, !.no = bet.no]]

\* A bet is placed: every stage misses it, until its message is received.
BetTaken(t, bet, ch, rw, bt, ch2, rw2, bt2) ==
    /\ ch[t].state = "Open"
    /\ \E c \in ChainTask : c.state = "Open" /\ ch2 = [ch EXCEPT ![t] = c]
    /\ bet \in BetRow /\ bet.id = Len(bt) + 1 /\ bet.task = t /\ bet.pBps = PBps(bet)
    /\ BetRows(t, bet, rw, rw2) /\ bt2 = Append(bt, bet)

LEMMA BetMoves ==
    ASSUME NEW ch, NEW rw, NEW bt, Tables(ch, rw, bt), NEW t \in Tasks, NEW bet,
           NEW ch2, NEW rw2, NEW bt2, BetTaken(t, bet, ch, rw, bt, ch2, rw2, bt2)
    PROVE  /\ LastBet(t, bet, ch2, rw2, bt2)
           /\ DOMAIN bt2 = DOMAIN bt \cup {bet.id} /\ bet.id \notin DOMAIN bt
           /\ rw2[t] # NoRow => rw[t] # NoRow
           /\ Follows(ch, rw, bt, ch2, rw2, bt2, {bet.id})
<1> DEFINE n == Len(bt)
           r == IF rw[t] = NoRow THEN NoRow ELSE [rw[t] EXCEPT !.yes = bet.yes, !.no = bet.no]
<1>a. PICK c \in ChainTask : c.state = "Open" /\ ch2 = [ch EXCEPT ![t] = c]
  BY DEF BetTaken
<1>b. /\ ch[t].state = "Open" /\ bet \in BetRow /\ bet.id = Len(bt) + 1 /\ bet.task = t
      /\ bet.pBps = PBps(bet) /\ bt2 = Append(bt, bet) /\ rw2 = [rw EXCEPT ![t] = r]
  BY DEF BetTaken, BetRows
<1>c. /\ r \in TaskRow \cup {NoRow} /\ (r = NoRow <=> rw[t] = NoRow)
      /\ r # NoRow => PBps(r) = bet.pBps
  <2>1. CASE rw[t] = NoRow
    BY <2>1
  <2>2. CASE rw[t] # NoRow
    <3>1. rw[t] \in TaskRow /\ bet.yes \in Nat /\ bet.no \in Nat
      BY <1>b, <2>2 DEF Tables, BetRow
    <3>2. r \in TaskRow /\ r.yes = bet.yes /\ r.no = bet.no
      BY <2>2, <3>1 DEF TaskRow
    <3>3. r # NoRow
      <4>1. r.state # "none" /\ NoRow.state = "none"
        BY <3>2 DEF TaskRow, NoRow
      <4> QED
        BY <4>1
    <3>4. PBps(r) = PBps(bet)
      BY <3>2 DEF PBps
    <3> QED
      BY <1>b, <2>2, <3>2, <3>3, <3>4
  <2> QED
    BY <2>1, <2>2
<1> HIDE DEF r
<1>1. /\ ch \in [Tasks -> ChainTask] /\ rw \in [Tasks -> TaskRow \cup {NoRow}]
      /\ bt \in Seq(BetRow) /\ \A i \in DOMAIN bt : bt[i].id = i
  BY DEF Tables
<1>2. ch2 \in [Tasks -> ChainTask] /\ rw2 \in [Tasks -> TaskRow \cup {NoRow}]
  <2> HIDE DEF ChainTask, TaskRow, NoRow
  <2> QED
    BY <1>1, <1>a, <1>b, <1>c
<1>3. \A u \in Tasks : /\ ch2[u] = IF u = t THEN c ELSE ch[u]
                       /\ rw2[u] = IF u = t THEN r ELSE rw[u]
  BY <1>1, <1>a, <1>b
<1>4. /\ n \in Nat /\ bt2 \in Seq(BetRow) /\ Len(bt2) = n + 1 /\ bt2[n + 1] = bet
      /\ DOMAIN bt2 = 1 .. n + 1 /\ DOMAIN bt = 1 .. n /\ \A i \in 1 .. n : bt2[i] = bt[i]
  BY <1>1, <1>b, AppendProperties, LenProperties
<1> HIDE DEF n
<1>5. bet.id = n + 1
  BY <1>b DEF n
<1>6. DOMAIN bt2 = DOMAIN bt \cup {bet.id} /\ bet.id \notin DOMAIN bt /\ bet.id \in DOMAIN bt2
  BY <1>4, <1>5
<1>7. \A u \in Tasks : BetsIn(bt2, u) = BetsIn(bt, u) \cup IF u = t THEN {bet.id} ELSE {}
  <2> TAKE u \in Tasks
  <2>1. \A i : i \in BetsIn(bt2, u) <=> i \in BetsIn(bt, u) \/ (u = t /\ i = bet.id)
    <3>1. \A i \in DOMAIN bt : bt2[i] = bt[i]
      BY <1>4
    <3>2. bt2[bet.id].task = t
      BY <1>4, <1>5, <1>b
    <3> QED
      BY <1>6, <3>1, <3>2 DEF BetsIn
  <2> QED
    BY <2>1
<1>8. \A i \in DOMAIN bt2 : bt2[i].id = i
  <2> TAKE i \in DOMAIN bt2
  <2>1. CASE i = n + 1
    BY <1>4, <1>5, <2>1
  <2>2. CASE i # n + 1
    <3>1. i \in 1 .. n
      BY <1>4, <2>2
    <3> QED
      BY <1>1, <1>4, <3>1
  <2> QED
    BY <2>1, <2>2
<1>9. Tables(ch2, rw2, bt2)
  <2>1. \A u \in Tasks : ch2[u].state = "none" => rw2[u] = NoRow
    BY <1>3, <1>a DEF Tables
  <2>2. \A u \in Tasks : ch2[u].state \in {"none", "Created"} =>
           BetsIn(bt2, u) = {} /\ (rw2[u] # NoRow => rw2[u].yes = 0 /\ rw2[u].no = 0)
    <3> TAKE u \in Tasks
    <3>1. CASE u = t
      BY <1>3, <1>a, <3>1
    <3>2. CASE u # t
      <4>1. BetsIn(bt2, u) = BetsIn(bt, u)
        BY <1>7, <3>2
      <4> QED
        BY <1>3, <3>2, <4>1 DEF Tables
    <3> QED
      BY <3>1, <3>2
  <2> QED
    BY <1>2, <1>4, <1>8, <2>1, <2>2 DEF Tables
<1>10. ASSUME NEW e, NEW g, NEW u \in Tasks, TracksTask(u, e, g, ch, rw, bt)
       PROVE  TracksTask(u, e, g \cup {bet.id}, ch2, rw2, bt2)
  <2>1. bet.id \notin BetsIn(bt, u)
    BY <1>6 DEF BetsIn
  <2>2. BetsIn(bt2, u) \ (g \cup {bet.id}) = BetsIn(bt, u) \ g
    BY <1>7, <2>1
  <2>3. ch2[u].state = ch[u].state /\ (rw2[u] = NoRow <=> rw[u] = NoRow)
    BY <1>3, <1>a, <1>b, <1>c
  <2>4. CASE u = t
    <3>1. BetsIn(bt2, u) \cap (g \cup {bet.id}) # {}
      BY <1>7, <2>4
    <3> QED
      BY <1>10, <2>2, <2>3, <3>1 DEF TracksTask
  <2>5. CASE u # t
    <3>1. /\ BetsIn(bt2, u) \cap (g \cup {bet.id}) = BetsIn(bt, u) \cap g
          /\ rw2[u] = rw[u]
      BY <1>3, <1>7, <2>1, <2>5
    <3> QED
      BY <1>10, <2>2, <2>3, <3>1 DEF TracksTask
  <2> QED
    BY <2>4, <2>5
<1>11. LastBet(t, bet, ch2, rw2, bt2)
  <2>1. ch2[t].state = "Open" /\ rw2[t] = r
    BY <1>3, <1>a
  <2>2. Len(bt2) = bet.id /\ bt2[bet.id] = bet
    BY <1>4, <1>5
  <2> QED
    BY <1>6, <1>9, <1>b, <1>c, <2>1, <2>2 DEF LastBet
<1>12. Follows(ch, rw, bt, ch2, rw2, bt2, {bet.id})
  BY <1>10 DEF Follows
<1> QED
  BY <1>3, <1>6, <1>11, <1>12, <1>c

-----------------------------------------------------------------------------
(* The last stage agrees with the server again once the messages are sent. *)

LEMMA AgreesFeed ==
    ASSUME NEW old, NEW new, NEW item, FeedOnly(old, new, item),
           NEW rw, NEW rg, NEW md, Agrees(old, rw, rg, md)
    PROVE  Agrees(new, rw, KeepLast(Append(rg, item), ServerCap), md)
<1> HIDE DEF SameRow, NoRow
<1> QED
  BY CapIsPositive DEF FeedOnly, Agrees

LEMMA AgreesPush ==
    ASSUME NEW old, NEW new, StoreShape(old), NEW t \in Tasks, NEW r, Pushed(old, new, t, r),
           r \in TaskRow \cup {NoRow}, NEW rw, rw \in [Tasks -> TaskRow \cup {NoRow}],
           r = NoRow => rw[t] = NoRow, NEW rg, NEW md, Agrees(old, rw, rg, md)
    PROVE  Agrees(new, [rw EXCEPT ![t] = r], rg, md)
<1> DEFINE rw2 == [rw EXCEPT ![t] = r]
<1>1. \A u \in Tasks : rw2[u] = IF u = t THEN r ELSE rw[u]
  OBVIOUS
<1> HIDE DEF rw2
<1>2. new.feed = rg /\ new.mode = md
  BY DEF Pushed, Agrees
<1>3. ASSUME NEW u \in Tasks
      PROVE  /\ new.entries[u] # NoRow <=> rw2[u] # NoRow
             /\ new.entries[u] # NoRow => SameRow(new.entries[u].row, rw2[u])
  <2>1. CASE r = NoRow
    <3>1. new.entries[u] = old.entries[u] /\ rw2[u] = rw[u]
      BY <1>1, <2>1 DEF Pushed
    <3> QED
      BY <3>1 DEF Agrees
  <2>2. CASE r # NoRow
    <3>1. PICK fresh : \A v \in Tasks :
             new.entries[v] = IF v = t THEN Entry(r, old.entries[t], fresh) ELSE old.entries[v]
      BY <2>2 DEF Pushed
    <3>2. CASE u # t
      <4>1. new.entries[u] = old.entries[u] /\ rw2[u] = rw[u]
        BY <1>1, <3>1, <3>2
      <4> QED
        BY <4>1 DEF Agrees
    <3>3. CASE u = t
      <4> DEFINE e == Entry(r, old.entries[t], fresh)
      <4>1. r \in TaskRow /\ r.yes \in Nat /\ r.no \in Nat
        BY <2>2 DEF TaskRow
      <4>2. EntryShape(e) /\ e.row = r
        <5>1. EntryShape(e)
          BY <4>1, EntryKeepsShape DEF StoreShape
        <5> QED
          BY <5>1 DEF Entry
      <4>3. e # NoRow /\ SameRow(e.row, r)
        <5> HIDE DEF TaskRow, e
        <5> QED
          BY <4>1, <4>2, EntryIsNoNoRow DEF SameRow
      <4>4. new.entries[u] = e /\ rw2[u] = r
        BY <1>1, <3>1, <3>3
      <4> HIDE DEF e
      <4> QED
        BY <2>2, <4>3, <4>4
    <3> QED
      BY <3>2, <3>3
  <2> QED
    BY <2>1, <2>2
<1> QED
  BY <1>2, <1>3 DEF Agrees, rw2

\* Message m settles task t as its row tells, if it has one.
SettledAs(m, t, rw) ==
    /\ m.outcome \in {"Yes", "No"} /\ m.score \in Int
    /\ rw[t] # NoRow => rw[t].state = "Settled" /\ rw[t].outcome = m.outcome

LEMMA AgreesSettled ==
    ASSUME NEW old, NEW new, StoreShape(old), NEW t \in Tasks, NEW m,
           NEW rw, SettledAs(m, t, rw), Replaced(old, new, t, SettledEntry(old.entries[t], m)),
           NEW rg, NEW md, Agrees(old, rw, rg, md)
    PROVE  Agrees(new, rw, rg, md)
<1> DEFINE e == SettledEntry(old.entries[t], m)
<1>1. ASSUME old.entries[t] # NoRow PROVE e # NoRow /\ rw[t] # NoRow /\ SameRow(e.row, rw[t])
  <2> DEFINE row == old.entries[t].row
             next == [row EXCEPT !.state = "Settled", !.outcome = m.outcome, !.score = m.score]
  <2>1. EntryShape(old.entries[t]) /\ rw[t] # NoRow /\ SameRow(row, rw[t])
    BY <1>1 DEF StoreShape, Agrees
  <2>2. EntryShape(e) /\ e.row = next
    BY <2>1, SettledEntryShape
  <2>3. row \in TaskRow /\ row.yes = rw[t].yes /\ row.no = rw[t].no
    BY <2>1 DEF SameRow
  <2> HIDE DEF row
  <2>4. /\ next \in TaskRow /\ next.state = "Settled" /\ next.outcome = m.outcome
        /\ next.yes = row.yes /\ next.no = row.no
    BY <2>3 DEF TaskRow, SettledAs
  <2>5. e # NoRow
    BY <2>2, EntryIsNoNoRow
  <2> HIDE DEF e, next
  <2> QED
    BY <2>1, <2>2, <2>3, <2>4, <2>5 DEF SameRow, SettledAs
<1> HIDE DEF e
<1>2. ASSUME NEW u \in Tasks
      PROVE  /\ new.entries[u] # NoRow <=> rw[u] # NoRow
             /\ new.entries[u] # NoRow => SameRow(new.entries[u].row, rw[u])
  <2>1. new.entries[u] = IF u = t /\ old.entries[t] # NoRow THEN e ELSE old.entries[u]
    BY DEF Replaced, e
  <2>2. CASE u = t /\ old.entries[t] # NoRow
    BY <1>1, <2>1, <2>2
  <2>3. CASE ~(u = t /\ old.entries[t] # NoRow)
    <3>1. new.entries[u] = old.entries[u]
      BY <2>1, <2>3
    <3> QED
      BY <3>1 DEF Agrees
  <2> QED
    BY <2>2, <2>3
<1> QED
  BY <1>2 DEF Agrees, Replaced

LEMMA AgreesBet ==
    ASSUME NEW old, NEW new, StoreShape(old), NEW t \in Tasks, NEW m, m.bet \in BetRow,
           Replaced(old, new, t, BetEntry(old.entries[t], m)),
           NEW rw, NEW rg, NEW md, Agrees(old, rw, rg, md), NEW rw2, BetRows(t, m.bet, rw, rw2)
    PROVE  Agrees(new, rw2, rg, md)
<1> DEFINE e == BetEntry(old.entries[t], m)
           after == [rw[t] EXCEPT !.yes = m.bet.yes, !.no = m.bet.no]
<1>0. rw \in [Tasks -> TaskRow \cup {NoRow}]
  BY DEF BetRows
<1>1. \A u \in Tasks : rw2[u] = IF u = t /\ rw[t] # NoRow THEN after ELSE rw[u]
  BY DEF BetRows
<1>2. ASSUME old.entries[t] # NoRow
      PROVE  e # NoRow /\ rw[t] # NoRow /\ after # NoRow /\ SameRow(e.row, after)
  <2> DEFINE row == old.entries[t].row
             next == [row EXCEPT !.yes = m.bet.yes, !.no = m.bet.no]
  <2>1. EntryShape(old.entries[t]) /\ rw[t] # NoRow /\ SameRow(row, rw[t])
    BY <1>2 DEF StoreShape, Agrees
  <2>2. EntryShape(e) /\ e.row = next
    BY <2>1, BetEntryShape
  <2>3. /\ row \in TaskRow /\ row.state = rw[t].state /\ row.outcome = rw[t].outcome
        /\ rw[t] \in TaskRow /\ m.bet.yes \in Nat /\ m.bet.no \in Nat
    BY <1>0, <2>1 DEF SameRow, BetRow
  <2> HIDE DEF row
  <2>4. /\ next \in TaskRow /\ next.state = row.state /\ next.outcome = row.outcome
        /\ next.yes = m.bet.yes /\ next.no = m.bet.no
    BY <2>3 DEF TaskRow
  <2>5. /\ after \in TaskRow /\ after.state = rw[t].state /\ after.outcome = rw[t].outcome
        /\ after.yes = m.bet.yes /\ after.no = m.bet.no
    BY <2>3 DEF TaskRow
  <2>6. e # NoRow
    BY <2>2, EntryIsNoNoRow
  <2>7. after # NoRow
    <3>1. after.state \in {"Created", "Open", "Executing", "Delivered", "Settled",
                           "Cancelled"}
      BY <2>5 DEF TaskRow
    <3>2. NoRow.state = "none"
      BY DEF NoRow
    <3> HIDE DEF after
    <3> QED
      BY <3>1, <3>2
  <2> HIDE DEF e, next, after
  <2> QED
    BY <2>1, <2>2, <2>3, <2>4, <2>5, <2>6, <2>7 DEF SameRow
<1> HIDE DEF e, after
<1>3. ASSUME NEW u \in Tasks
      PROVE  /\ new.entries[u] # NoRow <=> rw2[u] # NoRow
             /\ new.entries[u] # NoRow => SameRow(new.entries[u].row, rw2[u])
  <2>1. new.entries[u] = IF u = t /\ old.entries[t] # NoRow THEN e ELSE old.entries[u]
    BY DEF Replaced, e
  <2>2. CASE u = t /\ old.entries[t] # NoRow
    BY <1>1, <1>2, <2>1, <2>2
  <2>3. CASE ~(u = t /\ old.entries[t] # NoRow)
    <3>1. new.entries[u] = old.entries[u] /\ rw2[u] = rw[u]
      BY <1>1, <2>1, <2>3 DEF Agrees
    <3> QED
      BY <3>1 DEF Agrees
  <2> QED
    BY <2>2, <2>3
<1>4. new.feed = rg /\ new.mode = md
  BY DEF Agrees, Replaced
<1> QED
  BY <1>3, <1>4 DEF Agrees

-----------------------------------------------------------------------------
(* What was sent and what moved leave the client good. *)

LEMMA LastShape ==
    ASSUME NEW F, NEW s, NEW box \in Seq(Wire), NEW up, NEW gone, NEW calm, NEW ch, NEW rw,
           NEW bt, Stages(F, s, box, up, gone, calm, ch, rw, bt)
    PROVE  StoreShape(F[Len(box)])
<1>1. Len(box) \in 0 .. Len(box)
  BY LenProperties
<1> QED
  BY <1>1 DEF Stages

LEMMA GoodItem ==
    ASSUME NEW s, NEW box, NEW up, NEW gone, NEW calm \in BOOLEAN, NEW fresh \in BOOLEAN,
           NEW ch, NEW rw, NEW bt, NEW rg, NEW md, NEW item \in Int,
           Good(s, box, up, gone, calm, fresh, ch, rw, bt, rg, md)
    PROVE  Good(s, Append(box, [type |-> "item", item |-> item]), up, gone, calm, fresh,
                ch, rw, bt, KeepLast(Append(rg, item), ServerCap), md)
<1>1. PICK F : /\ box \in Seq(Wire) /\ Stages(F, s, box, up, gone, calm, ch, rw, bt)
               /\ fresh => Agrees(F[Len(box)], rw, rg, md)
  BY DEF Good
<1> DEFINE long == Append(box, [type |-> "item", item |-> item])
<1>2. /\ long \in Seq(Wire)
      /\ \E G : /\ Stages(G, s, long, up, gone, calm, ch, rw, bt)
                /\ FeedOnly(F[Len(box)], G[Len(long)], item)
  BY <1>1, GrowItem
<1> HIDE DEF long
<1>3. PICK G : /\ Stages(G, s, long, up, gone, calm, ch, rw, bt)
               /\ FeedOnly(F[Len(box)], G[Len(long)], item)
  BY <1>2
<1>4. fresh => Agrees(G[Len(long)], rw, KeepLast(Append(rg, item), ServerCap), md)
  BY <1>1, <1>3, AgreesFeed
<1> QED
  BY <1>2, <1>3, <1>4 DEF Good, long

LEMMA GoodPush ==
    ASSUME NEW s, NEW box, NEW up, NEW gone, NEW calm \in BOOLEAN, NEW fresh \in BOOLEAN,
           NEW ch, NEW rw, NEW bt, NEW rg, NEW md, Tables(ch, rw, bt), NEW t \in Tasks,
           NEW c, NEW r, Moves(t, c, r, ch, rw),
           Good(s, box, up, gone, calm, fresh, ch, rw, bt, rg, md)
    PROVE  Good(s, box \o PushOf(r, t), up, gone, calm, fresh,
                [ch EXCEPT ![t] = c], [rw EXCEPT ![t] = r], bt, rg, md)
<1>1. PICK F : /\ box \in Seq(Wire) /\ Stages(F, s, box, up, gone, calm, ch, rw, bt)
               /\ fresh => Agrees(F[Len(box)], rw, rg, md)
  BY DEF Good
<1> DEFINE long == box \o PushOf(r, t)
           ch2 == [ch EXCEPT ![t] = c]
           rw2 == [rw EXCEPT ![t] = r]
<1>2. Stages(F, s, box, up, gone, calm, ch2, rw2, bt)
  BY <1>1, StagesMoved
<1>3. Tables(ch2, rw2, bt)
  BY MoveTables
<1>4. rw2[t] = r /\ rw \in [Tasks -> TaskRow \cup {NoRow}]
  BY DEF Tables
<1>0. long = box \o PushOf(r, t)
  OBVIOUS
<1> HIDE DEF ch2, rw2, long
<1>5. PushGrown(F, s, box, long, up, gone, calm, ch2, rw2, bt, t, r)
  BY <1>0, <1>1, <1>2, <1>3, <1>4, GrowPush
<1>6. PICK G : /\ Stages(G, s, long, up, gone, calm, ch2, rw2, bt)
               /\ Pushed(F[Len(box)], G[Len(long)], t, r)
  BY <1>5 DEF PushGrown
<1>7. ASSUME fresh PROVE Agrees(G[Len(long)], rw2, rg, md)
  <2>1. StoreShape(F[Len(box)]) /\ Agrees(F[Len(box)], rw, rg, md)
    BY <1>1, <1>7, LastShape
  <2>2. r \in TaskRow \cup {NoRow} /\ (r = NoRow => rw[t] = NoRow)
    BY DEF Moves
  <2> HIDE DEF TaskRow, NoRow
  <2> QED
    BY <1>4, <1>6, <2>1, <2>2, AgreesPush DEF rw2
<1> QED
  BY <1>5, <1>6, <1>7 DEF Good, PushGrown, long, ch2, rw2

LEMMA GoodSettled ==
    ASSUME NEW s, NEW box, NEW up, NEW gone, NEW calm \in BOOLEAN, NEW fresh \in BOOLEAN,
           NEW ch, NEW rw, NEW bt, NEW rg, NEW md, NEW t \in Tasks,
           NEW outcome \in {"Yes", "No"}, NEW score \in Int,
           rw[t] # NoRow => rw[t].state = "Settled" /\ rw[t].outcome = outcome,
           Good(s, box, up, gone, calm, fresh, ch, rw, bt, rg, md)
    PROVE  Good(s, Append(box, [type |-> "settled", task |-> t, outcome |-> outcome,
                                score |-> score]),
                up, gone, calm, fresh, ch, rw, bt, rg, md)
<1>1. PICK F : /\ box \in Seq(Wire) /\ Stages(F, s, box, up, gone, calm, ch, rw, bt)
               /\ fresh => Agrees(F[Len(box)], rw, rg, md)
  BY DEF Good
<1> DEFINE m == [type |-> "settled", task |-> t, outcome |-> outcome, score |-> score]
           long == Append(box, m)
           e == SettledEntry(F[Len(box)].entries[t], m)
<1>2. /\ m = [type |-> "settled", task |-> t, outcome |-> outcome, score |-> score]
      /\ m.outcome = outcome /\ m.score = score
  OBVIOUS
<1>3. e = SettledEntry(F[Len(box)].entries[t], m)
  OBVIOUS
<1> HIDE DEF m, e
<1>4. EntryGrown(F, s, box, m, up, gone, calm, ch, rw, bt, t, e)
  BY <1>1, <1>2, <1>3, GrowSettled
<1> HIDE DEF long
<1>5. PICK G : /\ Stages(G, s, long, up, gone, calm, ch, rw, bt)
               /\ Replaced(F[Len(box)], G[Len(long)], t, e)
  BY <1>4 DEF EntryGrown, long
<1>6. ASSUME fresh PROVE Agrees(G[Len(long)], rw, rg, md)
  <2>1. StoreShape(F[Len(box)]) /\ Agrees(F[Len(box)], rw, rg, md)
    BY <1>1, <1>6, LastShape
  <2>2. SettledAs(m, t, rw)
    BY <1>2 DEF SettledAs
  <2>3. Replaced(F[Len(box)], G[Len(long)], t, SettledEntry(F[Len(box)].entries[t], m))
    BY <1>3, <1>5
  <2> QED
    BY <2>1, <2>2, <2>3, AgreesSettled
<1> QED
  BY <1>4, <1>5, <1>6 DEF Good, EntryGrown, long, m

\* A bet with the pools it leaves behind, and its message.
LEMMA GoodBet ==
    ASSUME NEW s, NEW box, NEW up, NEW gone, NEW calm \in BOOLEAN, NEW fresh \in BOOLEAN,
           NEW ch, NEW rw, NEW bt, NEW rg, NEW md, Tables(ch, rw, bt), NEW t \in Tasks, NEW bet,
           NEW ch2, NEW rw2, NEW bt2, BetTaken(t, bet, ch, rw, bt, ch2, rw2, bt2),
           gone \subseteq DOMAIN bt, calm => fresh,
           Good(s, box, up, gone, calm, fresh, ch, rw, bt, rg, md)
    PROVE  Good(s, Append(box, [type |-> "bet", task |-> t, bet |-> bet]), up, gone, calm, fresh,
                ch2, rw2, bt2, rg, md)
<1>1. PICK F : /\ box \in Seq(Wire) /\ Stages(F, s, box, up, gone, calm, ch, rw, bt)
               /\ fresh => Agrees(F[Len(box)], rw, rg, md)
  BY DEF Good
<1> DEFINE m == [type |-> "bet", task |-> t, bet |-> bet]
           long == Append(box, m)
           e == BetEntry(F[Len(box)].entries[t], m)
           more == gone \cup {bet.id}
<1>2. /\ m = [type |-> "bet", task |-> t, bet |-> bet] /\ m.bet = bet
      /\ e = BetEntry(F[Len(box)].entries[t], m) /\ more = gone \cup {bet.id}
  OBVIOUS
<1> HIDE DEF m, e, more
<1>3. /\ LastBet(t, bet, ch2, rw2, bt2)
      /\ DOMAIN bt2 = DOMAIN bt \cup {bet.id} /\ bet.id \notin DOMAIN bt
      /\ rw2[t] # NoRow => rw[t] # NoRow
      /\ Follows(ch, rw, bt, ch2, rw2, bt2, {bet.id})
  <2> HIDE DEF long
  <2> QED
    BY BetMoves
<1>4. Stages(F, s, box, up, more, calm, ch2, rw2, bt2)
  BY <1>1, <1>3, StagesMove DEF more
<1>5. calm /\ rw2[t] # NoRow => F[Len(box)].entries[t] # NoRow
  BY <1>1, <1>3 DEF Agrees
<1>6. EntryGrown(F, s, box, m, up, gone, calm, ch2, rw2, bt2, t, e)
  <2>1. bet.id \notin gone
    BY <1>3
  <2> QED
    BY <1>1, <1>2, <1>3, <1>4, <1>5, <2>1, GrowBet
<1> HIDE DEF long
<1>7. PICK G : /\ Stages(G, s, long, up, gone, calm, ch2, rw2, bt2)
               /\ Replaced(F[Len(box)], G[Len(long)], t, e)
  BY <1>6 DEF EntryGrown, long
<1>8. ASSUME fresh PROVE Agrees(G[Len(long)], rw2, rg, md)
  <2>1. StoreShape(F[Len(box)]) /\ Agrees(F[Len(box)], rw, rg, md)
    BY <1>1, <1>8, LastShape
  <2>2. m.bet \in BetRow /\ BetRows(t, m.bet, rw, rw2)
    BY <1>2 DEF BetTaken
  <2>3. Replaced(F[Len(box)], G[Len(long)], t, BetEntry(F[Len(box)].entries[t], m))
    BY <1>2, <1>7
  <2> QED
    BY <2>1, <2>2, <2>3, AgreesBet
<1> QED
  BY <1>6, <1>7, <1>8 DEF Good, EntryGrown, long, m

\* A move without a message: nothing changes that is shown.
ShownAlike(r, row) ==
    /\ r = NoRow <=> row = NoRow
    /\ r # NoRow => /\ r.state = row.state /\ r.outcome = row.outcome
                    /\ r.yes = row.yes /\ r.no = row.no

MovedOnly(t, c, r, s, box, up, gone, calm, fresh, ch, rw, bt, rg, md) ==
    Good(s, box, up, gone, calm, fresh, [ch EXCEPT ![t] = c], [rw EXCEPT ![t] = r], bt, rg, md)

LEMMA GoodMoved ==
    ASSUME NEW s, NEW box, NEW up, NEW gone, NEW calm \in BOOLEAN, NEW fresh \in BOOLEAN,
           NEW ch, NEW rw, NEW bt, NEW rg, NEW md, Tables(ch, rw, bt), NEW t \in Tasks,
           NEW c, NEW r, Moves(t, c, r, ch, rw), ShownAlike(r, rw[t]),
           Good(s, box, up, gone, calm, fresh, ch, rw, bt, rg, md)
    PROVE  MovedOnly(t, c, r, s, box, up, gone, calm, fresh, ch, rw, bt, rg, md)
<1>1. PICK F : /\ box \in Seq(Wire) /\ Stages(F, s, box, up, gone, calm, ch, rw, bt)
               /\ fresh => Agrees(F[Len(box)], rw, rg, md)
  BY DEF Good
<1> DEFINE ch2 == [ch EXCEPT ![t] = c]
           rw2 == [rw EXCEPT ![t] = r]
<1>2. Stages(F, s, box, up, gone, calm, ch2, rw2, bt)
  BY <1>1, StagesMoved
<1>3. \A u \in Tasks : rw2[u] = IF u = t THEN r ELSE rw[u]
  BY DEF Tables
<1> HIDE DEF ch2, rw2
<1>4. ASSUME fresh PROVE Agrees(F[Len(box)], rw2, rg, md)
  <2>1. Agrees(F[Len(box)], rw, rg, md)
    BY <1>1, <1>4
  <2> HIDE DEF NoRow
  <2> QED
    BY <1>3, <1>4, <2>1 DEF Agrees, SameRow, ShownAlike
<1> QED
  BY <1>1, <1>2, <1>4 DEF Good, MovedOnly, ch2, rw2

\* The director's mode.
ModeSent(md, s, box, up, gone, calm, fresh, ch, rw, bt, rg) ==
    Good(s, Append(box, [type |-> "director", mode |-> md]), up, gone, calm, fresh,
         ch, rw, bt, rg, md)

LEMMA GoodDirector ==
    ASSUME NEW s, NEW box, NEW up, NEW gone, NEW calm \in BOOLEAN, NEW fresh \in BOOLEAN,
           NEW ch, NEW rw, NEW bt, NEW rg, NEW md, NEW md2 \in {"live", "replay"},
           Good(s, box, up, gone, calm, fresh, ch, rw, bt, rg, md)
    PROVE  ModeSent(md2, s, box, up, gone, calm, fresh, ch, rw, bt, rg)
<1>1. PICK F : /\ box \in Seq(Wire) /\ Stages(F, s, box, up, gone, calm, ch, rw, bt)
               /\ fresh => Agrees(F[Len(box)], rw, rg, md)
  BY DEF Good
<1> DEFINE m == [type |-> "director", mode |-> md2]
           old == F[Len(box)]
           new == Reducer(old, m)
<1>2. m \in Wire /\ m.type = "director" /\ m.mode = md2
  BY DEF Wire, WsMessage
<1>3. StoreShape(old)
  BY <1>1, LastShape
<1>4. calm => Tracks(old, gone, ch, rw, bt)
  <2>1. gone \cup Later(box, Len(box)) = gone /\ Len(box) \in 0 .. Len(box)
    BY <1>1, NothingLater, LenProperties
  <2> QED
    BY <1>1, <2>1 DEF Stages
<1>5. gone = gone \cup Ids(m)
  BY <1>2 DEF Ids
<1> HIDE DEF m, old
<1>6. new.entries = old.entries /\ new.feed = old.feed /\ new.mode = md2
  <2>1. new = [old EXCEPT !.mode = md2, !.serverOk = TRUE] /\ StoreFields(old)
    BY <1>2, <1>3 DEF Reducer, StoreShape
  <2> HIDE DEF new
  <2> QED
    BY <2>1 DEF StoreFields
<1> HIDE DEF new
<1>7. calm => Tracks(new, gone, ch, rw, bt)
  BY <1>4, <1>6 DEF Tracks
<1>8. Grown(new, m, s, box, up, gone, calm, ch, rw, bt)
  BY <1>1, <1>2, <1>5, <1>7, StagesGrow DEF new, old
<1>9. fresh => Agrees(new, rw, rg, md2)
  <2> HIDE DEF SameRow
  <2> QED
    BY <1>1, <1>6 DEF Agrees, old
<1> QED
  BY <1>8, <1>9 DEF Grown, Good, ModeSent, m

-----------------------------------------------------------------------------
(* The handlers' broadcasts, message by message. *)

LEMMA PushOfWire ==
    ASSUME NEW t \in Tasks, NEW r, r \in TaskRow \cup {NoRow}
    PROVE  PushOf(r, t) \in Seq(Wire)
<1>1. CASE r = NoRow
  BY <1>1, EmptySeq DEF PushOf
<1>2. CASE r # NoRow
  <2> DEFINE m == [type |-> "task", task |-> t, row |-> r]
  <2>1. m \in Wire
    <3> HIDE DEF TaskRow, NoRow
    <3> QED
      BY <1>2 DEF Wire, WsMessage
  <2>2. PushOf(r, t) = <<m>>
    BY <1>2 DEF PushOf
  <2> HIDE DEF m
  <2> QED
    BY <2>1, <2>2
<1> QED
  BY <1>1, <1>2

LEMMA FirstThenRest ==
    ASSUME NEW box \in Seq(Wire), NEW m \in Wire, NEW rest \in Seq(Wire)
    PROVE  box \o (<<m>> \o rest) = Append(box, m) \o rest
<1>1. <<m>> \in Seq(Wire)
  OBVIOUS
<1>2. box \o (<<m>> \o rest) = (box \o <<m>>) \o rest
  BY <1>1, ConcatAssociative
<1>3. box \o <<m>> = Append(box, m)
  BY AppendIsConcat
<1> QED
  BY <1>2, <1>3

LEMMA RestThenLast ==
    ASSUME NEW box \in Seq(Wire), NEW rest \in Seq(Wire), NEW m \in Wire
    PROVE  box \o (rest \o <<m>>) = Append(box \o rest, m)
<1>1. <<m>> \in Seq(Wire)
  OBVIOUS
<1>2. box \o (rest \o <<m>>) = (box \o rest) \o <<m>> /\ box \o rest \in Seq(Wire)
  BY <1>1, ConcatAssociative, ConcatProperties
<1>3. (box \o rest) \o <<m>> = Append(box \o rest, m)
  BY <1>2, AppendIsConcat
<1> QED
  BY <1>2, <1>3

LEMMA OneThenAnother ==
    ASSUME NEW box \in Seq(Wire), NEW m \in Wire, NEW next \in Wire
    PROVE  box \o <<m, next>> = Append(Append(box, m), next)
<1>1. <<m>> \in Seq(Wire)
  OBVIOUS
<1>0. <<m, next>> = <<m>> \o <<next>>
  <2> DEFINE both == <<m, next>>
             joined == <<m>> \o <<next>>
  <2>1. both \in Seq(Wire) /\ Len(both) = 2 /\ both[1] = m /\ both[2] = next
    OBVIOUS
  <2>2. joined = Append(<<m>>, next)
    BY <1>1, AppendIsConcat
  <2>3. joined \in Seq(Wire) /\ Len(joined) = 2 /\ joined[1] = m /\ joined[2] = next
    BY <1>1, <2>2, AppendProperties
  <2> HIDE DEF both, joined
  <2>4. both = joined
    BY <2>1, <2>3, SeqEqual
  <2> QED
    BY <2>4 DEF both, joined
<1>2. box \o (<<m>> \o <<next>>) = Append(box \o <<m>>, next)
  BY <1>1, RestThenLast
<1>3. box \o <<m>> = Append(box, m)
  BY AppendIsConcat
<1> QED
  BY <1>0, <1>2, <1>3

ItemOf(n) == [type |-> "item", item |-> n]

LEMMA ItemOnWire == ASSUME NEW n \in Int PROVE ItemOf(n) \in Wire
BY DEF ItemOf, Wire, WsMessage

\* When nobody is connected, what the rings hold does not matter.
Behind(s, box, up, gone, calm, ch, rw, bt) ==
    box \in Seq(Wire) /\ \E F : Stages(F, s, box, up, gone, calm, ch, rw, bt)

LEMMA GoodBehind ==
    ASSUME NEW s, NEW box, NEW up, NEW gone, NEW calm, NEW fresh, NEW ch, NEW rw, NEW bt,
           NEW rg, NEW md, Good(s, box, up, gone, calm, fresh, ch, rw, bt, rg, md)
    PROVE  Behind(s, box, up, gone, calm, ch, rw, bt)
BY DEF Good, Behind

LEMMA BehindGood ==
    ASSUME NEW s, NEW box, NEW up, NEW gone, NEW calm, NEW fresh, ~fresh, NEW ch, NEW rw, NEW bt,
           NEW rg, NEW md, Behind(s, box, up, gone, calm, ch, rw, bt)
    PROVE  Good(s, box, up, gone, calm, fresh, ch, rw, bt, rg, md)
BY DEF Good, Behind

LEMMA MovesAlone ==
    ASSUME NEW s, NEW box, NEW up, NEW gone, NEW calm \in BOOLEAN,
           NEW ch, NEW rw, NEW bt, Tables(ch, rw, bt), NEW t \in Tasks,
           NEW c, NEW r, Moves(t, c, r, ch, rw),
           Behind(s, box, up, gone, calm, ch, rw, bt)
    PROVE  Behind(s, box, up, gone, calm, [ch EXCEPT ![t] = c], [rw EXCEPT ![t] = r], bt)
<1>1. PICK F : box \in Seq(Wire) /\ Stages(F, s, box, up, gone, calm, ch, rw, bt)
  BY DEF Behind
<1>2. Stages(F, s, box, up, gone, calm, [ch EXCEPT ![t] = c], [rw EXCEPT ![t] = r], bt)
  BY <1>1, StagesMoved
<1> QED
  BY <1>1, <1>2 DEF Behind

\* A line for the feed.
LEMMA SendsItem ==
    ASSUME NEW s, NEW box, NEW up \in BOOLEAN, NEW gone, NEW calm \in BOOLEAN,
           NEW fresh \in BOOLEAN, fresh => up,
           NEW ch, NEW rw, NEW bt, NEW rg, NEW md, NEW item \in Int,
           Good(s, box, up, gone, calm, fresh, ch, rw, bt, rg, md),
           NEW box2, box2 = IF up THEN Append(box, ItemOf(item)) ELSE box,
           NEW rg2, rg2 = KeepLast(Append(rg, item), ServerCap)
    PROVE  Good(s, box2, up, gone, calm, fresh, ch, rw, bt, rg2, md)
<1>1. CASE up
  BY <1>1, GoodItem DEF ItemOf
<1>2. CASE ~up
  <2>1. ~fresh /\ box2 = box /\ Behind(s, box, up, gone, calm, ch, rw, bt)
    BY <1>2, GoodBehind
  <2> QED
    BY <2>1, BehindGood
<1> QED
  BY <1>1, <1>2

\* A task moves and its row, if it has one, is pushed.
RowSent(t, c, r, s, box, up, gone, calm, fresh, ch, rw, bt, rg, md) ==
    Good(s, IF up THEN box \o PushOf(r, t) ELSE box, up, gone, calm, fresh,
         [ch EXCEPT ![t] = c], [rw EXCEPT ![t] = r], bt, rg, md)

LEMMA SendsRow ==
    ASSUME NEW s, NEW box, NEW up \in BOOLEAN, NEW gone, NEW calm \in BOOLEAN,
           NEW fresh \in BOOLEAN, fresh => up,
           NEW ch, NEW rw, NEW bt, NEW rg, NEW md, Tables(ch, rw, bt), NEW t \in Tasks,
           NEW c, NEW r, Moves(t, c, r, ch, rw),
           Good(s, box, up, gone, calm, fresh, ch, rw, bt, rg, md)
    PROVE  RowSent(t, c, r, s, box, up, gone, calm, fresh, ch, rw, bt, rg, md)
<1>1. CASE up
  <2>1. Good(s, box \o PushOf(r, t), up, gone, calm, fresh,
             [ch EXCEPT ![t] = c], [rw EXCEPT ![t] = r], bt, rg, md)
    BY GoodPush
  <2> QED
    BY <1>1, <2>1 DEF RowSent
<1>2. CASE ~up
  <2>1. ~fresh /\ Behind(s, box, up, gone, calm, ch, rw, bt)
    BY <1>2, GoodBehind
  <2>2. Behind(s, box, up, gone, calm, [ch EXCEPT ![t] = c], [rw EXCEPT ![t] = r], bt)
    BY <2>1, MovesAlone
  <2>3. Good(s, box, up, gone, calm, fresh, [ch EXCEPT ![t] = c], [rw EXCEPT ![t] = r], bt, rg, md)
    BY <2>1, <2>2, BehindGood
  <2> QED
    BY <1>2, <2>3 DEF RowSent
<1> QED
  BY <1>1, <1>2

\* A line of a replay, after which nothing is promised.
LEMMA SendsReplay ==
    ASSUME NEW s, NEW box, NEW up, NEW gone, NEW calm \in BOOLEAN,
           NEW ch, NEW rw, NEW bt, NEW m \in Wire,
           Behind(s, box, up, gone, calm, ch, rw, bt)
    PROVE  Behind(s, Append(box, m), up, gone, FALSE, ch, rw, bt)
<1>1. PICK F : box \in Seq(Wire) /\ Stages(F, s, box, up, gone, calm, ch, rw, bt)
  BY DEF Behind
<1> DEFINE new == Reducer(F[Len(box)], m)
           more == gone \cup Ids(m)
<1>2. Stages(F, s, box, up, more, FALSE, ch, rw, bt)
  BY <1>1 DEF Stages
<1>3. new = Reducer(F[Len(box)], m) /\ more = gone \cup Ids(m)
  OBVIOUS
<1> HIDE DEF new, more
<1>4. Grown(new, m, s, box, up, gone, FALSE, ch, rw, bt)
  BY <1>1, <1>2, <1>3, StagesGrow
<1> QED
  BY <1>4 DEF Grown, Behind

\* A task settles: after its row, the verdict is sent.
LEMMA SendsVerdict ==
    ASSUME NEW s, NEW box, NEW up \in BOOLEAN, NEW gone, NEW calm \in BOOLEAN,
           NEW fresh \in BOOLEAN, NEW ch, NEW rw, NEW bt, NEW rg, NEW md, NEW t \in Tasks,
           NEW outcome \in {"Yes", "No"}, NEW score \in Int,
           rw[t] # NoRow => rw[t].state = "Settled" /\ rw[t].outcome = outcome,
           Good(s, box, up, gone, calm, fresh, ch, rw, bt, rg, md),
           NEW box2,
           box2 = IF up THEN Append(box, [type |-> "settled", task |-> t, outcome |-> outcome,
                                          score |-> score])
                  ELSE box
    PROVE  Good(s, box2, up, gone, calm, fresh, ch, rw, bt, rg, md)
<1>1. CASE up
  BY <1>1, GoodSettled
<1>2. CASE ~up
  BY <1>2
<1> QED
  BY <1>1, <1>2

\* A bet is placed: a client that is connected is told, one that is not misses it.
BetSent(t, bet, s, box, up, gone, calm, fresh, ch, rw, bt, rg, md) ==
    Good(s, IF up THEN Append(box, [type |-> "bet", task |-> t, bet |-> bet]) ELSE box, up,
         IF up THEN gone ELSE gone \cup {bet.id}, calm, fresh, ch, rw, bt, rg, md)

LEMMA SendsBet ==
    ASSUME NEW s, NEW box, NEW up \in BOOLEAN, NEW gone, NEW calm \in BOOLEAN,
           NEW fresh \in BOOLEAN, fresh => up, calm /\ up => fresh,
           NEW ch, NEW rw, NEW bt, NEW rg, NEW md, Tables(ch, rw, bt), NEW t \in Tasks, NEW bet,
           NEW ch2, NEW rw2, NEW bt2, BetTaken(t, bet, ch, rw, bt, ch2, rw2, bt2),
           gone \subseteq DOMAIN bt,
           Good(s, box, up, gone, calm, fresh, ch, rw, bt, rg, md)
    PROVE  BetSent(t, bet, s, box, up, gone, calm, fresh, ch2, rw2, bt2, rg, md)
<1>1. CASE up
  <2>1. calm => fresh
    BY <1>1
  <2>2. Good(s, Append(box, [type |-> "bet", task |-> t, bet |-> bet]), up, gone, calm, fresh,
             ch2, rw2, bt2, rg, md)
    BY <2>1, GoodBet
  <2> QED
    BY <1>1, <2>2 DEF BetSent
<1>2. CASE ~up
  <2>1. PICK F : box \in Seq(Wire) /\ Stages(F, s, box, up, gone, calm, ch, rw, bt)
    BY DEF Good
  <2>2. Follows(ch, rw, bt, ch2, rw2, bt2, {bet.id})
    BY BetMoves
  <2>3. Stages(F, s, box, up, gone \cup {bet.id}, calm, ch2, rw2, bt2)
    BY <2>1, <2>2, StagesMove
  <2>4. Behind(s, box, up, gone \cup {bet.id}, calm, ch2, rw2, bt2)
    BY <2>1, <2>3 DEF Behind
  <2>5. Good(s, box, up, gone \cup {bet.id}, calm, fresh, ch2, rw2, bt2, rg, md)
    BY <1>2, <2>4, BehindGood
  <2> QED
    BY <1>2, <2>5 DEF BetSent
<1> QED
  BY <1>1, <1>2

-----------------------------------------------------------------------------
(* What each handler does to a task and its row is a move. *)

RowStep(t, c, r) ==
    /\ Moves(t, c, r, chain, rows)
    /\ chain' = [chain EXCEPT ![t] = c] /\ rows' = [rows EXCEPT ![t] = r]

\* The change of a row that a handler writes keeps its price, once bets are taken.
LEMMA UpdateMoves ==
    ASSUME ServerShape, NEW t \in Tasks, NEW c, c \in ChainTask, c.state \notin {"none", "Created"},
           chain[t].state # "none", NEW row,
           rows[t] # NoRow => /\ row \in TaskRow
                              /\ PBps(row) = PBps(rows[t]) \/ chain[t].state = "Created",
           chain' = [chain EXCEPT ![t] = c], Update(t, row)
    PROVE  \E r : RowStep(t, c, r)
<1> DEFINE r == IF rows[t] = NoRow THEN NoRow ELSE row
<1>1. rows \in [Tasks -> TaskRow \cup {NoRow}]
  BY DEF ServerShape, Tables
<1>2. rows' = [rows EXCEPT ![t] = r]
  <2>1. CASE rows[t] = NoRow
    <3>1. rows = [rows EXCEPT ![t] = rows[t]]
      <4> HIDE DEF TaskRow, NoRow
      <4> QED
        BY <1>1
    <3> QED
      BY <2>1, <3>1 DEF Update
  <2>2. CASE rows[t] # NoRow
    BY <2>2 DEF Update
  <2> QED
    BY <2>1, <2>2
<1>3. NoRow \notin TaskRow
  BY DEF NoRow, TaskRow
<1>4. Moves(t, c, r, chain, rows)
  <2> HIDE DEF TaskRow, NoRow, ChainTask
  <2> QED
    BY <1>3 DEF Moves
<1> QED
  BY <1>2, <1>4 DEF RowStep

\* Only a task that is there has a row.
LEMMA TaskOf ==
    ASSUME ServerShape, NEW t \in Tasks
    PROVE  /\ chain[t] \in ChainTask /\ rows[t] \in TaskRow \cup {NoRow}
           /\ chain[t].state = "none" => rows[t] = NoRow
BY DEF ServerShape, Tables

LEMMA SamePools ==
    ASSUME NEW row \in TaskRow, NEW row2, row2.yes = row.yes, row2.no = row.no
    PROVE  PBps(row2) = PBps(row)
BY DEF PBps

LEMMA CreatesMoves ==
    ASSUME ServerShape, NEW t \in Tasks, Creates(t)
    PROVE  \E c, r : RowStep(t, c, r)
<1> DEFINE c == In("Created", chain[t])
           r == [state |-> "Created", yes |-> 0, no |-> 0, outcome |-> "-", score |-> -1]
<1>1. /\ chain[t].state = "none" /\ chain' = [chain EXCEPT ![t] = c]
      /\ rows' = [rows EXCEPT ![t] = r]
  BY DEF Creates, ChainMoves
<1>2. c \in ChainTask /\ c.state = "Created"
  BY TaskOf DEF ChainTask, In
<1>3. r \in TaskRow /\ r.yes = 0 /\ r.no = 0 /\ r # NoRow
  BY DEF TaskRow, NoRow
<1>4. rows[t] = NoRow
  BY <1>1, TaskOf
<1> HIDE DEF c, r
<1>5. Moves(t, c, r, chain, rows)
  <2> HIDE DEF TaskRow, NoRow, ChainTask
  <2> QED
    BY <1>1, <1>2, <1>3, <1>4 DEF Moves
<1> QED
  BY <1>1, <1>5 DEF RowStep

LEMMA AdvancesMoves ==
    ASSUME ServerShape, NEW t \in Tasks,
           Accepts(t) \/ Starts(t) \/ Delivers(t) \/ Cancels(t)
    PROVE  \E c, r : RowStep(t, c, r)
<1>1. CASE Accepts(t)
  <2> DEFINE c == Opened(chain[t])
             row == Opened(rows[t])
  <2>1. chain[t].state = "Created" /\ chain' = [chain EXCEPT ![t] = c] /\ Update(t, row)
    BY <1>1 DEF Accepts, Advances, ChainMoves
  <2>2. c \in ChainTask /\ c.state = "Open"
    BY TaskOf, FeedAssumption DEF ChainTask, Opened
  <2>3. rows[t] # NoRow => row \in TaskRow
    BY TaskOf, FeedAssumption DEF TaskRow, Opened
  <2> HIDE DEF c, row
  <2> QED
    BY <2>1, <2>2, <2>3, UpdateMoves
<1>2. CASE Delivers(t)
  <2> DEFINE c == In("Delivered", chain[t])
             row == In("Delivered", rows[t])
  <2>1. chain[t].state = "Executing" /\ chain' = [chain EXCEPT ![t] = c] /\ Update(t, row)
    BY <1>2 DEF Delivers, Advances, ChainMoves
  <2>2. c \in ChainTask /\ c.state = "Delivered"
    BY TaskOf DEF ChainTask, In
  <2>3. rows[t] # NoRow => row \in TaskRow /\ PBps(row) = PBps(rows[t])
    <3>1. rows[t] # NoRow => row \in TaskRow /\ row.yes = rows[t].yes /\ row.no = rows[t].no
      BY TaskOf DEF TaskRow, In
    <3> HIDE DEF row
    <3> QED
      BY <3>1, TaskOf, SamePools
  <2> HIDE DEF c, row
  <2> QED
    BY <2>1, <2>2, <2>3, UpdateMoves
<1>3. CASE Cancels(t)
  <2> DEFINE c == In("Cancelled", chain[t])
             row == In("Cancelled", rows[t])
  <2>1. chain[t].state = "Created" /\ chain' = [chain EXCEPT ![t] = c] /\ Update(t, row)
    BY <1>3 DEF Cancels, Becomes, ChainMoves
  <2>2. c \in ChainTask /\ c.state = "Cancelled"
    BY TaskOf DEF ChainTask, In
  <2>3. rows[t] # NoRow => row \in TaskRow
    BY TaskOf DEF TaskRow, In
  <2> HIDE DEF c, row
  <2> QED
    BY <2>1, <2>2, <2>3, UpdateMoves
<1>4. CASE Starts(t)
  <2> DEFINE c == In("Executing", chain[t])
             row == In("Executing", rows[t])
  <2>1. chain[t].state = "Open" /\ chain' = [chain EXCEPT ![t] = c] /\ Update(t, row)
    BY <1>4 DEF Starts, Becomes, ChainMoves
  <2>2. c \in ChainTask /\ c.state = "Executing"
    BY TaskOf DEF ChainTask, In
  <2>3. rows[t] # NoRow => row \in TaskRow /\ PBps(row) = PBps(rows[t])
    <3>1. rows[t] # NoRow => row \in TaskRow /\ row.yes = rows[t].yes /\ row.no = rows[t].no
      BY TaskOf DEF TaskRow, In
    <3> HIDE DEF row
    <3> QED
      BY <3>1, TaskOf, SamePools
  <2> HIDE DEF c, row
  <2> QED
    BY <2>1, <2>2, <2>3, UpdateMoves
<1> QED
  BY <1>1, <1>2, <1>3, <1>4

LEMMA SettlesMoves ==
    ASSUME ServerShape, NEW t \in Tasks, NEW verdict \in Verdicts,
           ChainMoves(t, {"Open", "Delivered"}, In("Settled", chain[t])),
           Update(t, Judged(verdict, rows[t]))
    PROVE  /\ verdict.outcome \in {"Yes", "No"} /\ verdict.score \in Int
           /\ rows'[t] # NoRow => rows'[t].state = "Settled" /\ rows'[t].outcome = verdict.outcome
           /\ \E c, r : RowStep(t, c, r)
<1> DEFINE c == In("Settled", chain[t])
           row == Judged(verdict, rows[t])
<1>1. verdict.outcome \in {"Yes", "No"} /\ verdict.score \in Int
  BY FeedAssumption
<1>2. chain[t].state \in {"Open", "Delivered"} /\ chain' = [chain EXCEPT ![t] = c]
  BY DEF ChainMoves
<1>3. c \in ChainTask /\ c.state = "Settled"
  BY TaskOf DEF ChainTask, In
<1>4. rows[t] # NoRow => /\ row \in TaskRow /\ row.state = "Settled" /\ row.outcome = verdict.outcome
                         /\ row.yes = rows[t].yes /\ row.no = rows[t].no
  BY <1>1, TaskOf DEF TaskRow, Judged
<1>5. Update(t, row)
  OBVIOUS
<1> HIDE DEF c, row
<1>6. rows[t] # NoRow => row \in TaskRow /\ PBps(row) = PBps(rows[t])
  BY <1>4, TaskOf, SamePools
<1>7. \E r : RowStep(t, c, r)
  BY <1>2, <1>3, <1>5, <1>6, UpdateMoves
<1>8. rows'[t] = IF rows[t] = NoRow THEN NoRow ELSE row
  BY <1>5 DEF Update, ServerShape, Tables
<1> QED
  BY <1>1, <1>4, <1>7, <1>8

LEMMA PoolsTyped ==
    ASSUME NEW t \in Tasks, chain[t] \in ChainTask, NEW side
    PROVE  PoolsAfter(t, side).yes \in Nat /\ PoolsAfter(t, side).no \in Nat
<1>1. chain[t].yes \in Nat /\ chain[t].no \in Nat /\ BetSize \in Nat
  BY FeedAssumption DEF ChainTask
<1> QED
  BY <1>1 DEF PoolsAfter

\* What is not broadcast alone: a handler that fails, a validator's answer.
LEMMA UnseenMoves ==
    ASSUME ServerShape, NEW t \in Tasks, HandlerFails(t) \/ Answers(t)
    PROVE  \E c, r : RowStep(t, c, r) /\ ShownAlike(r, rows[t])
<1>0. /\ chain \in [Tasks -> ChainTask] /\ rows \in [Tasks -> TaskRow \cup {NoRow}]
      /\ chain[t] \in ChainTask
  BY DEF ServerShape, Tables
<1>1. CASE HandlerFails(t)
  <2> DEFINE Moved(c) == /\ c \in ChainTask /\ c.state # "none"
                         /\ c.state = "Created" => chain[t].state = "none"
                         /\ chain' = [chain EXCEPT ![t] = c]
  <2>1. \E c : Moved(c)
    <3>1. CASE ChainMoves(t, {"none"}, In("Created", chain[t]))
      <4>1. Moved(In("Created", chain[t]))
        BY <1>0, <3>1 DEF ChainMoves, ChainTask, In
      <4> QED
        BY <4>1
    <3>2. CASE ChainMoves(t, {"Created"}, Opened(chain[t]))
      <4>1. Moved(Opened(chain[t]))
        BY <1>0, <3>2, FeedAssumption DEF ChainMoves, ChainTask, Opened
      <4> QED
        BY <4>1
    <3>3. CASE ChainMoves(t, {"Open", "Delivered"}, In("Settled", chain[t]))
      <4>1. Moved(In("Settled", chain[t]))
        BY <1>0, <3>3 DEF ChainMoves, ChainTask, In
      <4> QED
        BY <4>1
    <3>4. ASSUME NEW side \in {"Yes", "No"},
                 ChainMoves(t, {"Open"}, WithPools(PoolsAfter(t, side), chain[t]))
          PROVE  \E c : Moved(c)
      <4> DEFINE pools == PoolsAfter(t, side)
                 c == WithPools(pools, chain[t])
      <4>2. pools.yes \in Nat /\ pools.no \in Nat
        BY <1>0, PoolsTyped
      <4> HIDE DEF pools
      <4>3. c \in ChainTask /\ c.state = chain[t].state
        BY <1>0, <4>2 DEF WithPools, ChainTask
      <4>4. chain[t].state = "Open" /\ chain' = [chain EXCEPT ![t] = c]
        BY <3>4 DEF ChainMoves, pools
      <4>1. Moved(c)
        BY <4>3, <4>4
      <4> QED
        BY <4>1
    <3>5. CASE ChainMoves(t, {"Open"}, In("Executing", chain[t]))
      <4>1. Moved(In("Executing", chain[t]))
        BY <1>0, <3>5 DEF ChainMoves, ChainTask, In
      <4> QED
        BY <4>1
    <3>6. CASE ChainMoves(t, {"Executing"}, In("Delivered", chain[t]))
      <4>1. Moved(In("Delivered", chain[t]))
        BY <1>0, <3>6 DEF ChainMoves, ChainTask, In
      <4> QED
        BY <4>1
    <3> HIDE DEF Moved
    <3> QED
      BY <1>1, <3>1, <3>2, <3>3, <3>4, <3>5, <3>6 DEF HandlerFails
  <2>2. PICK c : Moved(c)
    BY <2>1
  <2>3. rows' = rows
    BY <1>1 DEF HandlerFails, serverVars
  <2>4. rows = [rows EXCEPT ![t] = rows[t]]
    <3> HIDE DEF TaskRow, NoRow
    <3> QED
      BY <1>0
  <2>5. Moves(t, c, rows[t], chain, rows)
    <3> HIDE DEF TaskRow, NoRow, ChainTask
    <3> QED
      BY <1>0, <2>2, TaskOf DEF Moves
  <2>6. RowStep(t, c, rows[t]) /\ ShownAlike(rows[t], rows[t])
    BY <2>2, <2>3, <2>4, <2>5 DEF RowStep, ShownAlike
  <2> QED
    BY <2>6
<1>2. CASE Answers(t)
  <2>1. PICK verdict \in Verdicts : Update(t, [rows[t] EXCEPT !.score = verdict.score])
    BY <1>2 DEF Answers
  <2> DEFINE row == [rows[t] EXCEPT !.score = verdict.score]
             r == IF rows[t] = NoRow THEN NoRow ELSE row
  <2>2. chain[t].state = "Delivered" /\ chain' = chain
    BY <1>2 DEF Answers
  <2>3. chain = [chain EXCEPT ![t] = chain[t]]
    <3> HIDE DEF ChainTask
    <3> QED
      BY <1>0
  <2>4. verdict.score \in Int
    BY FeedAssumption
  <2>5. rows[t] # NoRow => /\ row \in TaskRow /\ row.state = rows[t].state
                           /\ row.outcome = rows[t].outcome
                           /\ row.yes = rows[t].yes /\ row.no = rows[t].no
    BY <1>0, <2>4 DEF TaskRow
  <2>6. Update(t, row)
    BY <2>1
  <2> HIDE DEF row
  <2>7. rows[t] # NoRow => row # NoRow
    <3>1. NoRow \notin TaskRow
      BY DEF NoRow, TaskRow
    <3> QED
      BY <2>5, <3>1
  <2>8. rows' = [rows EXCEPT ![t] = r]
    <3>1. rows = [rows EXCEPT ![t] = rows[t]]
      <4> HIDE DEF TaskRow, NoRow
      <4> QED
        BY <1>0
    <3> QED
      BY <2>6, <3>1 DEF Update
  <2>9. r # NoRow => PBps(r) = PBps(rows[t])
    BY <1>0, <2>5, SamePools
  <2>10. Moves(t, chain[t], r, chain, rows)
    <3> HIDE DEF TaskRow, NoRow, ChainTask
    <3> QED
      BY <1>0, <2>2, <2>5, <2>7, <2>9 DEF Moves
  <2>11. ShownAlike(r, rows[t])
    BY <2>5, <2>7 DEF ShownAlike
  <2> HIDE DEF r
  <2>12. RowStep(t, chain[t], r)
    BY <2>2, <2>3, <2>8, <2>10 DEF RowStep
  <2> QED
    BY <2>11, <2>12
<1> QED
  BY <1>1, <1>2

\* A bet that BetPlaced brings.
LEMMA PlacesTaken ==
    ASSUME ServerShape, NEW t \in Tasks, NEW side \in {"Yes", "No"}, NEW bet,
           bet = [id |-> Len(bets) + 1, task |-> t, amount |-> BetSize,
                  yes |-> PoolsAfter(t, side).yes, no |-> PoolsAfter(t, side).no,
                  pBps |-> PBps(PoolsAfter(t, side))],
           ChainMoves(t, {"Open"}, WithPools(PoolsAfter(t, side), chain[t])),
           Update(t, WithPools(PoolsAfter(t, side), rows[t])), bets' = Append(bets, bet)
    PROVE  BetTaken(t, bet, chain, rows, bets, chain', rows', bets')
<1> DEFINE pools == PoolsAfter(t, side)
           c == WithPools(pools, chain[t])
<1>1. pools.yes \in Nat /\ pools.no \in Nat /\ chain[t] \in ChainTask
  BY TaskOf, PoolsTyped
<1>2. chain[t].state = "Open" /\ chain' = [chain EXCEPT ![t] = c]
  BY DEF ChainMoves
<1>3. Update(t, WithPools(pools, rows[t]))
  OBVIOUS
<1>4. bet = [id |-> Len(bets) + 1, task |-> t, amount |-> BetSize,
             yes |-> pools.yes, no |-> pools.no, pBps |-> PBps(pools)]
  OBVIOUS
<1> HIDE DEF pools
<1>5. c \in ChainTask /\ c.state = "Open"
  BY <1>1, <1>2 DEF WithPools, ChainTask
<1>6. Len(bets) \in Nat
  BY LenProperties DEF ServerShape, Tables
<1>7. PBps(pools) \in Int /\ PBps(bet) = PBps(pools)
  <2>1. bet.yes = pools.yes /\ bet.no = pools.no
    BY <1>4
  <2> QED
    BY <1>1, <2>1, PBpsInt DEF PBps
<1>8. /\ bet \in BetRow /\ bet.id = Len(bets) + 1 /\ bet.task = t /\ bet.pBps = PBps(bet)
      /\ bet.yes = pools.yes /\ bet.no = pools.no
  BY <1>1, <1>4, <1>6, <1>7, FeedAssumption DEF BetRow
<1>9. rows \in [Tasks -> TaskRow \cup {NoRow}]
  BY DEF ServerShape, Tables
<1>10. BetRows(t, bet, rows, rows')
  <2>1. CASE rows[t] = NoRow
    <3>1. rows = [rows EXCEPT ![t] = rows[t]]
      <4> HIDE DEF TaskRow, NoRow
      <4> QED
        BY <1>9
    <3> QED
      BY <1>3, <1>9, <2>1, <3>1 DEF Update, BetRows
  <2>2. CASE rows[t] # NoRow
    <3>1. WithPools(pools, rows[t]) = [rows[t] EXCEPT !.yes = bet.yes, !.no = bet.no]
      BY <1>8 DEF WithPools
    <3> QED
      BY <1>3, <1>9, <2>2, <3>1 DEF Update, BetRows
  <2> QED
    BY <2>1, <2>2
<1> HIDE DEF c
<1> QED
  BY <1>2, <1>5, <1>8, <1>10 DEF BetTaken

-----------------------------------------------------------------------------
(* The handlers keep the invariant. *)

LEMMA ItemPushed ==
    ASSUME ServerShape, PushItem
    PROVE  /\ items + 1 \in Int /\ items' \in Nat /\ Item = ItemOf(items + 1) /\ Item \in Wire
           /\ ring' = KeepLast(Append(ring, items + 1), ServerCap)
           /\ ring' \in Seq(Int) /\ Len(ring') <= ServerCap
<1>1. items \in Nat /\ ring \in Seq(Int) /\ ServerCap \in Nat
  BY CapIsPositive DEF ServerShape
<1>2. items + 1 \in Int /\ items' \in Nat /\ ring' = KeepLast(Append(ring, items + 1), ServerCap)
  BY <1>1 DEF PushItem
<1>3. Append(ring, items + 1) \in Seq(Int)
  BY <1>1, <1>2, AppendProperties
<1>4. Item = ItemOf(items + 1)
  BY DEF Item, ItemOf
<1> QED
  BY <1>1, <1>2, <1>3, <1>4, KeepLastShape, ItemOnWire

\* The client's part of the invariant, with the conditions as values.
LEMMA FedIsGood ==
    ASSUME FeedInv, ~mock
    PROVE  \E calm, fresh \in BOOLEAN :
              /\ calm = (replays = 0) /\ fresh = (open /\ ~tainted)
              /\ fresh => open
              /\ calm /\ open => fresh
              /\ Good(store, inbox, open, away, calm, fresh, chain, rows, bets, ring, mode)
<1> DEFINE calm == replays = 0
           fresh == open /\ ~tainted
<1>1. Good(store, inbox, open, away, calm, fresh, chain, rows, bets, ring, mode)
  BY DEF FeedInv, Fed
<1>2. /\ calm \in BOOLEAN /\ fresh \in BOOLEAN /\ (fresh => open) /\ (calm /\ open => fresh)
      /\ calm = (replays = 0) /\ fresh = (open /\ ~tainted)
  BY DEF FeedInv, ServerShape
<1> HIDE DEF calm, fresh
<1> QED
  BY <1>1, <1>2

\* What a handler leaves alone, and the tables it may move.
LEMMA HandlerKeeps ==
    ASSUME FeedInv, ~mock, UNCHANGED mockVars, HandlerFrame,
           Tables(chain', rows', bets'), ring' \in Seq(Int), Len(ring') <= ServerCap,
           items' \in Nat, away' \subseteq DOMAIN bets', ~open => inbox' = inbox,
           NEW calm \in BOOLEAN, NEW fresh \in BOOLEAN,
           calm = (replays = 0), fresh = (open /\ ~tainted),
           Good(store, inbox', open, away', calm, fresh, chain', rows', bets', ring', mode)
    PROVE  FeedInv'
<1>1. ServerShape'
  <2>1. inbox' \in Seq(Wire)
    BY DEF Good
  <2> QED
    BY <2>1 DEF FeedInv, ServerShape, HandlerFrame, mockVars
<1>2. Fed'
  <2>1. /\ open' = open /\ replays' = replays /\ tainted' = tainted /\ mode' = mode
        /\ store' = store
    BY DEF HandlerFrame
  <2> QED
    BY <2>1 DEF Fed
<1> QED
  BY <1>1, <1>2 DEF FeedInv, mockVars

LEMMA PushTaskIs ==
    ASSUME ServerShape, NEW t \in Tasks, NEW c, NEW r, RowStep(t, c, r)
    PROVE  /\ PushTask(t) = PushOf(r, t) /\ PushTask(t) \in Seq(Wire)
           /\ Tables(chain', rows', bets) /\ Moves(t, c, r, chain, rows)
<1>1. rows'[t] = r /\ r \in TaskRow \cup {NoRow}
  BY DEF ServerShape, Tables, RowStep, Moves
<1>2. PushTask(t) = PushOf(r, t)
  BY <1>1 DEF PushTask, PushOf
<1>3. Tables(chain', rows', bets)
  BY MoveTables DEF ServerShape, RowStep
<1> QED
  BY <1>1, <1>2, <1>3, PushOfWire DEF RowStep

\* A line for the feed, then the row.
LEMMA RowItemKeeps ==
    ASSUME FeedInv, ~mock, UNCHANGED mockVars, NEW t \in Tasks, NEW c, NEW r, RowStep(t, c, r),
           PushItem, Broadcast(<<Item>> \o PushTask(t)), UNCHANGED <<bets, away>>, HandlerFrame
    PROVE  FeedInv'
<1>0. ServerShape /\ open \in BOOLEAN /\ inbox \in Seq(Wire) /\ Tables(chain, rows, bets)
  BY DEF FeedInv, ServerShape
<1>1. PICK calm \in BOOLEAN, fresh \in BOOLEAN :
         /\ calm = (replays = 0) /\ fresh = (open /\ ~tainted) /\ (fresh => open)
         /\ Good(store, inbox, open, away, calm, fresh, chain, rows, bets, ring, mode)
  BY FedIsGood
<1>2. /\ items + 1 \in Int /\ items' \in Nat /\ Item = ItemOf(items + 1) /\ Item \in Wire
      /\ ring' = KeepLast(Append(ring, items + 1), ServerCap)
      /\ ring' \in Seq(Int) /\ Len(ring') <= ServerCap
  BY <1>0, ItemPushed
<1>3. /\ PushTask(t) = PushOf(r, t) /\ PushTask(t) \in Seq(Wire)
      /\ Tables(chain', rows', bets) /\ Moves(t, c, r, chain, rows)
  BY <1>0, PushTaskIs
<1> DEFINE box == IF open THEN Append(inbox, Item) ELSE inbox
<1>4. Good(store, box, open, away, calm, fresh, chain, rows, bets, ring', mode)
  BY <1>0, <1>1, <1>2, SendsItem
<1>5. inbox' = IF open THEN box \o PushOf(r, t) ELSE box
  BY <1>0, <1>2, <1>3, FirstThenRest DEF Broadcast
<1> HIDE DEF box
<1>6. Good(store, inbox', open, away, calm, fresh, [chain EXCEPT ![t] = c], [rows EXCEPT ![t] = r],
           bets, ring', mode)
  <2>1. open \in BOOLEAN /\ Tables(chain, rows, bets)
    BY <1>0
  <2>2. fresh => open
    BY <1>1
  <2>3. Moves(t, c, r, chain, rows)
    BY <1>3
  <2>4. RowSent(t, c, r, store, box, open, away, calm, fresh, chain, rows, bets, ring', mode)
    BY <1>4, <2>1, <2>2, <2>3, SendsRow
  <2> QED
    BY <1>5, <2>4 DEF RowSent
<1>7. /\ bets' = bets /\ away' = away /\ chain' = [chain EXCEPT ![t] = c]
      /\ rows' = [rows EXCEPT ![t] = r] /\ away \subseteq DOMAIN bets
      /\ ~open => inbox' = inbox
  BY DEF RowStep, FeedInv, ServerShape, Broadcast
<1> QED
  BY <1>1, <1>2, <1>3, <1>6, <1>7, HandlerKeeps

\* The row alone.
LEMMA RowKeeps ==
    ASSUME FeedInv, ~mock, UNCHANGED mockVars, NEW t \in Tasks, NEW c, NEW r, RowStep(t, c, r),
           Broadcast(PushTask(t)), UNCHANGED <<bets, ring, items, away>>, HandlerFrame
    PROVE  FeedInv'
<1>0. /\ ServerShape /\ open \in BOOLEAN /\ Tables(chain, rows, bets)
      /\ ring \in Seq(Int) /\ Len(ring) <= ServerCap /\ items \in Nat /\ away \subseteq DOMAIN bets
  BY DEF FeedInv, ServerShape
<1>1. PICK calm \in BOOLEAN, fresh \in BOOLEAN :
         /\ calm = (replays = 0) /\ fresh = (open /\ ~tainted) /\ (fresh => open)
         /\ Good(store, inbox, open, away, calm, fresh, chain, rows, bets, ring, mode)
  BY FedIsGood
<1>2. /\ PushTask(t) = PushOf(r, t) /\ Tables(chain', rows', bets)
      /\ Moves(t, c, r, chain, rows)
  BY <1>0, PushTaskIs
<1>3. Good(store, inbox', open, away, calm, fresh, [chain EXCEPT ![t] = c], [rows EXCEPT ![t] = r],
           bets, ring, mode)
  <2>1. open \in BOOLEAN /\ Tables(chain, rows, bets)
    BY <1>0
  <2>2. /\ fresh => open
        /\ Good(store, inbox, open, away, calm, fresh, chain, rows, bets, ring, mode)
    BY <1>1
  <2>3. Moves(t, c, r, chain, rows)
    BY <1>2
  <2>4. RowSent(t, c, r, store, inbox, open, away, calm, fresh, chain, rows, bets, ring, mode)
    BY <2>1, <2>2, <2>3, SendsRow
  <2>5. inbox' = IF open THEN inbox \o PushOf(r, t) ELSE inbox
    BY <1>2 DEF Broadcast
  <2> QED
    BY <2>4, <2>5 DEF RowSent
<1>4. /\ bets' = bets /\ away' = away /\ ring' = ring /\ items' = items
      /\ chain' = [chain EXCEPT ![t] = c] /\ rows' = [rows EXCEPT ![t] = r]
      /\ ~open => inbox' = inbox
  BY DEF RowStep, Broadcast
<1> QED
  BY <1>0, <1>1, <1>2, <1>3, <1>4, HandlerKeeps

\* A line for the feed, the row, then the verdict.
LEMMA SettlesKeeps ==
    ASSUME FeedInv, ~mock, UNCHANGED mockVars, NEW t \in Tasks, Settles(t)
    PROVE  FeedInv'
<1>0. /\ ServerShape /\ open \in BOOLEAN /\ inbox \in Seq(Wire) /\ Tables(chain, rows, bets)
      /\ away \subseteq DOMAIN bets
  BY DEF FeedInv, ServerShape
<1>v. PICK verdict \in Verdicts :
        /\ ChainMoves(t, {"Open", "Delivered"}, In("Settled", chain[t]))
        /\ Update(t, Judged(verdict, rows[t]))
        /\ PushItem
        /\ Broadcast(<<Item>> \o PushTask(t) \o
                     <<[type |-> "settled", task |-> t, outcome |-> verdict.outcome,
                        score |-> verdict.score]>>)
        /\ UNCHANGED <<bets, away>> /\ HandlerFrame
  BY DEF Settles
<1>s. /\ verdict.outcome \in {"Yes", "No"} /\ verdict.score \in Int
      /\ rows'[t] # NoRow => rows'[t].state = "Settled" /\ rows'[t].outcome = verdict.outcome
      /\ \E c, r : RowStep(t, c, r)
  BY <1>0, <1>v, SettlesMoves
<1>r. PICK c, r : RowStep(t, c, r)
  BY <1>s
<1> DEFINE m == [type |-> "settled", task |-> t, outcome |-> verdict.outcome, score |-> verdict.score]
<1>1. PICK calm \in BOOLEAN, fresh \in BOOLEAN :
         /\ calm = (replays = 0) /\ fresh = (open /\ ~tainted) /\ (fresh => open)
         /\ Good(store, inbox, open, away, calm, fresh, chain, rows, bets, ring, mode)
  BY FedIsGood
<1>2. /\ items + 1 \in Int /\ items' \in Nat /\ Item = ItemOf(items + 1) /\ Item \in Wire
      /\ ring' = KeepLast(Append(ring, items + 1), ServerCap)
      /\ ring' \in Seq(Int) /\ Len(ring') <= ServerCap
  BY <1>0, <1>v, ItemPushed
<1>3. /\ PushTask(t) = PushOf(r, t) /\ PushTask(t) \in Seq(Wire)
      /\ Tables(chain', rows', bets) /\ Moves(t, c, r, chain, rows)
  BY <1>0, <1>r, PushTaskIs
<1> DEFINE box == IF open THEN Append(inbox, Item) ELSE inbox
           box2 == IF open THEN box \o PushOf(r, t) ELSE box
<1>4. Good(store, box, open, away, calm, fresh, chain, rows, bets, ring', mode)
  BY <1>0, <1>1, <1>2, SendsItem
<1>5. Good(store, box2, open, away, calm, fresh, chain', rows', bets, ring', mode)
  <2> HIDE DEF box
  <2>1. open \in BOOLEAN /\ Tables(chain, rows, bets)
    BY <1>0
  <2>2. fresh => open
    BY <1>1
  <2>3. Moves(t, c, r, chain, rows)
    BY <1>3
  <2>4. RowSent(t, c, r, store, box, open, away, calm, fresh, chain, rows, bets, ring', mode)
    BY <1>4, <2>1, <2>2, <2>3, SendsRow
  <2> QED
    BY <1>r, <2>4 DEF RowSent, RowStep
<1>6. inbox' = IF open THEN Append(box2, m) ELSE box2
  <2>1. m \in Wire
    BY <1>s DEF Wire, WsMessage
  <2>2. PushOf(r, t) \in Seq(Wire) /\ <<Item>> \in Seq(Wire) /\ <<Item>> \o PushOf(r, t) \in Seq(Wire)
    BY <1>2, <1>3, ConcatProperties
  <2> HIDE DEF m
  <2>3. inbox \o ((<<Item>> \o PushOf(r, t)) \o <<m>>) = Append(inbox \o (<<Item>> \o PushOf(r, t)), m)
    BY <1>0, <2>1, <2>2, RestThenLast
  <2>4. inbox \o (<<Item>> \o PushOf(r, t)) = Append(inbox, Item) \o PushOf(r, t)
    BY <1>0, <1>2, <2>2, FirstThenRest
  <2>5. inbox' = IF open THEN inbox \o ((<<Item>> \o PushOf(r, t)) \o <<m>>) ELSE inbox
    BY <1>3, <1>v DEF Broadcast, m
  <2> QED
    BY <2>3, <2>4, <2>5
<1> HIDE DEF box, box2
<1>7. Good(store, inbox', open, away, calm, fresh, chain', rows', bets, ring', mode)
  <2>1. inbox' = IF open THEN Append(box2, [type |-> "settled", task |-> t, outcome |-> verdict.outcome,
                                            score |-> verdict.score])
                 ELSE box2
    BY <1>6
  <2> HIDE DEF m
  <2> QED
    BY <1>0, <1>s, <1>5, <2>1, SendsVerdict
<1>8. bets' = bets /\ away' = away /\ (~open => inbox' = inbox) /\ HandlerFrame
  BY <1>v DEF Broadcast
<1>9. /\ Tables(chain', rows', bets') /\ away' \subseteq DOMAIN bets'
      /\ Good(store, inbox', open, away', calm, fresh, chain', rows', bets', ring', mode)
  BY <1>0, <1>3, <1>7, <1>8
<1> QED
  BY <1>1, <1>2, <1>8, <1>9, HandlerKeeps

\* A line for the feed, then the bet.
LEMMA BetKeeps ==
    ASSUME FeedInv, ~mock, UNCHANGED mockVars, NEW t \in Tasks, PlacesBet(t)
    PROVE  FeedInv'
<1>0. /\ ServerShape /\ open \in BOOLEAN /\ inbox \in Seq(Wire) /\ Tables(chain, rows, bets)
      /\ away \subseteq DOMAIN bets
  BY DEF FeedInv, ServerShape
<1>v. PICK side \in {"Yes", "No"} :
        LET pools == PoolsAfter(t, side)
            bet == [id |-> Len(bets) + 1, task |-> t, amount |-> BetSize,
                    yes |-> pools.yes, no |-> pools.no, pBps |-> PBps(pools)]
        IN  /\ ChainMoves(t, {"Open"}, WithPools(pools, chain[t]))
            /\ Update(t, WithPools(pools, rows[t]))
            /\ bets' = Append(bets, bet)
            /\ away' = IF open THEN away ELSE away \cup {bet.id}
            /\ PushItem /\ Broadcast(<<Item, [type |-> "bet", task |-> t, bet |-> bet]>>)
            /\ HandlerFrame
  BY DEF PlacesBet
<1> DEFINE bet == [id |-> Len(bets) + 1, task |-> t, amount |-> BetSize,
                   yes |-> PoolsAfter(t, side).yes, no |-> PoolsAfter(t, side).no,
                   pBps |-> PBps(PoolsAfter(t, side))]
           m == [type |-> "bet", task |-> t, bet |-> bet]
           box == IF open THEN Append(inbox, Item) ELSE inbox
<1>a. /\ away' = (IF open THEN away ELSE away \cup {bet.id}) /\ PushItem
      /\ Broadcast(<<Item, m>>) /\ HandlerFrame
  BY <1>v
<1>b. BetTaken(t, bet, chain, rows, bets, chain', rows', bets')
  BY <1>0, <1>v, PlacesTaken
<1> HIDE DEF bet
<1>1. PICK calm \in BOOLEAN, fresh \in BOOLEAN :
         /\ calm = (replays = 0) /\ fresh = (open /\ ~tainted) /\ (fresh => open)
         /\ (calm /\ open => fresh)
         /\ Good(store, inbox, open, away, calm, fresh, chain, rows, bets, ring, mode)
  BY FedIsGood
<1>2. /\ items + 1 \in Int /\ items' \in Nat /\ Item = ItemOf(items + 1) /\ Item \in Wire
      /\ ring' = KeepLast(Append(ring, items + 1), ServerCap)
      /\ ring' \in Seq(Int) /\ Len(ring') <= ServerCap
  BY <1>0, <1>a, ItemPushed
<1>3. Good(store, box, open, away, calm, fresh, chain, rows, bets, ring', mode)
  BY <1>0, <1>1, <1>2, SendsItem
<1>4. inbox' = IF open THEN Append(box, m) ELSE box
  <2>1. m \in Wire
    <3>1. bet \in BetRow
      BY <1>b DEF BetTaken
    <3> QED
      BY <3>1 DEF Wire, WsMessage
  <2> HIDE DEF m
  <2>2. inbox \o <<Item, m>> = Append(Append(inbox, Item), m)
    BY <1>0, <1>2, <2>1, OneThenAnother
  <2> QED
    BY <1>a, <2>2 DEF Broadcast
<1> HIDE DEF box
<1>5. Good(store, inbox', open, away', calm, fresh, chain', rows', bets', ring', mode)
  <2>1. (fresh => open) /\ (calm /\ open => fresh)
    BY <1>1
  <2>2. BetSent(t, bet, store, box, open, away, calm, fresh, chain', rows', bets', ring', mode)
    BY <1>0, <1>3, <1>b, <2>1, SendsBet
  <2> QED
    BY <1>4, <1>a, <2>2 DEF BetSent
<1>6. /\ LastBet(t, bet, chain', rows', bets')
      /\ DOMAIN bets' = DOMAIN bets \cup {bet.id} /\ bet.id \notin DOMAIN bets
      /\ rows'[t] # NoRow => rows[t] # NoRow
      /\ Follows(chain, rows, bets, chain', rows', bets', {bet.id})
  BY <1>0, <1>b, BetMoves
<1>7. Tables(chain', rows', bets') /\ away' \subseteq DOMAIN bets' /\ (~open => inbox' = inbox)
  BY <1>0, <1>6, <1>a DEF LastBet, Broadcast
<1> QED
  BY <1>1, <1>2, <1>5, <1>7, <1>a, HandlerKeeps

\* What is not broadcast alone keeps it, as a client shows none of it.
LEMMA UnseenKeeps ==
    ASSUME FeedInv, ~mock, UNCHANGED mockVars, NEW t \in Tasks, HandlerFails(t) \/ Answers(t)
    PROVE  FeedInv'
<1>0. /\ ServerShape /\ open \in BOOLEAN /\ Tables(chain, rows, bets)
  BY DEF FeedInv, ServerShape
<1>r. PICK c, r : RowStep(t, c, r) /\ ShownAlike(r, rows[t])
  BY <1>0, UnseenMoves
<1>1. PICK calm \in BOOLEAN, fresh \in BOOLEAN :
         /\ calm = (replays = 0) /\ fresh = (open /\ ~tainted)
         /\ Good(store, inbox, open, away, calm, fresh, chain, rows, bets, ring, mode)
  BY FedIsGood
<1>2. Moves(t, c, r, chain, rows) /\ Tables(chain', rows', bets)
  BY <1>0, <1>r, PushTaskIs
<1>3. MovedOnly(t, c, r, store, inbox, open, away, calm, fresh, chain, rows, bets, ring, mode)
  BY <1>0, <1>r, <1>1, <1>2, GoodMoved
<1>4. UNCHANGED <<bets, ring, mode, open, inbox, store, items, replays, away, tainted>>
  BY DEF HandlerFails, Answers, serverVars, bounds
<1>5. Fed'
  <2>1. Good(store, inbox, open, away, calm, fresh, chain', rows', bets, ring, mode)
    BY <1>r, <1>3 DEF MovedOnly, RowStep
  <2> QED
    BY <1>1, <1>4, <2>1 DEF Fed
<1>6. ServerShape'
  BY <1>0, <1>2, <1>4 DEF ServerShape, mockVars
<1> QED
  BY <1>5, <1>6 DEF FeedInv, mockVars

LEMMA HandlersKeep ==
    ASSUME FeedInv, ~mock, UNCHANGED mockVars, NEW t \in Tasks, Handlers(t)
    PROVE  FeedInv'
<1>0. ServerShape
  BY DEF FeedInv
<1>1. CASE Creates(t)
  <2>1. PICK c, r : RowStep(t, c, r)
    BY <1>0, <1>1, CreatesMoves
  <2> QED
    BY <1>1, <2>1, RowItemKeeps DEF Creates
<1>2. CASE Accepts(t) \/ Delivers(t)
  <2>1. PICK c, r : RowStep(t, c, r)
    BY <1>0, <1>2, AdvancesMoves
  <2>2. /\ PushItem /\ Broadcast(<<Item>> \o PushTask(t))
        /\ UNCHANGED <<bets, away>> /\ HandlerFrame
    BY <1>2 DEF Accepts, Delivers, Advances
  <2> QED
    BY <2>1, <2>2, RowItemKeeps
<1>3. CASE Starts(t) \/ Cancels(t)
  <2>1. PICK c, r : RowStep(t, c, r)
    BY <1>0, <1>3, AdvancesMoves
  <2> QED
    BY <1>3, <2>1, RowKeeps DEF Starts, Cancels, Becomes
<1>4. CASE Settles(t)
  BY <1>4, SettlesKeeps
<1>5. CASE PlacesBet(t)
  BY <1>5, BetKeeps
<1>6. CASE HandlerFails(t) \/ Answers(t)
  BY <1>6, UnseenKeeps
<1> QED
  BY <1>1, <1>2, <1>3, <1>4, <1>5, <1>6 DEF Handlers

LEMMA PostsKeeps ==
    ASSUME FeedInv, ~mock, UNCHANGED mockVars, Posts
    PROVE  FeedInv'
<1>0. /\ ServerShape /\ open \in BOOLEAN /\ inbox \in Seq(Wire) /\ Tables(chain, rows, bets)
      /\ away \subseteq DOMAIN bets
  BY DEF FeedInv, ServerShape
<1>1. PICK calm \in BOOLEAN, fresh \in BOOLEAN :
         /\ calm = (replays = 0) /\ fresh = (open /\ ~tainted) /\ (fresh => open)
         /\ Good(store, inbox, open, away, calm, fresh, chain, rows, bets, ring, mode)
  BY FedIsGood
<1>2. /\ items + 1 \in Int /\ items' \in Nat /\ Item = ItemOf(items + 1) /\ Item \in Wire
      /\ ring' = KeepLast(Append(ring, items + 1), ServerCap)
      /\ ring' \in Seq(Int) /\ Len(ring') <= ServerCap
  BY <1>0, ItemPushed DEF Posts
<1>3. inbox' = IF open THEN Append(inbox, ItemOf(items + 1)) ELSE inbox
  BY <1>0, <1>2, AppendIsConcat DEF Posts, Broadcast
<1>4. Good(store, inbox', open, away, calm, fresh, chain, rows, bets, ring', mode)
  BY <1>0, <1>1, <1>2, <1>3, SendsItem
<1>5. /\ chain' = chain /\ rows' = rows /\ bets' = bets /\ away' = away /\ HandlerFrame
      /\ ~open => inbox' = inbox
  BY DEF Posts, Broadcast
<1>6. /\ Tables(chain', rows', bets') /\ away' \subseteq DOMAIN bets'
      /\ Good(store, inbox', open, away', calm, fresh, chain', rows', bets', ring', mode)
  BY <1>0, <1>4, <1>5
<1> QED
  BY <1>1, <1>2, <1>5, <1>6, HandlerKeeps

LEMMA DirectsKeeps ==
    ASSUME FeedInv, ~mock, UNCHANGED mockVars, Directs
    PROVE  FeedInv'
<1>0. ServerShape /\ open \in BOOLEAN /\ inbox \in Seq(Wire)
  BY DEF FeedInv, ServerShape
<1>1. PICK calm \in BOOLEAN, fresh \in BOOLEAN :
         /\ calm = (replays = 0) /\ fresh = (open /\ ~tainted) /\ (fresh => open)
         /\ Good(store, inbox, open, away, calm, fresh, chain, rows, bets, ring, mode)
  BY FedIsGood
<1>2. PICK md \in {"live", "replay"} : mode' = md
  BY DEF Directs
<1> DEFINE m == [type |-> "director", mode |-> md]
<1>3. inbox' = IF open THEN Append(inbox, m) ELSE inbox
  <2>1. Broadcast(<<m>>)
    BY <1>2 DEF Directs
  <2>2. m \in Wire
    BY DEF Wire, WsMessage
  <2> HIDE DEF m
  <2> QED
    BY <1>0, <2>1, <2>2, AppendIsConcat DEF Broadcast
<1>4. Good(store, inbox', open, away, calm, fresh, chain, rows, bets, ring, md)
  <2>1. CASE open
    <3>1. ModeSent(md, store, inbox, open, away, calm, fresh, chain, rows, bets, ring)
      <4>1. Good(store, inbox, open, away, calm, fresh, chain, rows, bets, ring, mode)
        BY <1>1
      <4>2. md \in {"live", "replay"}
        BY <1>2
      <4> HIDE DEF m
      <4> QED
        BY <4>1, <4>2, GoodDirector
    <3> QED
      BY <1>3, <2>1, <3>1 DEF ModeSent
  <2>2. CASE ~open
    <3>1. Behind(store, inbox, open, away, calm, chain, rows, bets) /\ ~fresh /\ inbox' = inbox
      BY <1>1, <1>3, <2>2, GoodBehind
    <3> QED
      BY <3>1, BehindGood
  <2> QED
    BY <2>1, <2>2
<1>5. /\ UNCHANGED <<chain, rows, bets, ring, open, store, replays, away, tainted>>
      /\ items' = items + 1 /\ items \in Nat
  BY <1>0 DEF Directs, ServerShape
<1>6. Fed'
  BY <1>1, <1>2, <1>4, <1>5 DEF Fed
<1>7. ServerShape'
  <2>1. inbox' \in Seq(Wire)
    BY <1>4 DEF Good
  <2>2. ~open => inbox' = inbox
    BY <1>3
  <2> QED
    BY <1>0, <1>2, <1>5, <2>1, <2>2 DEF ServerShape, mockVars
<1> QED
  BY <1>6, <1>7 DEF FeedInv, mockVars

LEMMA ReplaysKeeps ==
    ASSUME FeedInv, ~mock, UNCHANGED mockVars, Replays
    PROVE  FeedInv'
<1>0. ServerShape /\ open \in BOOLEAN /\ inbox \in Seq(Wire) /\ replays \in Nat /\ tainted \in BOOLEAN
  BY DEF FeedInv, ServerShape
<1>1. PICK calm \in BOOLEAN, fresh \in BOOLEAN :
         Good(store, inbox, open, away, calm, fresh, chain, rows, bets, ring, mode)
  BY FedIsGood
<1>2. Behind(store, inbox, open, away, calm, chain, rows, bets)
  BY <1>1, GoodBehind
<1>3. PICK m \in Lines : Broadcast(<<m>>)
  BY DEF Replays
<1>4. m \in Wire
  BY FeedAssumption DEF Wire
<1>5. inbox' = IF open THEN Append(inbox, m) ELSE inbox
  BY <1>0, <1>3, <1>4, AppendIsConcat DEF Broadcast
<1>6. Behind(store, inbox', open, away, FALSE, chain, rows, bets)
  <2>1. Behind(store, Append(inbox, m), open, away, FALSE, chain, rows, bets)
    BY <1>2, <1>4, SendsReplay
  <2>2. Behind(store, inbox, open, away, FALSE, chain, rows, bets)
    BY <1>2 DEF Behind, Stages
  <2> QED
    BY <1>5, <2>1, <2>2
<1>7. /\ UNCHANGED <<chain, rows, bets, ring, mode, open, store, items, away>>
      /\ replays' = replays + 1 /\ tainted' = (tainted \/ open)
  BY DEF Replays, serverVars
<1>8. Fed'
  <2>1. Good(store, inbox', open, away, FALSE, FALSE, chain, rows, bets, ring, mode)
    BY <1>6, BehindGood
  <2>2. (replays' = 0) = FALSE /\ (open' /\ ~tainted') = FALSE
    BY <1>0, <1>7
  <2> QED
    BY <1>7, <2>1, <2>2 DEF Fed
<1>9. ServerShape'
  <2>1. inbox' \in Seq(Wire)
    BY <1>6 DEF Behind
  <2>2. ~open => inbox' = inbox
    BY <1>5
  <2>3. tainted' \in BOOLEAN /\ replays' \in Nat /\ (tainted' => replays' > 0)
    BY <1>0, <1>7
  <2> QED
    BY <1>0, <1>7, <2>1, <2>2, <2>3 DEF ServerShape, mockVars
<1> QED
  BY <1>8, <1>9 DEF FeedInv, mockVars

-----------------------------------------------------------------------------
(* The socket and the client keep the invariant. *)

\* Bets that are not in the table do not matter.
LEMMA TracksWithin ==
    ASSUME NEW s, NEW g, NEW g2, NEW ch, NEW rw, NEW bt, Tracks(s, g, ch, rw, bt),
           g \cap DOMAIN bt = g2 \cap DOMAIN bt
    PROVE  Tracks(s, g2, ch, rw, bt)
<1> SUFFICES ASSUME NEW t \in Tasks PROVE TracksTask(t, s.entries[t], g2, ch, rw, bt)
  BY DEF Tracks
<1>1. TracksTask(t, s.entries[t], g, ch, rw, bt)
  BY DEF Tracks
<1>2. BetsIn(bt, t) \subseteq DOMAIN bt
  BY DEF BetsIn
<1>3. BetsIn(bt, t) \ g = BetsIn(bt, t) \ g2 /\ BetsIn(bt, t) \cap g = BetsIn(bt, t) \cap g2
  BY <1>2
<1> QED
  BY <1>1, <1>3 DEF TracksTask

\* The store itself is the first stage.
LEMMA StoreNow ==
    ASSUME NEW s, NEW box, NEW up, NEW gone, NEW calm, NEW ch, NEW rw, NEW bt,
           Behind(s, box, up, gone, calm, ch, rw, bt)
    PROVE  /\ StoreShape(s) /\ s.connected = up
           /\ calm => Tracks(s, gone \cup Later(box, 0), ch, rw, bt)
<1>1. PICK F : box \in Seq(Wire) /\ Stages(F, s, box, up, gone, calm, ch, rw, bt)
  BY DEF Behind
<1>2. 0 \in 0 .. Len(box) /\ F[0] = s
  BY <1>1, LenProperties DEF Stages, Path
<1> QED
  BY <1>1, <1>2 DEF Stages

\* A connection that closes leaves the store alone in its stages.
LEMMA ClosedGood ==
    ASSUME NEW s, StoreShape(s), NEW up, s.connected = up, NEW gone, NEW calm \in BOOLEAN,
           NEW ch, NEW rw, NEW bt, calm => Tracks(s, gone, ch, rw, bt)
    PROVE  Behind(s, <<>>, up, gone, calm, ch, rw, bt)
<1>1. OnlyStage(s, up, gone, calm, ch, rw, bt)
  BY OneStage
<1>2. <<>> \in Seq(Wire)
  BY EmptySeq
<1> QED
  BY <1>1, <1>2 DEF Behind, OnlyStage

\* The bets a broken connection did not deliver.
LEMMA UnsentIsLater ==
    ASSUME inbox \in Seq(Wire)
    PROVE  Unsent = DOMAIN bets \cap Later(inbox, 0)
<1>1. DOMAIN inbox = (0 + 1) .. Len(inbox)
  BY LenProperties
<1>2. ASSUME NEW x
      PROVE  x \in {inbox[i].bet.id : i \in {j \in DOMAIN inbox : inbox[j].type = "bet"}}
                <=> x \in Later(inbox, 0)
  <2>1. x \in Later(inbox, 0) <=> \E j \in DOMAIN inbox : x \in Ids(inbox[j])
    BY <1>1 DEF Later
  <2>2. \A j : x \in Ids(inbox[j]) <=> inbox[j].type = "bet" /\ x = inbox[j].bet.id
    BY DEF Ids
  <2> QED
    BY <2>1, <2>2
<1> QED
  BY <1>2 DEF Unsent

\* However it closes, what the store tracks is what is left.
LEMMA ClosesKeeps ==
    ASSUME FeedInv, ~mock, UNCHANGED mockVars, Closes,
           StoreShape(store'), store'.connected = FALSE,
           replays = 0 => Tracks(store', away', chain, rows, bets),
           away' \subseteq DOMAIN bets,
           ring' \in Seq(Int), Len(ring') <= ServerCap, mode' \in {"live", "replay"}
    PROVE  FeedInv'
<1>1. PICK calm \in BOOLEAN : calm = (replays = 0)
  OBVIOUS
<1>2. /\ UNCHANGED <<chain, rows, bets, items, replays, tainted>>
      /\ open' = FALSE /\ inbox' = <<>>
  BY DEF Closes
<1>3. Behind(store', <<>>, FALSE, away', calm, chain, rows, bets)
  BY <1>1, ClosedGood
<1>4. Fed'
  <2>1. Good(store', <<>>, FALSE, away', calm, FALSE, chain, rows, bets, ring', mode')
    BY <1>3, BehindGood
  <2>2. (open' /\ ~tainted') = FALSE
    BY <1>2
  <2> QED
    BY <1>1, <1>2, <2>1, <2>2 DEF Fed
<1>5. ServerShape'
  <2>1. inbox' \in Seq(Wire)
    BY <1>2, EmptySeq
  <2> QED
    BY <1>2, <2>1 DEF FeedInv, ServerShape, mockVars
<1> QED
  BY <1>4, <1>5 DEF FeedInv, mockVars

LEMMA BreaksKeeps ==
    ASSUME FeedInv, ~mock, UNCHANGED mockVars, Breaks \/ ServerRestarts
    PROVE  FeedInv'
<1>0. /\ inbox \in Seq(Wire) /\ away \subseteq DOMAIN bets
      /\ ring \in Seq(Int) /\ Len(ring) <= ServerCap /\ mode \in {"live", "replay"}
  BY DEF FeedInv, ServerShape
<1>1. PICK calm \in BOOLEAN, fresh \in BOOLEAN :
         /\ calm = (replays = 0)
         /\ Good(store, inbox, open, away, calm, fresh, chain, rows, bets, ring, mode)
  BY FedIsGood
<1>2. /\ StoreShape(store)
      /\ calm => Tracks(store, away \cup Later(inbox, 0), chain, rows, bets)
  BY <1>1, GoodBehind, StoreNow
<1>3. /\ Closes /\ store' = Connection(store, FALSE) /\ away' = away \cup Unsent
  BY DEF Breaks, ServerRestarts
<1>4. /\ StoreShape(store') /\ store'.connected = FALSE /\ store'.entries = store.entries
  BY <1>2, <1>3, ConnectionShape
<1>5. calm => Tracks(store', away', chain, rows, bets)
  <2>1. Unsent = DOMAIN bets \cap Later(inbox, 0)
    BY <1>0, UnsentIsLater
  <2>2. (away \cup Later(inbox, 0)) \cap DOMAIN bets = away' \cap DOMAIN bets
    BY <1>3, <2>1
  <2>3. calm => Tracks(store, away', chain, rows, bets)
    BY <1>2, <2>2, TracksWithin
  <2> QED
    BY <1>4, <2>3 DEF Tracks
<1>6. away' \subseteq DOMAIN bets
  BY <1>0, <1>3 DEF Unsent
<1>7. ring' \in Seq(Int) /\ Len(ring') <= ServerCap /\ mode' \in {"live", "replay"}
  <2>1. CASE Breaks
    BY <1>0, <2>1 DEF Breaks
  <2>2. CASE ServerRestarts
    BY <2>2, CapIsPositive, EmptySeq DEF ServerRestarts
  <2> QED
    BY <2>1, <2>2
<1> QED
  BY <1>1, <1>3, <1>4, <1>5, <1>6, <1>7, ClosesKeeps

LEMMA InitialShape ==
    /\ StoreShape(InitialStore) /\ InitialStore.connected = FALSE
    /\ \A t \in Tasks : InitialStore.entries[t] = NoRow
<1>1. StoreFields(InitialStore)
  BY DEF StoreFields, InitialStore
<1>2. /\ InitialStore.entries = [t \in Tasks |-> NoRow] /\ InitialStore.feed = <<>>
      /\ InitialStore.connected = FALSE
  BY DEF InitialStore
<1>3. \A t \in Tasks : InitialStore.entries[t] = NoRow
  BY <1>2
<1>4. InitialStore.entries = [t \in Tasks |-> InitialStore.entries[t]]
  BY <1>2
<1>5. <<>> \in Seq(Int) /\ Len(<<>>) <= WebCap
  BY EmptySeq, CapIsPositive
<1> QED
  BY <1>1, <1>2, <1>3, <1>4, <1>5 DEF StoreShape

\* A page that shows nothing misses every bet.
LEMMA NothingTracked ==
    ASSUME NEW ch, NEW rw, NEW bt
    PROVE  Tracks(InitialStore, DOMAIN bt, ch, rw, bt)
<1> SUFFICES ASSUME NEW t \in Tasks
             PROVE  TracksTask(t, NoRow, DOMAIN bt, ch, rw, bt)
  BY InitialShape DEF Tracks
<1>1. BetsIn(bt, t) \ DOMAIN bt = {}
  BY DEF BetsIn
<1> QED
  BY <1>1 DEF TracksTask, Had

LEMMA ReloadsKeeps ==
    ASSUME FeedInv, ~mock, UNCHANGED mockVars, Reloads
    PROVE  FeedInv'
<1>1. /\ Closes /\ store' = InitialStore /\ away' = DOMAIN bets /\ ring' = ring /\ mode' = mode
  BY DEF Reloads
<1>2. ring \in Seq(Int) /\ Len(ring) <= ServerCap /\ mode \in {"live", "replay"}
  BY DEF FeedInv, ServerShape
<1> QED
  BY <1>1, <1>2, InitialShape, NothingTracked, ClosesKeeps

LEMMA SnapshotTracks ==
    ASSUME NEW s, StoreShape(s), NEW gone, NEW ch, NEW rw, NEW bt, Tables(ch, rw, bt),
           Tracks(s, gone, ch, rw, bt), NEW new,
           \A t \in Tasks : new.entries[t] = IF rw[t] = NoRow THEN NoRow
                                             ELSE Entry(rw[t], s.entries[t], FALSE)
    PROVE  Tracks(new, gone, ch, rw, bt)
<1> SUFFICES ASSUME NEW t \in Tasks
             PROVE  TracksTask(t, new.entries[t], gone, ch, rw, bt)
  BY DEF Tracks
<1>1. CASE rw[t] = NoRow
  BY <1>1 DEF TracksTask
<1>2. CASE rw[t] # NoRow
  <2>1. new.entries[t] = Entry(rw[t], s.entries[t], FALSE)
    BY <1>2
  <2>2. s.entries[t] = NoRow \/ EntryShape(s.entries[t])
    BY DEF StoreShape
  <2>3. TracksTask(t, s.entries[t], gone, ch, rw, bt)
    BY DEF Tracks
  <2> HIDE DEF EntryShape, NoRow
  <2>4. TracksTask(t, Entry(rw[t], s.entries[t], FALSE), gone, ch, rw, bt)
    BY <1>2, <2>2, <2>3, EntryTracks
  <2> QED
    BY <2>1, <2>4
<1> QED
  BY <1>1, <1>2

LEMMA SnapshotAgrees ==
    ASSUME NEW s, StoreShape(s), NEW rw, rw \in [Tasks -> TaskRow \cup {NoRow}], NEW new, NEW rg,
           \A t \in Tasks : new.entries[t] = IF rw[t] = NoRow THEN NoRow
                                             ELSE Entry(rw[t], s.entries[t], FALSE),
           NEW md, new.feed = rg, new.mode = md
    PROVE  Agrees(new, rw, rg, md)
<1>1. ASSUME NEW t \in Tasks
      PROVE  /\ new.entries[t] # NoRow <=> rw[t] # NoRow
             /\ new.entries[t] # NoRow => SameRow(new.entries[t].row, rw[t])
  <2>1. CASE rw[t] = NoRow
    BY <2>1
  <2>2. CASE rw[t] # NoRow
    <3> DEFINE e == Entry(rw[t], s.entries[t], FALSE)
    <3>1. rw[t] \in TaskRow /\ rw[t].yes \in Nat /\ rw[t].no \in Nat
      BY <2>2 DEF TaskRow
    <3>2. EntryShape(e) /\ e.row = rw[t]
      <4>1. EntryShape(e)
        BY <3>1, EntryKeepsShape DEF StoreShape
      <4> QED
        BY <4>1 DEF Entry
    <3>3. new.entries[t] = e
      BY <2>2
    <3> HIDE DEF e, TaskRow
    <3>4. e # NoRow /\ SameRow(e.row, rw[t])
      BY <3>1, <3>2, EntryIsNoNoRow DEF SameRow
    <3> QED
      BY <2>2, <3>3, <3>4
  <2> QED
    BY <2>1, <2>2
<1> QED
  BY <1>1 DEF Agrees

LEMMA ConnectsKeeps ==
    ASSUME FeedInv, ~mock, UNCHANGED mockVars, Connects
    PROVE  FeedInv'
<1>0. /\ Tables(chain, rows, bets) /\ rows \in [Tasks -> TaskRow \cup {NoRow}]
      /\ ring \in Seq(Int) /\ Len(ring) <= ServerCap /\ mode \in {"live", "replay"}
      /\ inbox = <<>>
  BY DEF FeedInv, ServerShape, Tables, Connects
<1>1. PICK calm \in BOOLEAN, fresh \in BOOLEAN :
         /\ calm = (replays = 0)
         /\ Good(store, inbox, open, away, calm, fresh, chain, rows, bets, ring, mode)
  BY FedIsGood
<1>2. PICK s : s = Connection(store, TRUE)
  OBVIOUS
<1> DEFINE m == [type |-> "snapshot", rows |-> rows, feed |-> ring, mode |-> mode]
           new == Snapshot(s, m)
<1>3. /\ store' = s /\ inbox' = <<m>> /\ open' = TRUE /\ tainted' = FALSE
      /\ UNCHANGED <<chain, rows, bets, ring, mode, items, replays, away>>
  BY <1>2 DEF Connects, serverVars, bounds
<1>4. /\ StoreShape(store)
      /\ calm => Tracks(store, away, chain, rows, bets)
  <2>1. /\ StoreShape(store)
        /\ calm => Tracks(store, away \cup Later(inbox, 0), chain, rows, bets)
    BY <1>1, GoodBehind, StoreNow
  <2>2. Later(inbox, 0) = {}
    <3>1. <<>> \in Seq(Wire) /\ Len(<<>>) = 0
      BY EmptySeq
    <3>2. Later(<<>>, 0) = {}
      BY <3>1, NothingLater
    <3> QED
      BY <1>0, <3>2
  <2>3. away \cup Later(inbox, 0) = away
    BY <2>2
  <2> QED
    BY <2>1, <2>3
<1>5. StoreShape(s) /\ s.connected = TRUE /\ s.entries = store.entries
  BY <1>2, <1>4, ConnectionShape
<1>6. calm => Tracks(s, away, chain, rows, bets)
  BY <1>4, <1>5 DEF Tracks
<1>7. /\ m.rows = rows /\ m.feed = ring /\ m.mode = mode /\ m.type = "snapshot" /\ m \in Wire
      /\ \A t \in Tasks : m.rows[t] = NoRow \/ (m.rows[t].yes \in Nat /\ m.rows[t].no \in Nat)
  <2>1. \A t \in Tasks : rows[t] = NoRow \/ (rows[t].yes \in Nat /\ rows[t].no \in Nat)
    BY <1>0 DEF TaskRow
  <2>2. m \in Wire
    <3> HIDE DEF TaskRow, NoRow
    <3> QED
      BY <1>0 DEF Wire
  <2> QED
    BY <2>1, <2>2
<1> HIDE DEF m
<1>8. /\ StoreShape(new)
      /\ \A t \in Tasks : new.entries[t] = IF rows[t] = NoRow THEN NoRow
                                           ELSE Entry(rows[t], s.entries[t], FALSE)
      /\ new.feed = ring /\ new.mode = mode
  <2>1. KeepLast(ring, WebCap) = ring
    BY <1>0, CapIsPositive, KeepLastFits
  <2>2. /\ StoreShape(new)
        /\ \A t \in Tasks : new.entries[t] = IF m.rows[t] = NoRow THEN NoRow
                                             ELSE Entry(m.rows[t], s.entries[t], FALSE)
        /\ new.feed = KeepLast(m.feed, WebCap) /\ new.mode = m.mode
        /\ new.connected = s.connected
    <3>1. /\ m.feed \in Seq(Int) /\ StoreShape(s)
          /\ \A t \in Tasks : m.rows[t] = NoRow \/ (m.rows[t].yes \in Nat /\ m.rows[t].no \in Nat)
      BY <1>0, <1>5, <1>7
    <3>2. Refreshed(new, s, m)
      BY <3>1, SnapshotShape
    <3> HIDE DEF new
    <3> QED
      BY <3>2 DEF Refreshed
  <2> HIDE DEF new
  <2> QED
    BY <1>7, <2>1, <2>2
<1>9. new = Reducer(s, m)
  BY <1>7 DEF Reducer
<1> HIDE DEF new
<1>10. calm => Tracks(new, away, chain, rows, bets)
  BY <1>0, <1>5, <1>6, <1>8, SnapshotTracks
<1>11. Agrees(new, rows, ring, mode)
  BY <1>0, <1>5, <1>8, SnapshotAgrees
<1>12. OnlyStage(s, TRUE, away, calm, chain, rows, bets)
  BY <1>5, <1>6, OneStage
<1>13. PICK F : Stages(F, s, <<>>, TRUE, away, calm, chain, rows, bets) /\ F[Len(<<>>)] = s
  BY <1>12 DEF OnlyStage
<1>14. Grown(new, m, s, <<>>, TRUE, away, calm, chain, rows, bets)
  <2>1. <<>> \in Seq(Wire)
    BY EmptySeq
  <2>2. away = away \cup Ids(m)
    BY <1>7 DEF Ids
  <2>3. new = Reducer(F[Len(<<>>)], m)
    BY <1>9, <1>13
  <2> QED
    BY <1>7, <1>10, <1>13, <2>1, <2>2, <2>3, StagesGrow
<1>15. Good(s, <<m>>, TRUE, away, calm, TRUE, chain, rows, bets, ring, mode)
  <2>1. Append(<<>>, m) = <<m>>
    OBVIOUS
  <2> QED
    BY <1>11, <1>14, <2>1 DEF Grown, Good
<1>16. Fed'
  <2>1. (open' /\ ~tainted') = TRUE
    BY <1>3
  <2> QED
    BY <1>1, <1>3, <1>15, <2>1 DEF Fed
<1>17. ServerShape'
  <2>1. inbox' \in Seq(Wire)
    BY <1>3, <1>7
  <2>2. UNCHANGED <<mock, played>>
    BY DEF mockVars
  <2> QED
    BY <1>3, <2>1, <2>2 DEF FeedInv, ServerShape
<1> QED
  BY <1>16, <1>17 DEF FeedInv, mockVars

LEMMA ReceivesKeeps ==
    ASSUME FeedInv, ~mock, UNCHANGED mockVars, Receives
    PROVE  FeedInv'
<1>1. PICK calm \in BOOLEAN, fresh \in BOOLEAN :
         /\ calm = (replays = 0) /\ fresh = (open /\ ~tainted)
         /\ Good(store, inbox, open, away, calm, fresh, chain, rows, bets, ring, mode)
  BY FedIsGood
<1>2. PICK F : /\ inbox \in Seq(Wire) /\ Stages(F, store, inbox, open, away, calm, chain, rows, bets)
               /\ fresh => Agrees(F[Len(inbox)], rows, ring, mode)
  BY <1>1 DEF Good
<1>3. /\ inbox # <<>> /\ store' = Reducer(store, Head(inbox)) /\ inbox' = Tail(inbox)
      /\ UNCHANGED <<chain, rows, bets, ring, mode, open, items, replays, away, tainted>>
  BY DEF Receives, serverVars, bounds
<1>4. /\ Tail(inbox) \in Seq(Wire)
      /\ \E G : /\ Stages(G, Reducer(store, Head(inbox)), Tail(inbox), open, away, calm,
                          chain, rows, bets)
                /\ G[Len(Tail(inbox))] = F[Len(inbox)]
  BY <1>2, <1>3, StagesShift
<1>5. Good(store', inbox', open, away, calm, fresh, chain, rows, bets, ring, mode)
  BY <1>2, <1>3, <1>4 DEF Good
<1>6. Fed'
  BY <1>1, <1>3, <1>5 DEF Fed
<1>7. ServerShape'
  <2>1. inbox' \in Seq(Wire) /\ (~open => inbox' = inbox)
    BY <1>3, <1>4 DEF FeedInv, ServerShape
  <2>2. UNCHANGED <<mock, played>>
    BY DEF mockVars
  <2> QED
    BY <1>3, <2>1, <2>2 DEF FeedInv, ServerShape
<1> QED
  BY <1>6, <1>7 DEF FeedInv, mockVars

-----------------------------------------------------------------------------
(* The scripted market keeps the store's shape. *)

ScriptLine ==
    [at : Nat, type : {"snapshot", "items"}, n : Nat]
        \cup [at : Nat, type : {"task"}, task : Tasks, state : {"Created", "Open", "Delivered"},
              window : Nat, stake : Nat, yes : Nat, no : Nat, n : Nat]
        \cup [at : Nat, type : {"bet"}, task : Tasks, n : Nat, bet : BetRow]
        \cup [at : Nat, type : {"settled"}, task : Tasks, outcome : {"Yes", "No"},
              score : Nat, n : Nat]

LEMMA SlugifyLines == Slugify \in Seq(ScriptLine)
<1>1. /\ Shows(12, TaskA, "Created", 0, 0, 0, 0, 3) \in ScriptLine
      /\ Shows(30, TaskA, "Open", 24, 15, 15, 0, 2) \in ScriptLine
      /\ Shows(310, TaskA, "Delivered", 24, 15, 40, 20, 3) \in ScriptLine
  BY MockAssumption DEF Shows, ScriptLine
<1>2. /\ Bets(50, TaskA, 1, 15, 15, 15, 5000, 2) \in ScriptLine
      /\ Bets(70, TaskA, 2, 10, 25, 15, 6250, 2) \in ScriptLine
      /\ Bets(90, TaskA, 3, 5, 25, 20, 5556, 1) \in ScriptLine
      /\ Bets(115, TaskA, 4, 10, 35, 20, 6364, 2) \in ScriptLine
      /\ Bets(135, TaskA, 5, 5, 40, 20, 6667, 1) \in ScriptLine
  BY MockAssumption DEF Bets, ScriptLine, BetRow
<1>3. /\ Tells(26, 1) \in ScriptLine /\ Tells(160, 2) \in ScriptLine
      /\ Tells(180, 1) \in ScriptLine /\ Tells(330, 2) \in ScriptLine
  BY DEF Tells, ScriptLine
<1>4. Rules(340, TaskA, "Yes", 100, 2) \in ScriptLine
  BY MockAssumption DEF Rules, ScriptLine
<1> QED
  BY <1>1, <1>2, <1>3, <1>4 DEF Slugify

LEMMA NextBusinessDayLines == NextBusinessDay \in Seq(ScriptLine)
<1>1. /\ Shows(390, TaskB, "Created", 0, 0, 0, 0, 2) \in ScriptLine
      /\ Shows(410, TaskB, "Open", 20, 8, 8, 0, 2) \in ScriptLine
      /\ Shows(650, TaskB, "Delivered", 20, 8, 8, 23, 2) \in ScriptLine
  BY MockAssumption DEF Shows, ScriptLine
<1>2. /\ Bets(430, TaskB, 6, 12, 8, 12, 4000, 2) \in ScriptLine
      /\ Bets(455, TaskB, 7, 6, 8, 18, 3077, 1) \in ScriptLine
      /\ Bets(475, TaskB, 8, 5, 8, 23, 2581, 2) \in ScriptLine
  BY MockAssumption DEF Bets, ScriptLine, BetRow
<1>3. Tells(400, 1) \in ScriptLine /\ Tells(500, 1) \in ScriptLine /\ Tells(670, 2) \in ScriptLine
  BY DEF Tells, ScriptLine
<1>4. Rules(680, TaskB, "No", 50, 1) \in ScriptLine
  BY MockAssumption DEF Rules, ScriptLine
<1> QED
  BY <1>1, <1>2, <1>3, <1>4 DEF NextBusinessDay

LEMMA ScriptLines == Script \in Seq(ScriptLine)
<1> DEFINE first == [at |-> 2, type |-> "snapshot", n |-> 0]
<1>1. first \in ScriptLine
  BY DEF ScriptLine
<1>2. Script = (<<first>> \o Slugify) \o NextBusinessDay
  BY DEF Script
<1> HIDE DEF first
<1>3. <<first>> \in Seq(ScriptLine)
  BY <1>1
<1>4. <<first>> \o Slugify \in Seq(ScriptLine)
  BY <1>3, SlugifyLines, ConcatProperties
<1> QED
  BY <1>2, <1>4, NextBusinessDayLines, ConcatProperties

LEMMA LineShape ==
    ASSUME NEW line \in ScriptLine, line.type # "items"
    PROVE  MessageShape(Message(line))
<1>1. CASE line.type = "snapshot"
  <2> DEFINE m == [type |-> "snapshot", rows |-> [t \in Tasks |-> NoRow], feed |-> <<>>,
                   mode |-> "replay"]
  <2>1. Message(line) = m
    BY <1>1 DEF Message
  <2>2. m.type = "snapshot" /\ m.feed \in Seq(Int) /\ \A t \in Tasks : m.rows[t] = NoRow
    BY EmptySeq
  <2> HIDE DEF m
  <2> QED
    BY <2>1, <2>2 DEF MessageShape
<1>2. CASE line.type = "task"
  <2> DEFINE row == MockRow(line)
             m == [type |-> "task", task |-> line.task, row |-> row]
  <2>1. line.task \in Tasks /\ line.yes \in Nat /\ line.no \in Nat
    BY <1>2 DEF ScriptLine
  <2>2. row.yes = line.yes /\ row.no = line.no
    BY DEF MockRow
  <2>3. Message(line) = m
    BY <1>2 DEF Message
  <2> HIDE DEF row
  <2> QED
    BY <2>1, <2>2, <2>3 DEF MessageShape
<1>3. CASE line.type = "bet"
  <2>1. line.task \in Tasks /\ line.bet \in BetRow
    BY <1>3 DEF ScriptLine
  <2>2. Message(line) = line
    BY <1>3 DEF Message
  <2> QED
    BY <1>3, <2>1, <2>2 DEF MessageShape
<1>4. CASE line.type = "settled"
  <2>1. line.task \in Tasks
    BY <1>4 DEF ScriptLine
  <2>2. Message(line) = line
    BY <1>4 DEF Message
  <2> QED
    BY <1>4, <2>1, <2>2 DEF MessageShape
<1>5. line.type \in {"snapshot", "items", "task", "bet", "settled"}
  BY DEF ScriptLine
<1> QED
  BY <1>1, <1>2, <1>3, <1>4, <1>5

LEMMA WithLinesShape ==
    ASSUME NEW s, StoreShape(s), NEW n \in Nat, played \in Nat
    PROVE  StoreShape(WithLines(s, n))
<1> DEFINE more == [i \in 1 .. n |-> 10 * played + i]
           feed == KeepLast(s.feed \o more, WebCap)
           next == WithLines(s, n)
<1>1. more \in Seq(Int)
  <2>1. \A i \in 1 .. n : 10 * played + i \in Int
    OBVIOUS
  <2> QED
    BY <2>1, IsASeq
<1> HIDE DEF more
<1>2. s.feed \o more \in Seq(Int)
  BY <1>1, ConcatProperties DEF StoreShape
<1>3. feed \in Seq(Int) /\ Len(feed) <= WebCap
  BY <1>2, KeepLastShape, CapIsPositive
<1>4. next = [s EXCEPT !.feed = feed]
  BY DEF WithLines, more
<1> HIDE DEF feed, next
<1> QED
  BY <1>3, <1>4, NewFeedShape DEF next

LEMMA MockKeeps ==
    ASSUME FeedInv, MockStep
    PROVE  FeedInv'
<1>1. mock /\ StoreShape(store) /\ played \in Nat
  BY DEF FeedInv, ServerShape, MockStep
<1>2. UNCHANGED <<mock, chain, rows, bets, ring, mode, open, inbox, items, replays, away, tainted>>
  BY DEF MockStep, serverVars, bounds
<1>3. StoreShape(store') /\ played' \in Nat
  <2>1. CASE MockStarts
    BY <1>1, <2>1, ConnectionShape DEF MockStarts
  <2>2. CASE MockTicks
    BY <1>1, <2>2 DEF MockTicks
  <2>3. CASE MockPlays
    <3>1. PICK line : line = Script[played + 1]
      OBVIOUS
    <3>2. line \in ScriptLine
      <4>1. played + 1 \in 1 .. Len(Script)
        BY <1>1, <2>3, ScriptLines, LenProperties DEF MockPlays
      <4> QED
        BY <3>1, <4>1, ScriptLines, ElementOfSeq
    <3> DEFINE now == IF line.type = "items" THEN store ELSE Reducer(store, Message(line))
    <3>3. StoreShape(now)
      BY <1>1, <3>2, LineShape, ReducerShape
    <3>4. store' = WithLines(now, line.n) /\ played' = played + 1
      BY <2>3, <3>1 DEF MockPlays
    <3>5. line.n \in Nat
      BY <3>2 DEF ScriptLine
    <3> HIDE DEF now
    <3> QED
      BY <1>1, <3>3, <3>4, <3>5, WithLinesShape
  <2> QED
    BY <2>1, <2>2, <2>3 DEF MockStep
<1>4. ServerShape'
  BY <1>2, <1>3 DEF FeedInv, ServerShape
<1> QED
  BY <1>1, <1>2, <1>3, <1>4 DEF FeedInv

-----------------------------------------------------------------------------
(* The invariant holds, and says what a console shows. *)

LEMMA FeedInit == ASSUME AppInit PROVE FeedInv
<1>1. /\ chain = [t \in Tasks |-> [state |-> "none", yes |-> 0, no |-> 0]]
      /\ rows = [t \in Tasks |-> NoRow] /\ bets = <<>> /\ ring = <<>> /\ mode = "live"
      /\ open = FALSE /\ inbox = <<>> /\ store = InitialStore
      /\ items = 0 /\ replays = 0 /\ away = {} /\ tainted = FALSE
      /\ mock \in BOOLEAN /\ played = 0
  BY DEF AppInit, Init
<1>2. bets \in Seq(BetRow) /\ DOMAIN bets = {}
  BY <1>1, EmptySeq
<1>3. Tables(chain, rows, bets)
  <2>1. /\ chain \in [Tasks -> ChainTask] /\ rows \in [Tasks -> TaskRow \cup {NoRow}]
        /\ \A t \in Tasks : rows[t] = NoRow
    <3>1. [state |-> "none", yes |-> 0, no |-> 0] \in ChainTask
      BY DEF ChainTask
    <3> HIDE DEF TaskRow, NoRow, ChainTask
    <3> QED
      BY <1>1, <3>1
  <2>2. \A t \in Tasks : BetsIn(bets, t) = {}
    BY <1>2 DEF BetsIn
  <2> QED
    BY <1>2, <2>1, <2>2 DEF Tables
<1>4. ServerShape
  <2>1. ring \in Seq(Int) /\ Len(ring) <= ServerCap /\ inbox \in Seq(Wire)
    BY <1>1, EmptySeq, CapIsPositive
  <2> QED
    BY <1>1, <1>3, <2>1 DEF ServerShape
<1>5. StoreShape(InitialStore) /\ InitialStore.connected = FALSE
  BY InitialShape
<1>6. Fed
  <2>1. Tracks(InitialStore, {}, chain, rows, bets)
    BY <1>2, NothingTracked
  <2>2. PICK calm \in BOOLEAN : calm = (replays = 0)
    OBVIOUS
  <2>3. Behind(InitialStore, <<>>, FALSE, {}, calm, chain, rows, bets)
    BY <1>5, <2>1, ClosedGood
  <2>4. Good(InitialStore, <<>>, FALSE, {}, calm, FALSE, chain, rows, bets, ring, mode)
    BY <2>3, BehindGood
  <2>5. (open /\ ~tainted) = FALSE
    BY <1>1
  <2> QED
    BY <1>1, <2>2, <2>4, <2>5 DEF Fed
<1> QED
  BY <1>1, <1>4, <1>5, <1>6 DEF FeedInv

LEMMA FeedStep == ASSUME FeedInv, [AppNext]_appVars PROVE FeedInv'
<1>1. CASE MockStep
  BY <1>1, MockKeeps
<1>2. CASE ~mock /\ Next /\ UNCHANGED mockVars
  <2>1. ASSUME NEW t \in Created, Handlers(t) PROVE FeedInv'
    <3>1. t \in Tasks
      BY FeedAssumption
    <3> QED
      BY <1>2, <2>1, <3>1, HandlersKeep
  <2>2. CASE Posts
    BY <1>2, <2>2, PostsKeeps
  <2>3. CASE Directs
    BY <1>2, <2>3, DirectsKeeps
  <2>4. CASE Replays
    BY <1>2, <2>4, ReplaysKeeps
  <2>5. CASE Connects
    BY <1>2, <2>5, ConnectsKeeps
  <2>6. CASE Receives
    BY <1>2, <2>6, ReceivesKeeps
  <2>7. CASE Breaks \/ ServerRestarts
    BY <1>2, <2>7, BreaksKeeps
  <2>8. CASE Reloads
    BY <1>2, <2>8, ReloadsKeeps
  <2> QED
    BY <1>2, <2>1, <2>2, <2>3, <2>4, <2>5, <2>6, <2>7, <2>8 DEF Next
<1>3. CASE UNCHANGED appVars
  BY <1>3 DEF FeedInv, Fed, ServerShape, appVars, vars, mockVars, serverVars, bounds
<1> QED
  BY <1>1, <1>2, <1>3 DEF AppNext

LEMMA FeedInvHolds == AppSpec => []FeedInv
<1>1. AppInit => FeedInv
  BY FeedInit
<1>2. FeedInv /\ [AppNext]_appVars => FeedInv'
  BY FeedStep
<1> QED
  BY <1>1, <1>2, PTL DEF AppSpec

\* With nothing on its way the store is the last stage as well as the first.
LEMMA NothingOnItsWay ==
    ASSUME FeedInv, open, inbox = <<>>
    PROVE  /\ StoreShape(store)
           /\ ~tainted => Agrees(store, rows, ring, mode)
           /\ replays = 0 => Tracks(store, away, chain, rows, bets)
<1>1. PICK calm \in BOOLEAN, fresh \in BOOLEAN :
         /\ calm = (replays = 0) /\ fresh = (open /\ ~tainted)
         /\ Good(store, inbox, open, away, calm, fresh, chain, rows, bets, ring, mode)
  BY FedIsGood DEF FeedInv, ServerShape
<1>2. PICK F : /\ inbox \in Seq(Wire) /\ Stages(F, store, inbox, open, away, calm, chain, rows, bets)
               /\ fresh => Agrees(F[Len(inbox)], rows, ring, mode)
  BY <1>1 DEF Good
<1>3. Len(inbox) = 0 /\ F[0] = store /\ 0 \in 0 .. 0
  BY <1>2 DEF Stages, Path
<1>4. away \cup Later(inbox, 0) = away
  BY <1>2, <1>3, NothingLater
<1> QED
  BY <1>1, <1>2, <1>3, <1>4 DEF Stages

LEMMA InvGivesInStep == ASSUME FeedInv PROVE ConsoleInStep
<1>1. StoreShape(store) /\ (~mock => store.connected = open)
  <2>1. CASE mock
    BY <2>1 DEF FeedInv
  <2>2. CASE ~mock
    <3>1. PICK calm \in BOOLEAN, fresh \in BOOLEAN :
             Good(store, inbox, open, away, calm, fresh, chain, rows, bets, ring, mode)
      BY <2>2, FedIsGood
    <3>2. Behind(store, inbox, open, away, calm, chain, rows, bets)
      BY <3>1, GoodBehind
    <3>3. StoreShape(store) /\ store.connected = open
      BY <3>2, StoreNow
    <3> QED
      BY <3>3
  <2> QED
    BY <2>1, <2>2
<1>2. FeedTypeOK
  <2>1. /\ open \in BOOLEAN /\ mode \in {"live", "replay"} /\ Len(ring) <= ServerCap
        /\ away \subseteq DOMAIN bets /\ rows \in [Tasks -> TaskRow \cup {NoRow}]
    BY DEF FeedInv, ServerShape, Tables
  <2>2. \A t \in Tasks : Known(t) => Len(store.entries[t].odds) <= WebCap
    BY <1>1 DEF StoreShape, EntryShape, Known
  <2>3. Len(store.feed) <= WebCap
    BY <1>1 DEF StoreShape
  <2> QED
    BY <1>1, <2>1, <2>2, <2>3 DEF FeedTypeOK
<1>3. ASSUME InStep PROVE Agrees(store, rows, ring, mode)
  BY <1>3, NothingOnItsWay DEF InStep
<1>4. RowsInStep
  <2> SUFFICES ASSUME InStep, NEW t \in Tasks
               PROVE  /\ Known(t) <=> rows[t] # NoRow
                      /\ Known(t) => [store.entries[t].row EXCEPT !.score = 0]
                                        = [rows[t] EXCEPT !.score = 0]
    BY DEF RowsInStep
  <2>1. Known(t) <=> rows[t] # NoRow
    BY <1>3 DEF Agrees, Known
  <2>2. ASSUME Known(t)
        PROVE  [store.entries[t].row EXCEPT !.score = 0] = [rows[t] EXCEPT !.score = 0]
    <3>1. SameRow(store.entries[t].row, rows[t]) /\ rows[t] \in TaskRow
      BY <1>2, <1>3, <2>1, <2>2 DEF Agrees, Known, FeedTypeOK
    <3> DEFINE shown == store.entries[t].row
               row == rows[t]
    <3>2. /\ shown \in TaskRow /\ row \in TaskRow /\ shown.state = row.state
          /\ shown.outcome = row.outcome /\ shown.yes = row.yes /\ shown.no = row.no
      BY <3>1 DEF SameRow
    <3> HIDE DEF shown, row
    <3>3. [shown EXCEPT !.score = 0] = [row EXCEPT !.score = 0]
      BY <3>2 DEF TaskRow
    <3> QED
      BY <3>3 DEF shown, row
  <2> QED
    BY <2>1, <2>2
<1>5. FeedsInStep
  BY <1>3 DEF Agrees, FeedsInStep
<1> QED
  BY <1>2, <1>4, <1>5 DEF ConsoleInStep

LEMMA InvGivesMissed == ASSUME FeedInv PROVE MissedOnlyWhileAway
<1>1. ASSUME replays = 0, open, inbox = <<>>, NEW t \in Tasks, Known(t)
      PROVE  /\ Agrees(store, rows, ring, mode) /\ rows[t] # NoRow
             /\ TracksTask(t, store.entries[t], away, chain, rows, bets)
             /\ BetsOf(t) = BetsIn(bets, t)
  <2>1. ~tainted
    BY <1>1 DEF FeedInv, ServerShape
  <2>2. /\ Agrees(store, rows, ring, mode)
        /\ Tracks(store, away, chain, rows, bets)
    BY <1>1, <2>1, NothingOnItsWay
  <2> QED
    BY <1>1, <2>2 DEF Agrees, Tracks, Known, BetsOf, BetsIn
<1>2. BetsMissedOnlyWhileAway
  <2> SUFFICES ASSUME replays = 0, open, inbox = <<>>, NEW t \in Tasks, Known(t)
               PROVE  LET shown == store.entries[t].bets
                      IN  /\ {shown[i].id : i \in DOMAIN shown} = BetsOf(t) \ away
                          /\ \A i, j \in DOMAIN shown : i < j => shown[i].id < shown[j].id
    BY DEF BetsMissedOnlyWhileAway
  <2> QED
    BY <1>1 DEF TracksTask, Known, Had
<1>3. StalePriceNeedsAMissedBet
  <2> SUFFICES ASSUME replays = 0, open, inbox = <<>>, NEW t \in Tasks, Known(t),
                      BetsOf(t) \cap away = {}
               PROVE  ShownPBps(store.entries[t]) = PBps(rows[t])
    BY DEF StalePriceNeedsAMissedBet
  <2>1. CASE store.entries[t].odds # <<>>
    BY <1>1, <2>1 DEF TracksTask, Known, ShownPBps
  <2>2. CASE store.entries[t].odds = <<>>
    <3>1. SameRow(store.entries[t].row, rows[t])
      BY <1>1 DEF Agrees, Known
    <3>2. PBps(store.entries[t].row) = PBps(rows[t])
      BY <3>1 DEF SameRow, PBps
    <3> QED
      BY <2>2, <3>2 DEF ShownPBps
  <2> QED
    BY <2>1, <2>2
<1> QED
  BY <1>2, <1>3 DEF MissedOnlyWhileAway

\* A console that has received all there is shows the server's tasks and feeds,
\* whatever it missed before and however often it or the server went away (store.ts
\* reducer, against the broadcasts of indexer.ts, console.ts and ws.ts's snapshot).
THEOREM ConsoleFollowsTheServer == AppSpec => []ConsoleInStep
BY FeedInvHolds, InvGivesInStep, PTL

\* The bets a console lacks, and what its price lacks, were placed while it was
\* away: no message that was sent to it is lost, doubled or out of order in its
\* store (store.ts bet and snapshot, market.ts prices).
THEOREM OnlyAbsenceMisses == AppSpec => []MissedOnlyWhileAway
BY FeedInvHolds, InvGivesMissed, PTL
=============================================================================
