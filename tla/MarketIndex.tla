---------------------------- MODULE MarketIndex -----------------------------
(***************************************************************************)
(* The oracle-server's indexer and its SQLite tables (server/src/indexer,  *)
(* db, trust).  The chain is two growing logs, the core's events and the   *)
(* validation registry's answers; the server replays both into `db`, which *)
(* survives a restart, from `queue`, which does not.  A handler is the     *)
(* list of SQL statements it runs without a pause; the process may die     *)
(* between any two of them.  A local chain may be started afresh: its      *)
(* blocks count from zero again while the tables stay on the disk.         *)
(***************************************************************************)
EXTENDS Integers, Sequences, SequencesExt, FiniteSetsExt, Functions

CONSTANTS Tasks, Workers, NoWorker,
          CreatedFor,    \* whom a task may name when created: a worker, or nobody
          Stakes, BetSizes, BETTING_WINDOW, Scores, VALIDATION_THRESHOLD,
          MaxBlock,      \* bound on blocks, and so on events
          MaxBets,       \* bound on bets
          KeepsAddress,  \* a fresh chain gives the core its old address again
          MaxChains,     \* bound on fresh chains
          MaxFaults      \* bound on crashes and failed block-time reads together

ASSUME IndexAssumption ==
    /\ CreatedFor \subseteq Workers \cup {NoWorker}
    /\ Stakes \subseteq Nat /\ BetSizes \subseteq Nat \ {0}
    /\ BETTING_WINDOW \in Nat /\ Scores \subseteq Nat
    /\ MaxBlock \in Nat /\ MaxChains \in Nat

VARIABLES core, val, head, chains,      \* the chain; fresh ones so far
          db,                           \* the tables
          proc, polled, queue,          \* the server process
          stops, faults

chainVars == <<core, val, head, chains>>
procVars == <<proc, polled, queue>>
vars == <<chainVars, db, procVars, stops, faults>>

-----------------------------------------------------------------------------
(* The chain: one transaction in a block; the block number is its time.    *)

\* Events of task t in a log s of the core's, and the latest of some names.
Events(s, t) == {i \in DOMAIN s : s[i].task = t}
Latest(s, t, names) == s[Max({i \in Events(s, t) : s[i].name \in names})]
StateAfter == [TaskCreated |-> "Created", TaskAccepted |-> "Open", BetPlaced |-> "Open",
               ExecutionStarted |-> "Executing", DeliverySubmitted |-> "Delivered",
               OutcomeResolved |-> "Settled", TaskCancelled |-> "Cancelled"]
StateOn(s, t) == IF Events(s, t) = {} THEN "none"
                 ELSE StateAfter[s[Max(Events(s, t))].name]
Market(s, t) == Latest(s, t, {"TaskAccepted", "BetPlaced"})
On(t) == StateOn(core, t)
AnswersTo(t) == {j \in DOMAIN val : val[j].task = t}
BetsOn == {i \in DOMAIN core : core[i].name = "BetPlaced"}

Emits(events) ==
    /\ head < MaxBlock
    /\ core' = core \o events
    /\ head' = head + 1
    /\ UNCHANGED <<val, chains, db, procVars, stops, faults>>

Event(name, t) == [name |-> name, task |-> t, at |-> head + 1, li |-> 0]

Creates(t) ==
    /\ On(t) = "none"
    /\ \E w \in CreatedFor :
           Emits(<<[name |-> "TaskCreated", task |-> t, at |-> head + 1, li |-> 0, worker |-> w]>>)

Accepts(t) ==
    /\ On(t) = "Created"
    /\ \E w \in Workers, stake \in Stakes :
           Emits(<<[name |-> "TaskAccepted", task |-> t, at |-> head + 1, li |-> 0,
                    worker |-> w, stake |-> stake, yes |-> stake, no |-> 0,
                    cutoff |-> head + 1 + BETTING_WINDOW]>>)

Bets(t) ==
    /\ On(t) = "Open" /\ head + 1 < Market(core, t).cutoff
    /\ Cardinality(BetsOn) < MaxBets
    /\ \E side \in {"Yes", "No"}, bet \in BetSizes :
           Emits(<<[name |-> "BetPlaced", task |-> t, at |-> head + 1, li |-> 0,
                    yes |-> Market(core, t).yes + (IF side = "Yes" THEN bet ELSE 0),
                    no |-> Market(core, t).no + (IF side = "No" THEN bet ELSE 0),
                    cutoff |-> Market(core, t).cutoff]>>)

Delivers(t) ==
    /\ On(t) = "Open" /\ head + 1 >= Market(core, t).cutoff
    /\ Emits(<<Event("ExecutionStarted", t),
               [Event("DeliverySubmitted", t) EXCEPT !.li = 1]>>)

\* Outcome, rule and score, as settled or as cranked.
Outcomes(t) ==
    CASE On(t) = "Open" /\ head + 1 > Market(core, t).cutoff -> {<<"No", 1, 0>>}
      [] On(t) = "Delivered" ->
             {<<"Yes", 5, 0>>, <<"No", 4, 0>>} \cup
             {IF val[j].score >= VALIDATION_THRESHOLD THEN <<"Yes", 2, val[j].score>>
              ELSE <<"No", 3, val[j].score>> : j \in AnswersTo(t)}
      [] OTHER -> {}

Resolves(t) ==
    \E o \in Outcomes(t) :
        Emits(<<[name |-> "OutcomeResolved", task |-> t, at |-> head + 1, li |-> 0,
                 outcome |-> o[1], rule |-> o[2], score |-> o[3]]>>)

Cancels(t) == On(t) = "Created" /\ Emits(<<Event("TaskCancelled", t)>>)

\* The validator answers a delivery, in time or not, and only once.
Answers(t) ==
    /\ head < MaxBlock
    /\ On(t) \in {"Delivered", "Settled"} /\ AnswersTo(t) = {}
    /\ \E s \in Scores : val' = Append(val, [task |-> t, at |-> head + 1, li |-> 0, score |-> s])
    /\ head' = head + 1
    /\ UNCHANGED <<core, chains, db, procVars, stops, faults>>

EmptyBlock ==
    /\ head < MaxBlock
    /\ head' = head + 1
    /\ UNCHANGED <<core, val, chains, db, procVars, stops, faults>>

ChainStep ==
    /\ proc # "booting"
    /\ \/ \E t \in Tasks : \/ Creates(t) \/ Accepts(t) \/ Bets(t) \/ Delivers(t)
                           \/ Resolves(t) \/ Cancels(t) \/ Answers(t)
       \/ EmptyBlock

\* The stack was stopped and is started again: a new chain, the contracts deployed
\* on it, and the server before the agents that make events (run-all.sh).
FreshChain ==
    /\ proc = "down" /\ proc' = "booting"
    /\ head = MaxBlock   \* bound: a chain is left when it is full
    /\ chains < MaxChains /\ chains' = chains + 1
    /\ core' = <<>> /\ val' = <<>> /\ head' = 0
    /\ UNCHANGED <<db, polled, queue, stops, faults>>

\* chainId:oracleCore of the chain the server is started on.
Fingerprint == IF KeepsAddress THEN 0 ELSE chains

-----------------------------------------------------------------------------
(* The tables.  NoRow: no such row.  -1 is SQL NULL.                       *)

NULL == -1
NoRow == [state |-> "none"]
\* No cursor is stored yet: every block has a number above 0.
NoCursor == [bn |-> 0, li |-> 0]
NoTrust == [n |-> 0, wins |-> 0, brier |-> 0, staked |-> 0, forfeited |-> 0]
EmptyDb == [tasks |-> [t \in Tasks |-> NoRow], bets |-> <<>>,
            odds |-> [t \in Tasks |-> <<>>], trust |-> [w \in Workers |-> NoTrust],
            reqhash |-> {}, cursor |-> [core |-> NoCursor, val |-> NoCursor],
            lastBlock |-> 0, deployment |-> Fingerprint]

\* Seeded fault: the tables of the earlier chain are kept.
KeepTables(d) == d
ResetIfDeploymentChanged(d) == IF d.deployment = Fingerprint THEN d ELSE EmptyDb

PBps(yes, no) == IF yes + no = 0 THEN 10000 ELSE (yes * 10000) \div (yes + no)

\* UPDATE tasks SET ... WHERE task_id = t: nothing when there is no row.
Update(d, t, row) == IF d.tasks[t] = NoRow THEN d ELSE [d EXCEPT !.tasks[t] = row]

InsertTask(d, e) ==
    [d EXCEPT !.tasks[e.task] =
        [state |-> "Created", worker |-> e.worker, stake |-> 0, cutoff |-> NULL, yes |-> 0,
         no |-> 0, outcome |-> "-", rule |-> NULL, score |-> NULL, p |-> NULL]]
MarkAccepted(d, e) ==
    Update(d, e.task, [d.tasks[e.task] EXCEPT !.state = "Open", !.worker = e.worker,
                           !.stake = e.stake, !.cutoff = e.cutoff, !.yes = e.stake, !.no = 0])
UpdatePools(d, e) == Update(d, e.task, [d.tasks[e.task] EXCEPT !.yes = e.yes, !.no = e.no])
InsertBet(d, i) == [d EXCEPT !.bets = Append(@, i)]
InsertSnapshot(d, e, pBps) == [d EXCEPT !.odds[e.task] = Append(@, [t |-> e.at, p |-> pBps])]
SetState(d, e, state) == Update(d, e.task, [d.tasks[e.task] EXCEPT !.state = state])
MarkSettled(d, e) ==
    Update(d, e.task, [d.tasks[e.task] EXCEPT !.state = "Settled", !.outcome = e.outcome,
                           !.rule = e.rule, !.score = e.score])

\* Seeded fault: the series is read from its other end.
FirstSnapshot(d, t, time) == IF d.odds[t] = <<>> THEN 10000 ELSE Head(d.odds[t]).p
LastSnapshotAtOrBefore(d, t, time) ==
    LET before == {i \in DOMAIN d.odds[t] : d.odds[t][i].t <= time}
    IN  IF before = {} THEN 10000 ELSE d.odds[t][Max(before)].p

EnsurePCutoff(d, e) ==
    LET row == d.tasks[e.task] IN
    IF row = NoRow \/ (row # NoRow /\ (row.p # NULL \/ row.cutoff = NULL)) THEN d
    ELSE Update(d, e.task,
                [row EXCEPT !.p = LastSnapshotAtOrBefore(d, e.task, row.cutoff)])

\* computeTrustCore, with the averages left as sums (rewards are one constant).
TrustCore(rows) ==
    LET failed == {r \in DOMAIN rows : rows[r].outcome = "No"}
        p(r) == IF rows[r].p = NULL THEN 10000 ELSE rows[r].p
        miss(r) == IF r \in failed THEN p(r) ELSE 10000 - p(r)
    IN  [n |-> Cardinality(DOMAIN rows), wins |-> Cardinality(DOMAIN rows \ failed),
         brier |-> SumFunction([r \in DOMAIN rows |-> miss(r) * miss(r)]),
         staked |-> SumFunction([r \in DOMAIN rows |-> rows[r].stake]),
         forfeited |-> SumFunction([r \in failed |-> rows[r].stake])]

SettledForWorker(d, w) ==
    {t \in Tasks : d.tasks[t] # NoRow /\ d.tasks[t].state = "Settled" /\ d.tasks[t].worker = w}
SettledInputsFor(d, w) == [t \in SettledForWorker(d, w) |-> d.tasks[t]]

RecomputeTrust(d, e) ==
    LET row == d.tasks[e.task] IN
    IF row = NoRow \/ (row # NoRow /\ row.worker \notin Workers) THEN d
    ELSE [d EXCEPT !.trust[row.worker] = TrustCore(SettledInputsFor(d, row.worker))]

OpenForWorker(d, w) ==
    {t \in Tasks : /\ d.tasks[t] # NoRow /\ d.tasks[t].state \in {"Open", "Executing"}
                   /\ d.tasks[t].worker = w}

\* buildTrustTuple: what GET /v1/agents/:id/trust sells, computed from the rows.
BuildTrustTuple(d, w) ==
    [core |-> TrustCore(SettledInputsFor(d, w)),
     pLive |-> [t \in OpenForWorker(d, w) |-> PBps(d.tasks[t].yes, d.tasks[t].no)]]

SetValidatorScore(d, e) ==
    IF e.task \in d.reqhash THEN Update(d, e.task, [d.tasks[e.task] EXCEPT !.score = e.score])
    ELSE d

MapReqhash(d, e) == [d EXCEPT !.reqhash = @ \cup {e.task}]
SetCursor(d, e, src) == [d EXCEPT !.cursor[src] = [bn |-> e.at, li |-> e.li]]
SetLastBlock(d, e) == [d EXCEPT !.lastBlock = e.at]

Log(src) == IF src = "core" THEN core ELSE val

\* The statements of one handler, in order.
Statements(src, i) ==
    IF src = "val" THEN <<"setValidatorScore">> ELSE
    CASE core[i].name = "TaskCreated" -> <<"insertTask">>
      [] core[i].name = "TaskAccepted" -> <<"markAccepted", "firstSnapshot">>
      [] core[i].name = "BetPlaced" -> <<"updatePools", "insertBet", "insertSnapshot">>
      [] core[i].name = "ExecutionStarted" -> <<"ensurePCutoff", "setExecuting">>
      [] core[i].name = "DeliverySubmitted" -> <<"ensurePCutoff", "markDelivered", "reqhash">>
      [] core[i].name = "OutcomeResolved" -> <<"ensurePCutoff", "markSettled", "recomputeTrust">>
      [] OTHER -> <<"markCancelled">>

\* The cursor moves last.
Advance == <<"cursor", "lastBlock">>

\* Seeded fault: the cursor moves before the log is applied.
CursorFirst(src, i) == Advance \o Statements(src, i)
Handler(src, i) == Statements(src, i) \o Advance

\* One statement of the handler of e, the i-th log of src: on the task's row, or
\* on the other tables.
OnRow(d, statement, e) ==
    CASE statement = "insertTask" -> InsertTask(d, e)
      [] statement = "markAccepted" -> MarkAccepted(d, e)
      [] statement = "updatePools" -> UpdatePools(d, e)
      [] statement = "ensurePCutoff" -> EnsurePCutoff(d, e)
      [] statement = "setExecuting" -> SetState(d, e, "Executing")
      [] statement = "markDelivered" -> SetState(d, e, "Delivered")
      [] statement = "markSettled" -> MarkSettled(d, e)
      [] statement = "markCancelled" -> SetState(d, e, "Cancelled")
      [] statement = "setValidatorScore" -> SetValidatorScore(d, e)
Exec(d, statement, src, i, e) ==
    CASE statement = "insertBet" -> InsertBet(d, i)
      [] statement = "firstSnapshot" -> InsertSnapshot(d, e, 10000)
      [] statement = "insertSnapshot" -> InsertSnapshot(d, e, PBps(e.yes, e.no))
      [] statement = "reqhash" -> MapReqhash(d, e)
      [] statement = "recomputeTrust" -> RecomputeTrust(d, e)
      [] statement = "cursor" -> SetCursor(d, e, src)
      [] statement = "lastBlock" -> SetLastBlock(d, e)
      [] OTHER -> OnRow(d, statement, e)

\* The tables d after the statements ran, for the i-th log of src.
After(d, statements, src, i) ==
    LET after[n \in 0..Len(statements)] ==
            IF n = 0 THEN d ELSE Exec(after[n - 1], statements[n], src, i, Log(src)[i])
    IN  after[Len(statements)]

-----------------------------------------------------------------------------
(* The server process.                                                     *)

Item(src, i) == [src |-> src, i |-> i]

\* How many logs of src are in blocks up to bn; those in the blocks from..to.
UpTo(src, bn) == Cardinality({j \in DOMAIN Log(src) : Log(src)[j].at <= bn})
GetLogs(src, from, to) ==
    [k \in 1..(UpTo(src, to) - UpTo(src, from - 1)) |-> Item(src, UpTo(src, from - 1) + k)]

\* Seeded fault: the last block of the range is left to a next scan.
HalfOpenScan(from, to) ==
    GetLogs("core", from, to - 1) \o GetLogs("val", from, to - 1) \o <<Item("head", to)>>

\* Seeded fault: the registry's logs go before the core's.
RegistryFirst(from, to) ==
    GetLogs("val", from, to) \o GetLogs("core", from, to) \o <<Item("head", to)>>

\* What a scan of the blocks from..to enqueues: the core's logs, then the
\* registry's, then the head of the chain itself.
Scan(from, to) ==
    GetLogs("core", from, to) \o GetLogs("val", from, to) \o <<Item("head", to)>>

\* Seeded fault: the rescan starts after the last block that is noted.
BootsFromLastBlock ==
    /\ proc \in {"down", "booting"}
    /\ proc' = "catchup" /\ polled' = head
    /\ db' = ResetIfDeploymentChanged(db)
    /\ queue' = Scan(db'.lastBlock + 1, head)
    /\ UNCHANGED <<chainVars, stops, faults>>

\* The tables are opened (wiped if they are of another deployment), then
\* startIndexer rescans from the deployment block; cursors skip what is known.
Boots ==
    /\ proc \in {"down", "booting"}
    /\ proc' = "catchup" /\ polled' = head /\ queue' = Scan(0, head)
    /\ db' = ResetIfDeploymentChanged(db)
    /\ UNCHANGED <<chainVars, stops, faults>>

\* Catch-up is done: the server starts to listen and to poll.
Listens ==
    /\ proc = "catchup" /\ queue = <<>>
    /\ proc' = "live"
    /\ UNCHANGED <<chainVars, db, polled, queue, stops, faults>>

Polls ==
    /\ proc = "live" /\ head > polled
    /\ polled' = head /\ queue' = queue \o Scan(polled + 1, head)
    /\ UNCHANGED <<chainVars, db, proc, stops, faults>>

NextIs(srcs) == queue # <<>> /\ Head(queue).src \in srcs
IsNew(item) ==
    LET e == Log(item.src)[item.i]
        cursor == db.cursor[item.src]
    IN  \/ e.at > cursor.bn
        \/ e.at = cursor.bn /\ e.li > cursor.li
Script == Handler(Head(queue).src, Head(queue).i)
Runs(statements) ==
    /\ db' = After(db, statements, Head(queue).src, Head(queue).i)
    /\ queue' = Tail(queue)
    /\ UNCHANGED <<chainVars, proc, polled, stops>>

Skips ==
    /\ NextIs({"core", "val"}) /\ ~IsNew(Head(queue))
    /\ queue' = Tail(queue)
    /\ UNCHANGED <<chainVars, db, proc, polled, stops, faults>>

\* The block's time is known: the handler runs to its end and the cursor moves.
Handles ==
    /\ NextIs({"core", "val"}) /\ IsNew(Head(queue))
    /\ Runs(Script)
    /\ UNCHANGED faults

\* Reading the block's time fails: the error is logged and the cursor moves.
HandlerFails ==
    /\ NextIs({"core"}) /\ IsNew(Head(queue))
    /\ stops + faults < MaxFaults /\ faults' = faults + 1
    /\ Runs(Advance)

\* Seeded fault: the next block is noted instead of the head that was scanned.
NotesNextBlock ==
    /\ NextIs({"head"})
    /\ db' = [db EXCEPT !.lastBlock = Head(queue).i + 1]
    /\ queue' = Tail(queue)
    /\ UNCHANGED <<chainVars, proc, polled, stops, faults>>

NotesHead ==
    /\ NextIs({"head"})
    /\ db' = [db EXCEPT !.lastBlock = Head(queue).i]
    /\ queue' = Tail(queue)
    /\ UNCHANGED <<chainVars, proc, polled, stops, faults>>

\* The process dies: between two logs, or after n statements of a handler.
Dies ==
    /\ proc \in {"catchup", "live"}
    /\ stops + faults < MaxFaults /\ stops' = stops + 1
    /\ proc' = "down" /\ queue' = <<>> /\ polled' = 0
    /\ UNCHANGED <<chainVars, faults>>
Stops == Dies /\ UNCHANGED db
StopsMidway ==
    /\ NextIs({"core", "val"}) /\ IsNew(Head(queue))
    /\ \E n \in 1..(Len(Script) - 1) :
           db' = After(db, SubSeq(Script, 1, n), Head(queue).src, Head(queue).i)
    /\ Dies

IndexerStep == Boots \/ Listens \/ Polls \/ Skips \/ Handles \/ NotesHead

Init ==
    /\ core = <<>> /\ val = <<>> /\ head = 0 /\ chains = 0
    /\ db = EmptyDb
    /\ proc = "down" /\ polled = 0 /\ queue = <<>>
    /\ stops = 0 /\ faults = 0

Next == ChainStep \/ FreshChain \/ IndexerStep \/ HandlerFails \/ Stops \/ StopsMidway

\* The process runs, and a supervisor restarts it.
Spec == Init /\ [][Next]_vars
FairSpec == Spec /\ WF_vars(IndexerStep)
=============================================================================
