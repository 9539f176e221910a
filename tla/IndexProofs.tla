----------------------------- MODULE IndexProofs -----------------------------
(***************************************************************************)
(* What the served tables owe the chain.  The invariant relates three      *)
(* things: the logs, each event legal after those before it; the queue,    *)
(* which holds every log of the scanned blocks that the cursors have not   *)
(* passed; and the tables, which are what the log behind the cursor says,  *)
(* but for the task of the next event if the process stopped while it was  *)
(* applied.  Running a handler from what a stop has left gives what an     *)
(* undisturbed run would have given.                                       *)
(***************************************************************************)
EXTENDS IndexSafety, DataProofs, SequenceTheorems

(* The tables of an earlier chain are never taken for this one's.          *)
AddressesDiffer == ~KeepsAddress \/ MaxChains = 0

-----------------------------------------------------------------------------
(* The logs.                                                               *)

CoreEvent ==
    [name : {"TaskCreated"}, task : Tasks, at : Nat, li : {0}, worker : Workers \cup {NoWorker}]
    \cup [name : {"TaskAccepted"}, task : Tasks, at : Nat, li : {0}, worker : Workers,
          stake : Nat, yes : Nat, no : {0}, cutoff : Nat]
    \cup [name : {"BetPlaced"}, task : Tasks, at : Nat, li : {0}, yes : Nat, no : Nat,
          cutoff : Nat]
    \cup [name : {"ExecutionStarted", "TaskCancelled"}, task : Tasks, at : Nat, li : {0}]
    \cup [name : {"DeliverySubmitted"}, task : Tasks, at : Nat, li : {1}]
    \cup [name : {"OutcomeResolved"}, task : Tasks, at : Nat, li : {0},
          outcome : {"Yes", "No"}, rule : 1..5, score : Nat]

ValEvent == [task : Tasks, at : Nat, li : {0}, score : Nat]

\* What the contract emits only in these states of the task.
Legal(s, e) ==
    LET state == StateOn(s, e.task) IN
    /\ e.name = "TaskCreated" => state = "none"
    /\ e.name = "TaskAccepted" => state = "Created" /\ e.yes = e.stake /\ e.at <= e.cutoff
    /\ e.name = "BetPlaced" =>
          state = "Open" /\ e.cutoff = Market(s, e.task).cutoff /\ e.at <= e.cutoff
    /\ e.name = "ExecutionStarted" => state = "Open"
    /\ e.name = "DeliverySubmitted" => state = "Executing"
    /\ e.name = "OutcomeResolved" =>
          state \in {"Open", "Delivered"} /\ (e.rule \in {2, 3} => state = "Delivered")
    /\ e.name = "TaskCancelled" => state = "Created"

\* What follows for a task from the log s.
Told(s, t) ==
    /\ StateOn(s, t) = "none" <=> Events(s, t) = {}
    /\ Taken(s, t) <=> StateOn(s, t) \in {"Open", "Executing", "Delivered", "Settled"}
    /\ Taken(s, t) =>
          /\ Market(s, t).cutoff \in Nat /\ Market(s, t).yes \in Nat /\ Market(s, t).no \in Nat
          /\ Taker(s, t).worker \in Workers /\ Taker(s, t).stake \in Nat
    /\ StateOn(s, t) = "Settled" <=> \E i \in Events(s, t) : s[i].name = "OutcomeResolved"
    /\ StateOn(s, t) = "Settled" =>
          Ending(s, t).outcome \in {"Yes", "No"} /\ Ending(s, t).rule \in 1..5
    /\ StateOn(s, t) = "Delivered" \/ (StateOn(s, t) = "Settled" /\ Ending(s, t).rule \in {2, 3}) =>
          \E i \in Events(s, t) : s[i].name = "DeliverySubmitted"

\* The log r is s with one more event.
Grown(r, s, e) == r = Append(s, e)

Before(e, f) == e.at < f.at \/ (e.at = f.at /\ e.li < f.li)
Sorted(log) == \A i, j \in DOMAIN log : i < j => Before(log[i], log[j])

\* The log r is s with more events, all after time h.
Longer(r, s, h) ==
    /\ Len(s) <= Len(r) /\ \A i \in 1..Len(s) : r[i] = s[i]
    /\ \A k \in 0..Len(s) : SubSeq(r, 1, k) = SubSeq(s, 1, k)
    /\ \A i \in DOMAIN r : i > Len(s) => r[i].at > h

\* What a cursor has passed of a log.
Past(log, cursor) ==
    {i \in DOMAIN log : ~(\/ log[i].at > cursor.bn
                          \/ log[i].at = cursor.bn /\ log[i].li > cursor.li)}
Count(log, cursor) == Cardinality(Past(log, cursor))
Timed(log) == Sorted(log) /\ \A i \in DOMAIN log : log[i].at \in Nat /\ log[i].li \in Nat

CoreShape(c, h) ==
    /\ c \in Seq(CoreEvent) /\ Sorted(c) /\ \A i \in DOMAIN c : c[i].at \in 1..h
    /\ \A k \in 1..Len(c) : Legal(SubSeq(c, 1, k - 1), c[k])
    /\ \A k \in 0..Len(c) : \A t \in Tasks : Told(SubSeq(c, 1, k), t)

\* A task is answered once, after it was delivered or settled, and what was
\* settled by its answer has the answer's score.
ValShape(c, v, h) ==
    /\ v \in Seq(ValEvent) /\ Sorted(v) /\ \A j \in DOMAIN v : v[j].at \in 1..h
    /\ \A i, j \in DOMAIN v : v[i].task = v[j].task => i = j
    /\ \A j \in DOMAIN v : \E i \in Events(c, v[j].task) :
          c[i].name \in {"DeliverySubmitted", "OutcomeResolved"} /\ c[i].at < v[j].at
    /\ \A i \in DOMAIN c : c[i].name = "OutcomeResolved" /\ c[i].rule \in {2, 3} =>
          \E j \in DOMAIN v : v[j].task = c[i].task /\ v[j].score = c[i].score

-----------------------------------------------------------------------------
(* The tables.                                                             *)

TaskRow == [state : {"Created", "Open", "Executing", "Delivered", "Settled", "Cancelled"},
            worker : Workers \cup {NoWorker}, stake : Nat, cutoff : Int, yes : Nat, no : Nat,
            outcome : {"-", "Yes", "No"}, rule : Int, score : Int, p : Int]
Point == [t : Nat, p : Int]
Cursor == [bn : Nat, li : Nat]

DbShape(d) ==
    /\ d = [tasks |-> d.tasks, bets |-> d.bets, odds |-> d.odds, trust |-> d.trust,
            reqhash |-> d.reqhash, cursor |-> d.cursor, lastBlock |-> d.lastBlock,
            deployment |-> d.deployment]
    /\ d.tasks \in [Tasks -> TaskRow \cup {NoRow}] /\ d.odds \in [Tasks -> Seq(Point)]
    /\ d.bets \in Seq(Nat) /\ d.trust = [w \in Workers |-> d.trust[w]]
    /\ d.reqhash \in SUBSET Tasks /\ d.cursor \in [core : Cursor, val : Cursor]
    /\ d.lastBlock \in Nat /\ d.deployment \in Nat

\* Only the row and the odds of t may differ, and the other tables.
Touches(d2, d, t) ==
    /\ d2.cursor = d.cursor /\ d2.lastBlock = d.lastBlock /\ d2.deployment = d.deployment
    /\ \A u \in Tasks : u # t => d2.tasks[u] = d.tasks[u] /\ d2.odds[u] = d.odds[u]
SameLists(d2, d) == d2.bets = d.bets /\ d2.reqhash = d.reqhash /\ d2.trust = d.trust
RowOnly(d2, d, t) ==
    DbShape(d2) /\ Touches(d2, d, t) /\ SameLists(d2, d) /\ d2.odds = d.odds
PointAdded(d2, d, t, point) ==
    /\ DbShape(d2) /\ Touches(d2, d, t) /\ SameLists(d2, d) /\ d2.tasks = d.tasks
    /\ d2.odds[t] = Append(d.odds[t], point)
SameTables(d2, d) == /\ d2.tasks = d.tasks /\ d2.odds = d.odds /\ SameLists(d2, d)
                     /\ d2.deployment = d.deployment
KeepsPlace(r2, r) == r2.worker = r.worker /\ r2.stake = r.stake /\ r2.cutoff = r.cutoff
KeepsPools(r2, r) == r2.yes = r.yes /\ r2.no = r.no
KeepsEnd(r2, r) == r2.outcome = r.outcome /\ r2.rule = r.rule /\ r2.score = r.score

\* The statements there are.
Words == {"insertTask", "markAccepted", "updatePools", "ensurePCutoff", "setExecuting",
          "markDelivered", "markSettled", "markCancelled", "setValidatorScore", "insertBet",
          "firstSnapshot", "insertSnapshot", "reqhash", "recomputeTrust", "cursor", "lastBlock"}

Price(s, t) == PBps(Market(s, t).yes, Market(s, t).no)
CreatedRow(e) == [state |-> "Created", worker |-> e.worker, stake |-> 0, cutoff |-> NULL,
                  yes |-> 0, no |-> 0, outcome |-> "-", rule |-> NULL, score |-> NULL, p |-> NULL]

\* Whose task it is until when; its pools; its odds.
Placed(row, s, t) == /\ row.worker = Taker(s, t).worker /\ row.stake = Taker(s, t).stake
                     /\ row.cutoff = Market(s, t).cutoff
Pooled(row, s, t) == row.yes = Market(s, t).yes /\ row.no = Market(s, t).no
Early(points, cutoff) == \A i \in DOMAIN points : points[i].t <= cutoff
Charted(points, s, t) == /\ points # <<>> /\ Last(points).p = Price(s, t)
                         /\ Early(points, Market(s, t).cutoff)
Traded(row, points, s, t) ==
    row # NoRow /\ Placed(row, s, t) /\ Pooled(row, s, t) /\ Charted(points, s, t)

\* The row and the odds of task t when the log s is applied.
RowIs(row, points, s, t) ==
    /\ row.state = StateOn(s, t) /\ (row = NoRow <=> StateOn(s, t) = "none")
    /\ Taken(s, t) => Traded(row, points, s, t)
    /\ ~Taken(s, t) => points = <<>>
    /\ Over(s, t) => row.p = Price(s, t)
    /\ ~Over(s, t) /\ row # NoRow => row.p = NULL
    /\ StateOn(s, t) = "Settled" =>
          row.outcome = Ending(s, t).outcome /\ row.rule = Ending(s, t).rule

\* The same when some statements of the handler of e may have run after s.
Partial(row, points, s, e) ==
    LET t == e.task IN
    CASE e.name = "TaskCreated" -> points = <<>> /\ row \in {NoRow, CreatedRow(e)}
      [] e.name = "TaskAccepted" ->
            /\ row # NoRow /\ row.state \in {"Created", "Open"} /\ row.p = NULL
            /\ Early(points, e.cutoff)
      [] e.name = "BetPlaced" ->
            /\ row # NoRow /\ row.state = "Open" /\ row.p = NULL
            /\ Placed(row, s, t) /\ Early(points, Market(s, t).cutoff)
      [] e.name = "ExecutionStarted" ->
            /\ Traded(row, points, s, t) /\ row.state \in {"Open", "Executing"}
            /\ row.p \in {NULL, Price(s, t)}
      [] e.name = "DeliverySubmitted" ->
            /\ Traded(row, points, s, t) /\ row.state \in {"Executing", "Delivered"}
            /\ row.p = Price(s, t)
      [] e.name = "OutcomeResolved" ->
            /\ Traded(row, points, s, t) /\ row.state \in {StateOn(s, t), "Settled"}
            /\ row.p \in {NULL, Price(s, t)}
            /\ row.state = "Settled" => row.outcome = e.outcome /\ row.rule = e.rule
      [] OTHER ->
            /\ row # NoRow /\ row.state \in {"Created", "Cancelled"} /\ row.p = NULL
            /\ points = <<>>

\* Some statements of the handler of e, the i-th event, have run; all have.  The
\* log s was applied to d0, and perhaps some of e already.
Doing(d, d0, s, e, i) ==
    LET t == e.task
        r == d.tasks[t]
        r0 == d0.tasks[t]
    IN  /\ DbShape(d) /\ Touches(d, d0, t) /\ d0.reqhash \subseteq d.reqhash
        /\ d.bets = d0.bets \/ (e.name = "BetPlaced" /\ d.bets = Append(d0.bets, i))
        /\ \A w \in Workers : \/ d.trust[w] = d0.trust[w]
                              \/ e.name = "OutcomeResolved" /\ r # NoRow /\ r.worker = w
        /\ Partial(r0, d0.odds[t], s, e) =>
              /\ Partial(r, d.odds[t], s, e)
              /\ e.name \notin {"TaskCreated", "OutcomeResolved"} => KeepsEnd(r, r0)
              /\ e.name = "OutcomeResolved" =>
                    \/ r.state = r0.state /\ KeepsEnd(r, r0)
                    \/ r.state = "Settled" /\ r.rule = e.rule /\ r.score = e.score
Done(d, d0, s, e, i) ==
    LET t == e.task
        r == d.tasks[t]
    IN  /\ Doing(d, d0, s, e, i)
        /\ e.name = "BetPlaced" => d.bets = Append(d0.bets, i)
        /\ e.name = "DeliverySubmitted" => t \in d.reqhash
        /\ e.name = "OutcomeResolved" /\ r # NoRow /\ r.worker \in Workers =>
              d.trust[r.worker] = TrustCore(SettledInputsFor(d, r.worker))
        /\ Partial(d0.tasks[t], d0.odds[t], s, e) =>
              /\ RowIs(r, d.odds[t], Append(s, e), t)
              /\ e.name = "OutcomeResolved" => r.score = e.score

\* The handler was stopped after some statement; it ran to its end.
Underway(d2, d, s, e, i) ==
    Doing(d2, d, s, e, i) \/ \E x : Done(x, d, s, e, i) /\ d2 = SetCursor(x, e, "core")
Finished(d2, d, s, e, i) ==
    \E x : Done(x, d, s, e, i) /\ d2 = SetLastBlock(SetCursor(x, e, "core"), e)

\* The tables d, when the first k events of the core's log c are applied, and
\* perhaps some of the next, if torn.
RowsOk(c, d, k, torn) ==
    \A t \in Tasks :
        \/ RowIs(d.tasks[t], d.odds[t], SubSeq(c, 1, k), t)
        \/ /\ torn /\ k < Len(c) /\ c[k + 1].task = t
           /\ Partial(d.tasks[t], d.odds[t], SubSeq(c, 1, k), c[k + 1])

TrustOk(c, d, k, torn) ==
    \A w \in Workers :
        \/ d.trust[w] = TrustCore(SettledInputsFor(d, w))
        \/ /\ torn /\ k < Len(c) /\ c[k + 1].name = "OutcomeResolved"
           /\ d.tasks[c[k + 1].task] # NoRow /\ d.tasks[c[k + 1].task].worker = w

\* Answers reach the rows: j of those in the registry's log v have been handled.
HashesOk(c, d, k) ==
    \A i \in 1..k : c[i].name = "DeliverySubmitted" => c[i].task \in d.reqhash
DecidedOk(v, d) ==
    \A t \in Tasks : d.tasks[t].state = "Settled" /\ d.tasks[t].rule \in {2, 3} =>
        \E m \in DOMAIN v : v[m].task = t /\ d.tasks[t].score = v[m].score
Answered(row, a) == \/ row.state = "Settled" /\ row.rule \notin {2, 3}
                    \/ row # NoRow /\ row.score = a.score
AnswersOk(v, d, j) == \A m \in 1..j : Answered(d.tasks[v[m].task], v[m])

TablesOk(c, v, d, k, j, torn) ==
    /\ RowsOk(c, d, k, torn) /\ TrustOk(c, d, k, torn)
    /\ HashesOk(c, d, k) /\ DecidedOk(v, d) /\ AnswersOk(v, d, j)

\* Bets of the first k events are there but for some that are lost, and more than
\* once only for some that are doubled.
BetsIn(c) == {i \in DOMAIN c : c[i].name = "BetPlaced"}
BetsOk(c, bets, k, lost, doubled) ==
    /\ Cardinality((BetsIn(c) \cap (1..k)) \ ToSet(bets)) <= lost
    /\ ToSet(bets) \subseteq BetsIn(c) \cap (1..(k + 1))
    /\ Len(bets) + (IF k + 1 \in ToSet(bets) THEN 1 ELSE 0) <= Cardinality(ToSet(bets)) + doubled

\* Answers wait for the deliveries and outcomes they are about.
AnsweredInOrder(c, v, k, j) ==
    \A m \in 1..j : \E i \in Events(c, v[m].task) :
        i <= k /\ c[i].name \in {"DeliverySubmitted", "OutcomeResolved"}

\* What the tables d keep of the logs, when so many events are lost or doubled.
Kept(c, v, d, k, j, lost, doubled) ==
    /\ AnsweredInOrder(c, v, k, j) /\ BetsOk(c, d.bets, k, lost, doubled)
    /\ lost = 0 => TablesOk(c, v, d, k, j, doubled > 0)

-----------------------------------------------------------------------------
(* The queue.                                                              *)

QueueItem == [src : {"core", "val", "head"}, i : Nat]

\* The queue q holds in order what of the log of src is in the blocks up to p and
\* is not among the first k.
Fits(q, log, src, p, k) ==
    /\ \A n \in DOMAIN q : q[n].src = src => q[n].i \in DOMAIN log /\ log[q[n].i].at <= p
    /\ \A m, n \in DOMAIN q : m < n /\ q[m].src = src /\ q[n].src = src => q[m].i < q[n].i
    /\ \A i \in DOMAIN log : log[i].at <= p => i <= k \/ \E n \in DOMAIN q : q[n] = Item(src, i)

\* Before an answer come the core's events that are as old.
AfterCore(q, c, v, k) ==
    \A n \in DOMAIN q : q[n].src = "val" =>
        \A i \in DOMAIN c : c[i].at <= v[q[n].i].at =>
            i <= k \/ \E m \in DOMAIN q : m < n /\ q[m] = Item("core", i)

QueueOk(q, c, v, p, k, j) ==
    /\ q \in Seq(QueueItem) /\ Fits(q, c, "core", p, k) /\ Fits(q, v, "val", p, j)
    /\ AfterCore(q, c, v, k) /\ \A n \in DOMAIN q : q[n].src = "head" => q[n].i <= p

\* The tables are this chain's.
Serves ==
    /\ db.deployment = chains /\ db.lastBlock <= head
    /\ \A src \in {"core", "val"} : db.cursor[src].bn <= head
    /\ Kept(core, val, db, Known("core"), Known("val"), faults, stops)

Follows ==
    /\ polled \in 0..head
    /\ QueueOk(queue, core, val, polled, Known("core"), Known("val"))
    /\ queue # <<>> => Last(queue) = Item("head", polled)
    /\ queue = <<>> => db.lastBlock = polled

IndexInv ==
    /\ head \in 0..MaxBlock /\ chains \in 0..MaxChains /\ stops \in Nat /\ faults \in Nat
    /\ CoreShape(core, head) /\ ValShape(core, val, head)
    /\ proc \in {"down", "booting", "catchup", "live"}
    /\ DbShape(db) /\ \A src \in {"core", "val"} : db.cursor[src].bn <= MaxBlock
    /\ db.deployment \in 0..chains
    /\ proc = "booting" => db.deployment # chains /\ core = <<>> /\ val = <<>>
    /\ proc # "booting" => Serves
    /\ IF Running THEN Follows ELSE queue = <<>>

(* The largest of some positions.                                          *)
LEMMA MaxIs ==
    ASSUME NEW L \in Nat, NEW S \in SUBSET (1..L), S # {}
    PROVE  Max(S) \in S /\ \A x \in S : x <= Max(S)
<1>1. \E m \in S : \A x \in S : x <= m
  BY LastOfSome
<1>2. \A x, m \in S : x <= m <=> m >= x
  OBVIOUS
<1> QED
  BY <1>1, <1>2 DEF Max

LEMMA MaxWhen ==
    ASSUME NEW L \in Nat, NEW S \in SUBSET (1..L), NEW m \in S, \A x \in S : x <= m
    PROVE  Max(S) = m
<1>1. Max(S) \in S /\ \A x \in S : x <= Max(S)
  BY MaxIs
<1>2. \A x \in S : x \in Nat
  OBVIOUS
<1>3. Max(S) <= m /\ m <= Max(S)
  BY <1>1
<1>4. Max(S) \in Nat /\ m \in Nat
  BY <1>1, <1>2
<1> QED
  BY <1>3, <1>4

(* A set of positions with all earlier ones is the interval it counts.     *)
LEMMA FirstOnes ==
    ASSUME NEW L \in Nat, NEW S \in SUBSET (1..L),
           \A j \in S : \A i \in 1..L : i < j => i \in S
    PROVE  Cardinality(S) \in 0..L /\ S = 1..Cardinality(S)
<1>1. CASE S = {}
  BY <1>1, FS_EmptySet
<1>2. CASE S # {}
  <2>1. Max(S) \in S /\ \A x \in S : x <= Max(S)
    BY <1>2, MaxIs
  <2>2. PICK m \in 1..L : m \in S /\ \A x \in S : x <= m
    BY <2>1
  <2>3. \A i : i \in S <=> i \in 1..m
    <3>1. ASSUME NEW i \in S PROVE i \in 1..m
      BY <2>2
    <3>2. ASSUME NEW i \in 1..m PROVE i \in S
      <4>1. i \in 1..L /\ (i < m \/ i = m)
        BY <2>2
      <4> QED
        BY <2>2, <4>1
    <3> QED
      BY <3>1, <3>2
  <2>5. S = 1..m
    BY <2>3
  <2>4. Cardinality(1..m) = m
    BY FS_Interval
  <2> QED
    BY <2>2, <2>4, <2>5
<1> QED
  BY <1>1, <1>2

LEMMA PrefixGrows ==
    ASSUME NEW R, NEW s \in Seq(R), NEW k \in 0..(Len(s) - 1)
    PROVE  /\ SubSeq(s, 1, k) \in Seq(R) /\ s[k + 1] \in R
           /\ SubSeq(s, 1, k + 1) = Append(SubSeq(s, 1, k), s[k + 1])
<1>1. \A n \in 0..Len(s) : /\ SubSeq(s, 1, n) \in Seq(R) /\ Len(SubSeq(s, 1, n)) = n
                           /\ \A i \in 1..n : SubSeq(s, 1, n)[i] = s[i]
  <2> TAKE n \in 0..Len(s)
  <2>1. \A i \in 1..n : s[i] \in R
    OBVIOUS
  <2> QED
    BY <2>1, SubSeqProperties
<1>2. k \in 0..Len(s) /\ k + 1 \in 0..Len(s)
  OBVIOUS
<1> DEFINE a == SubSeq(s, 1, k)
           b == SubSeq(s, 1, k + 1)
<1>3. /\ a \in Seq(R) /\ Len(a) = k /\ \A i \in 1..k : a[i] = s[i]
      /\ b \in Seq(R) /\ Len(b) = k + 1 /\ \A i \in 1..(k + 1) : b[i] = s[i]
  BY <1>1, <1>2
<1>4. s[k + 1] \in R
  OBVIOUS
<1> HIDE DEF a, b
<1>5. b = Append(a, s[k + 1])
  <2>1. /\ Append(a, s[k + 1]) \in Seq(R) /\ Len(Append(a, s[k + 1])) = k + 1
        /\ \A i \in 1..k : Append(a, s[k + 1])[i] = a[i]
        /\ Append(a, s[k + 1])[k + 1] = s[k + 1]
    BY <1>3, <1>4, AppendProperties
  <2>2. \A i \in 1..(k + 1) : Append(a, s[k + 1])[i] = b[i]
    BY <1>2, <1>3, <2>1
  <2> QED
    BY <1>3, <2>1, <2>2, SeqEqual
<1> QED
  BY <1>3, <1>4, <1>5 DEF a, b

LEMMA PrefixOfAppend ==
    ASSUME NEW R, NEW s \in Seq(R), NEW e \in R, NEW k \in 0..Len(s)
    PROVE  SubSeq(Append(s, e), 1, k) = SubSeq(s, 1, k)
<1>1. /\ Append(s, e) \in Seq(R) /\ Len(Append(s, e)) = Len(s) + 1
      /\ \A i \in 1..Len(s) : Append(s, e)[i] = s[i]
  BY AppendProperties
<1>2. \A i \in 1..k : s[i] \in R /\ Append(s, e)[i] = s[i]
  BY <1>1
<1> DEFINE a == SubSeq(s, 1, k)
           b == SubSeq(Append(s, e), 1, k)
<1>3. /\ a \in Seq(R) /\ Len(a) = k /\ \A i \in 1..k : a[i] = s[i]
      /\ b \in Seq(R) /\ Len(b) = k /\ \A i \in 1..k : b[i] = Append(s, e)[i]
  BY <1>2, SubSeqProperties
<1> HIDE DEF a, b
<1>4. a = b
  BY <1>2, <1>3, SeqEqual
<1> QED
  BY <1>4 DEF a, b

(* What one more event changes about the tasks.                            *)
LEMMA Extended ==
    ASSUME NEW R, NEW s \in Seq(R), NEW e \in R
    PROVE  /\ DOMAIN s = 1..Len(s) /\ DOMAIN Append(s, e) = 1..(Len(s) + 1) /\ Len(s) \in Nat
           /\ \A i \in 1..Len(s) : Append(s, e)[i] = s[i]
           /\ Append(s, e)[Len(s) + 1] = e
BY AppendProperties

LEMMA LatestKept ==
    ASSUME NEW R, NEW s \in Seq(R), NEW e \in R, NEW t, NEW names,
           e.task # t \/ e.name \notin names,
           NEW k \in Events(s, t), s[k].name \in names
    PROVE  Latest(Append(s, e), t, names) = Latest(s, t, names)
<1> DEFINE r == Append(s, e)
           S == {i \in Events(s, t) : s[i].name \in names}
<1>1. /\ DOMAIN s = 1..Len(s) /\ DOMAIN r = 1..(Len(s) + 1) /\ Len(s) \in Nat
      /\ \A i \in 1..Len(s) : r[i] = s[i]
      /\ r[Len(s) + 1] = e
  BY Extended
<1> HIDE DEF r
<1>2. {i \in Events(r, t) : r[i].name \in names} = S
  BY <1>1 DEF Events
<1>3. S \in SUBSET (1..Len(s)) /\ S # {}
  BY <1>1 DEF Events
<1>4. Max(S) \in 1..Len(s)
  BY <1>1, <1>3, MaxIs
<1> QED
  BY <1>1, <1>2, <1>4 DEF Latest, r

LEMMA LatestIsNew ==
    ASSUME NEW R, NEW s \in Seq(R), NEW e \in R, NEW names, e.name \in names
    PROVE  Latest(Append(s, e), e.task, names) = e
<1> DEFINE r == Append(s, e)
           S == {i \in Events(r, e.task) : r[i].name \in names}
<1>1. /\ DOMAIN s = 1..Len(s) /\ DOMAIN r = 1..(Len(s) + 1) /\ Len(s) \in Nat
      /\ \A i \in 1..Len(s) : r[i] = s[i]
      /\ r[Len(s) + 1] = e
  BY Extended
<1> HIDE DEF r
<1>2. S \in SUBSET (1..(Len(s) + 1)) /\ Len(s) + 1 \in S
  BY <1>1 DEF Events
<1>3. \A x \in S : x <= Len(s) + 1
  BY <1>1, <1>2
<1> HIDE DEF S
<1>4. Max(S) = Len(s) + 1
  <2>1. Len(s) + 1 \in Nat
    BY <1>1
  <2> QED
    BY <2>1, <1>2, <1>3, MaxWhen
<1> QED
  BY <1>1, <1>4 DEF Latest, r, S

LEMMA OthersStay ==
    ASSUME NEW s \in Seq(CoreEvent), NEW e \in CoreEvent, NEW t, e.task # t,
           NEW r, Grown(r, s, e)
    PROVE  /\ Events(r, t) = Events(s, t)
           /\ StateOn(r, t) = StateOn(s, t)
           /\ Taken(r, t) <=> Taken(s, t)
           /\ Taken(s, t) => /\ Market(r, t) = Market(s, t)
                             /\ Taker(r, t) = Taker(s, t)
           /\ StateOn(s, t) # "none" => Ending(r, t) = Ending(s, t)
           /\ \A i \in Events(s, t) : r[i] = s[i]
<1>1. /\ DOMAIN s = 1..Len(s) /\ DOMAIN r = 1..(Len(s) + 1) /\ Len(s) \in Nat
      /\ \A i \in 1..Len(s) : r[i] = s[i]
      /\ r[Len(s) + 1] = e
  BY Extended DEF Grown
<1>2. Taken(s, t) => Market(r, t) = Market(s, t) /\ Taker(r, t) = Taker(s, t)
  <2> HAVE Taken(s, t)
  <2>1. PICK k \in Events(s, t) : s[k].name = "TaskAccepted"
    BY DEF Taken
  <2> QED
    BY <2>1, LatestKept DEF Market, Taker, Grown
<1>3. Events(r, t) = Events(s, t) /\ \A i \in Events(s, t) : r[i] = s[i]
  BY <1>1 DEF Events
<1>4. Events(s, t) # {} => r[Max(Events(s, t))] = s[Max(Events(s, t))]
  <2> HAVE Events(s, t) # {}
  <2>1. Events(s, t) \in SUBSET (1..Len(s))
    BY <1>1 DEF Events
  <2>2. Max(Events(s, t)) \in Events(s, t)
    BY <1>1, <2>1, MaxIs
  <2> QED
    BY <1>3, <2>2
<1>5. StateOn(r, t) = StateOn(s, t)
  BY <1>3, <1>4 DEF StateOn
<1>6. StateOn(s, t) # "none" => Ending(r, t) = Ending(s, t)
  BY <1>3, <1>4 DEF StateOn, Ending
<1>7. Taken(r, t) <=> Taken(s, t)
  BY <1>3 DEF Taken
<1> QED
  BY <1>2, <1>3, <1>5, <1>6, <1>7

LEMMA ItsOwn ==
    ASSUME NEW s \in Seq(CoreEvent), NEW e \in CoreEvent, NEW t, e.task = t, NEW r, Grown(r, s, e)
    PROVE  /\ \A i : i \in Events(r, t) <=> i \in Events(s, t) \/ i = Len(r)
           /\ r[Len(r)] = e
           /\ StateOn(r, t) = StateAfter[e.name] /\ Ending(r, t) = e
           /\ Taken(r, t) <=> (e.name = "TaskAccepted" \/ Taken(s, t))
           /\ e.name = "TaskAccepted" => Market(r, t) = e /\ Taker(r, t) = e
           /\ e.name = "BetPlaced" => Market(r, t) = e
           /\ Taken(s, t) /\ e.name # "TaskAccepted" =>
                 /\ Taker(r, t) = Taker(s, t)
                 /\ e.name # "BetPlaced" => Market(r, t) = Market(s, t)
           /\ \A i \in Events(s, t) : r[i] = s[i]
<1>1. /\ DOMAIN s = 1..Len(s) /\ DOMAIN r = 1..(Len(s) + 1) /\ Len(s) \in Nat
      /\ \A i \in 1..Len(s) : r[i] = s[i]
      /\ r[Len(s) + 1] = e
  BY Extended DEF Grown
<1>2. ASSUME Taken(s, t), e.name # "TaskAccepted"
      PROVE  Taker(r, t) = Taker(s, t) /\ (e.name # "BetPlaced" => Market(r, t) = Market(s, t))
  <2>1. PICK k \in Events(s, t) : s[k].name = "TaskAccepted"
    BY <1>2 DEF Taken
  <2>2. Taker(r, t) = Taker(s, t)
    BY <1>2, <2>1, LatestKept DEF Taker, Grown
  <2>3. e.name # "BetPlaced" => Market(r, t) = Market(s, t)
    BY <1>2, <2>1, LatestKept DEF Market, Grown
  <2> QED
    BY <2>2, <2>3
<1>3. e.name \in {"TaskAccepted", "BetPlaced"} => Market(r, t) = e
  BY LatestIsNew DEF Market, Grown
<1>4. e.name = "TaskAccepted" => Taker(r, t) = e
  BY LatestIsNew DEF Taker, Grown
<1>5. Events(r, t) = Events(s, t) \cup {Len(s) + 1} /\ \A i \in Events(s, t) : r[i] = s[i]
  BY <1>1 DEF Events
<1>6. Max(Events(r, t)) = Len(s) + 1
  <2>1. Events(r, t) \in SUBSET (1..(Len(s) + 1)) /\ Len(s) + 1 \in Events(r, t) /\ Len(s) + 1 \in Nat
    BY <1>1, <1>5 DEF Events
  <2>2. \A x \in Events(r, t) : x <= Len(s) + 1
    BY <1>1, <2>1
  <2> QED
    BY <2>1, <2>2, MaxWhen
<1>7. StateOn(r, t) = StateAfter[e.name] /\ Ending(r, t) = e
  BY <1>1, <1>5, <1>6 DEF StateOn, Ending
<1>8. Taken(r, t) <=> (e.name = "TaskAccepted" \/ Taken(s, t))
  BY <1>1, <1>5 DEF Taken
<1>9. Len(r) = Len(s) + 1
  BY AppendProperties DEF Grown
<1> QED
  BY <1>1, <1>2, <1>3, <1>4, <1>5, <1>7, <1>8, <1>9

(* The chain's steps keep the shape of the logs.                           *)
LEMMA EventParts ==
    ASSUME NEW e \in CoreEvent
    PROVE  /\ e.task \in Tasks /\ e.at \in Nat /\ e.li \in Nat
           /\ e.name \in {"TaskCreated", "TaskAccepted", "BetPlaced", "ExecutionStarted",
                          "TaskCancelled", "DeliverySubmitted", "OutcomeResolved"}
           /\ e.name = "TaskCreated" => e.worker \in Workers \cup {NoWorker}
           /\ e.name = "TaskAccepted" =>
                 e.worker \in Workers /\ e.stake \in Nat /\ e.yes \in Nat /\ e.no = 0 /\ e.cutoff \in Nat
           /\ e.name = "BetPlaced" => e.yes \in Nat /\ e.no \in Nat /\ e.cutoff \in Nat
           /\ e.name = "OutcomeResolved" =>
                 e.outcome \in {"Yes", "No"} /\ e.rule \in 1..5 /\ e.score \in Nat
BY DEF CoreEvent

LEMMA ToldGrows ==
    ASSUME NEW s \in Seq(CoreEvent), NEW e \in CoreEvent, NEW t \in Tasks, Told(s, t), Legal(s, e)
    PROVE  Told(Append(s, e), t)
<1> DEFINE r == Append(s, e)
<1> HIDE DEF r
<1>0. Grown(r, s, e)
  BY DEF r, Grown
<1>1. CASE e.task # t
  <2>1. /\ Events(r, t) = Events(s, t) /\ StateOn(r, t) = StateOn(s, t) /\ (Taken(r, t) <=> Taken(s, t))
        /\ Taken(s, t) => Market(r, t) = Market(s, t) /\ Taker(r, t) = Taker(s, t)
        /\ StateOn(s, t) # "none" => Ending(r, t) = Ending(s, t)
        /\ \A i \in Events(s, t) : r[i] = s[i]
    BY <1>0, <1>1, OthersStay
  <2>2. Told(r, t)
    BY <2>1 DEF Told
  <2> QED
    BY <2>2 DEF r
<1>2. CASE e.task = t
  <2>1. /\ \A i : i \in Events(r, t) <=> i \in Events(s, t) \/ i = Len(r)
        /\ r[Len(r)] = e
        /\ StateOn(r, t) = StateAfter[e.name] /\ Ending(r, t) = e
        /\ Taken(r, t) <=> (e.name = "TaskAccepted" \/ Taken(s, t))
        /\ e.name = "TaskAccepted" => Market(r, t) = e /\ Taker(r, t) = e
        /\ e.name = "BetPlaced" => Market(r, t) = e
        /\ Taken(s, t) /\ e.name # "TaskAccepted" =>
              /\ Taker(r, t) = Taker(s, t)
              /\ e.name # "BetPlaced" => Market(r, t) = Market(s, t)
        /\ \A i \in Events(s, t) : r[i] = s[i]
    BY <1>0, <1>2, ItsOwn
  <2>2. /\ e.name \in {"TaskCreated", "TaskAccepted", "BetPlaced", "ExecutionStarted",
                       "TaskCancelled", "DeliverySubmitted", "OutcomeResolved"}
        /\ StateOn(r, t) = StateAfter[e.name]
    BY <2>1, EventParts
  <2>3. StateOn(r, t) # "none" /\ Events(r, t) # {}
    BY <2>1, <2>2 DEF StateAfter
  <2>4. Taken(r, t) <=> StateOn(r, t) \in {"Open", "Executing", "Delivered", "Settled"}
    BY <1>2, <2>1, <2>2 DEF Told, Legal, StateAfter
  <2>5. Taken(r, t) =>
          /\ Market(r, t).cutoff \in Nat /\ Market(r, t).yes \in Nat /\ Market(r, t).no \in Nat
          /\ Taker(r, t).worker \in Workers /\ Taker(r, t).stake \in Nat
    BY <1>2, <2>1, EventParts DEF Told
  <2>6. StateOn(r, t) = "Settled" <=> e.name = "OutcomeResolved"
    BY <2>2 DEF StateAfter
  <2>7. StateOn(s, t) # "Settled"
    BY <1>2, <2>2 DEF Legal
  <2>8. StateOn(r, t) = "Settled" <=> \E i \in Events(r, t) : r[i].name = "OutcomeResolved"
    BY <2>1, <2>6, <2>7 DEF Told
  <2>9. StateOn(r, t) = "Settled" => Ending(r, t).outcome \in {"Yes", "No"} /\ Ending(r, t).rule \in 1..5
    BY <2>1, <2>6, EventParts
  <2>10. StateOn(r, t) = "Delivered" \/ (StateOn(r, t) = "Settled" /\ Ending(r, t).rule \in {2, 3}) =>
             \E i \in Events(r, t) : r[i].name = "DeliverySubmitted"
    <3>1. StateOn(r, t) = "Delivered" <=> e.name = "DeliverySubmitted"
      BY <2>2 DEF StateAfter
    <3>2. e.name = "OutcomeResolved" /\ e.rule \in {2, 3} => StateOn(s, t) = "Delivered"
      BY <1>2 DEF Legal
    <3> QED
      BY <2>1, <2>6, <3>1, <3>2 DEF Told
  <2>11. Told(r, t)
    BY <2>3, <2>4, <2>5, <2>8, <2>9, <2>10 DEF Told
  <2> QED
    BY <2>11 DEF r
<1> QED
  BY <1>1, <1>2

LEMMA PrefixesAre ==
    ASSUME NEW R, NEW s \in Seq(R), NEW k \in 0..Len(s)
    PROVE  /\ SubSeq(s, 1, k) \in Seq(R) /\ Len(SubSeq(s, 1, k)) = k
           /\ \A i \in 1..k : SubSeq(s, 1, k)[i] = s[i]
           /\ SubSeq(s, 1, Len(s)) = s
<1>1. \A i \in 1..k : s[i] \in R
  OBVIOUS
<1>2. SubSeq(s, 1, Len(s)) = s
  BY SubSeqFull
<1> QED
  BY <1>1, <1>2, SubSeqProperties

LEMMA CoreGrows ==
    ASSUME NEW c, NEW h \in Nat, NEW g \in Nat, h <= g, CoreShape(c, h),
           NEW e \in CoreEvent, e.at \in 1..g, \A i \in DOMAIN c : Before(c[i], e), Legal(c, e)
    PROVE  CoreShape(Append(c, e), g)
<1> DEFINE r == Append(c, e)
<1>1. /\ c \in Seq(CoreEvent) /\ Sorted(c) /\ \A i \in DOMAIN c : c[i].at \in 1..h
      /\ \A k \in 1..Len(c) : Legal(SubSeq(c, 1, k - 1), c[k])
      /\ \A k \in 0..Len(c) : \A t \in Tasks : Told(SubSeq(c, 1, k), t)
  BY DEF CoreShape
<1>2. /\ DOMAIN c = 1..Len(c) /\ DOMAIN r = 1..(Len(c) + 1) /\ Len(c) \in Nat
      /\ \A i \in 1..Len(c) : r[i] = c[i]
      /\ r[Len(c) + 1] = e
  BY <1>1, Extended
<1>3. r \in Seq(CoreEvent) /\ Len(r) = Len(c) + 1
  BY <1>1, AppendProperties
<1>4. \A k \in 0..Len(c) : SubSeq(r, 1, k) = SubSeq(c, 1, k)
  BY <1>1, PrefixOfAppend
<1>5. SubSeq(c, 1, Len(c)) = c /\ SubSeq(r, 1, Len(c) + 1) = r
  BY <1>1, <1>3, SubSeqFull
<1> HIDE DEF r
<1>6. Sorted(r)
  <2>1. ASSUME NEW i \in DOMAIN r, NEW j \in DOMAIN r, i < j PROVE Before(r[i], r[j])
    <3>1. i \in 1..Len(c)
      BY <1>2, <2>1
    <3>2. CASE j \in 1..Len(c)
      BY <1>1, <1>2, <2>1, <3>1, <3>2 DEF Sorted
    <3>3. CASE j = Len(c) + 1
      BY <1>2, <3>1, <3>3
    <3> QED
      BY <1>2, <3>2, <3>3
  <2> QED
    BY <2>1 DEF Sorted
<1>7. \A i \in DOMAIN r : r[i].at \in 1..g
  BY <1>1, <1>2
<1>8. \A k \in 1..Len(r) : Legal(SubSeq(r, 1, k - 1), r[k])
  <2> TAKE k \in 1..Len(r)
  <2>1. CASE k \in 1..Len(c)
    <3>1. SubSeq(r, 1, k - 1) = SubSeq(c, 1, k - 1)
      <4>1. k - 1 \in 0..Len(c)
        BY <1>2, <2>1
      <4> QED
        BY <1>4, <4>1
    <3> QED
      BY <1>1, <1>2, <2>1, <3>1
  <2>2. CASE k = Len(c) + 1
    <3>1. k - 1 = Len(c) /\ Len(c) \in 0..Len(c)
      BY <1>2, <2>2
    <3>2. SubSeq(r, 1, k - 1) = c
      BY <1>4, <1>5, <3>1
    <3> QED
      BY <1>2, <2>2, <3>2
  <2> QED
    BY <1>2, <1>3, <2>1, <2>2
<1>9. \A k \in 0..Len(r) : \A t \in Tasks : Told(SubSeq(r, 1, k), t)
  <2> TAKE k \in 0..Len(r)
  <2> TAKE t \in Tasks
  <2>1. CASE k \in 0..Len(c)
    BY <1>1, <1>4, <2>1
  <2>2. CASE k = Len(c) + 1
    <3>1. Told(c, t)
      <4>1. Len(c) \in 0..Len(c)
        BY <1>2
      <4> QED
        BY <1>1, <1>5, <4>1
    <3>2. Told(r, t)
      BY <1>1, <3>1, ToldGrows DEF r
    <3> QED
      BY <1>5, <2>2, <3>2
  <2> QED
    BY <1>2, <1>3, <2>1, <2>2
<1> QED
  BY <1>3, <1>6, <1>7, <1>8, <1>9 DEF CoreShape, r

LEMMA ValKept ==
    ASSUME NEW c \in Seq(CoreEvent), NEW v, NEW h \in Nat, NEW g \in Nat, h <= g, ValShape(c, v, h),
           NEW e \in CoreEvent,
           e.name = "OutcomeResolved" /\ e.rule \in {2, 3} =>
               \E j \in DOMAIN v : v[j].task = e.task /\ v[j].score = e.score
    PROVE  ValShape(Append(c, e), v, g)
<1> DEFINE r == Append(c, e)
<1>1. /\ DOMAIN c = 1..Len(c) /\ DOMAIN r = 1..(Len(c) + 1) /\ Len(c) \in Nat
      /\ \A i \in 1..Len(c) : r[i] = c[i]
      /\ r[Len(c) + 1] = e
  BY Extended
<1> HIDE DEF r
<1>2. \A t : \A i \in Events(c, t) : i \in Events(r, t) /\ r[i] = c[i]
  BY <1>1 DEF Events
<1>3. v \in Seq(ValEvent) /\ Sorted(v) /\ \A j \in DOMAIN v : v[j].at \in 1..g
  BY DEF ValShape
<1>4. \A i, j \in DOMAIN v : v[i].task = v[j].task => i = j
  BY DEF ValShape
<1>5. \A j \in DOMAIN v : \E i \in Events(r, v[j].task) :
          r[i].name \in {"DeliverySubmitted", "OutcomeResolved"} /\ r[i].at < v[j].at
  <2> TAKE j \in DOMAIN v
  <2>1. PICK i \in Events(c, v[j].task) :
            c[i].name \in {"DeliverySubmitted", "OutcomeResolved"} /\ c[i].at < v[j].at
    BY DEF ValShape
  <2>2. i \in Events(r, v[j].task) /\ r[i] = c[i]
    BY <1>2
  <2> QED
    BY <2>1, <2>2
<1>6. \A i \in DOMAIN r : r[i].name = "OutcomeResolved" /\ r[i].rule \in {2, 3} =>
          \E j \in DOMAIN v : v[j].task = r[i].task /\ v[j].score = r[i].score
  <2> TAKE i \in DOMAIN r
  <2>1. CASE i \in 1..Len(c)
    <3>1. i \in DOMAIN c /\ r[i] = c[i]
      BY <1>1, <2>1
    <3> QED
      BY <3>1 DEF ValShape
  <2>2. CASE i = Len(c) + 1
    BY <1>1, <2>2
  <2> QED
    BY <1>1, <2>1, <2>2
<1>7. ValShape(r, v, g)
  BY <1>3, <1>4, <1>5, <1>6 DEF ValShape
<1> QED
  BY <1>7 DEF r

LEMMA AnswerAdds ==
    ASSUME NEW c, NEW v, NEW h \in Nat, ValShape(c, v, h),
           NEW a \in ValEvent, a.at = h + 1, \A j \in DOMAIN v : v[j].task # a.task,
           NEW i \in Events(c, a.task), c[i].name \in {"DeliverySubmitted", "OutcomeResolved"},
           c[i].at \in 1..h
    PROVE  ValShape(c, Append(v, a), h + 1)
<1> DEFINE w == Append(v, a)
<1>1. v \in Seq(ValEvent)
  BY DEF ValShape
<1>2. /\ DOMAIN v = 1..Len(v) /\ DOMAIN w = 1..(Len(v) + 1) /\ Len(v) \in Nat
      /\ \A j \in 1..Len(v) : w[j] = v[j]
      /\ w[Len(v) + 1] = a
  BY <1>1, Extended
<1>3. w \in Seq(ValEvent)
  BY <1>1, AppendProperties
<1> HIDE DEF w
<1>4. \A j \in DOMAIN w : w[j].at \in 1..(h + 1)
  <2> TAKE j \in DOMAIN w
  <2>1. CASE j \in 1..Len(v)
    BY <1>2, <2>1 DEF ValShape
  <2>2. CASE j = Len(v) + 1
    BY <1>2, <2>2
  <2> QED
    BY <1>2, <2>1, <2>2
<1>5. Sorted(w)
  <2>1. ASSUME NEW m \in DOMAIN w, NEW n \in DOMAIN w, m < n PROVE Before(w[m], w[n])
    <3>1. m \in 1..Len(v)
      BY <1>2, <2>1
    <3>2. CASE n \in 1..Len(v)
      BY <1>2, <2>1, <3>1, <3>2 DEF ValShape, Sorted
    <3>3. CASE n = Len(v) + 1
      <4>1. v[m].at \in 1..h
        BY <1>2, <3>1 DEF ValShape
      <4> QED
        BY <1>2, <3>1, <3>3, <4>1 DEF Before
    <3> QED
      BY <1>2, <3>2, <3>3
  <2> QED
    BY <2>1 DEF Sorted
<1>6. \A m, n \in DOMAIN w : w[m].task = w[n].task => m = n
  <2>1. ASSUME NEW m \in DOMAIN w, NEW n \in DOMAIN w, w[m].task = w[n].task, m # n
        PROVE  FALSE
    <3>1. CASE m \in DOMAIN v /\ n \in DOMAIN v
      BY <1>2, <2>1, <3>1 DEF ValShape
    <3>2. CASE m \in DOMAIN v /\ n = Len(v) + 1
      BY <1>2, <2>1, <3>2
    <3>3. CASE m = Len(v) + 1 /\ n \in DOMAIN v
      BY <1>2, <2>1, <3>3
    <3> QED
      BY <1>2, <2>1, <3>1, <3>2, <3>3
  <2> QED
    BY <2>1
<1>7. \A j \in DOMAIN w : \E k \in Events(c, w[j].task) :
          c[k].name \in {"DeliverySubmitted", "OutcomeResolved"} /\ c[k].at < w[j].at
  <2> TAKE j \in DOMAIN w
  <2>1. CASE j \in 1..Len(v)
    BY <1>2, <2>1 DEF ValShape
  <2>2. CASE j = Len(v) + 1
    <3>1. c[i].at < a.at
      OBVIOUS
    <3> QED
      BY <1>2, <2>2, <3>1
  <2> QED
    BY <1>2, <2>1, <2>2
<1>8. \A k \in DOMAIN c : c[k].name = "OutcomeResolved" /\ c[k].rule \in {2, 3} =>
          \E j \in DOMAIN w : w[j].task = c[k].task /\ w[j].score = c[k].score
  <2> TAKE k \in DOMAIN c
  <2> HAVE c[k].name = "OutcomeResolved" /\ c[k].rule \in {2, 3}
  <2>1. PICK j \in DOMAIN v : v[j].task = c[k].task /\ v[j].score = c[k].score
    BY DEF ValShape
  <2>2. j \in DOMAIN w /\ w[j] = v[j]
    BY <1>2
  <2> QED
    BY <2>1, <2>2
<1>9. ValShape(c, w, h + 1)
  BY <1>3, <1>4, <1>5, <1>6, <1>7, <1>8 DEF ValShape
<1> QED
  BY <1>9 DEF w

(* The log r is s with more events, which are after time h.                *)
LEMMA LongerByOne ==
    ASSUME NEW R, NEW s \in Seq(R), NEW e \in R, NEW h, e.at > h
    PROVE  Longer(Append(s, e), s, h)
<1>1. Append(s, e) \in Seq(R) /\ Len(Append(s, e)) = Len(s) + 1
  BY AppendProperties
<1>2. \A i \in DOMAIN Append(s, e) : i > Len(s) => Append(s, e)[i].at > h
  BY Extended
<1>3. \A k \in 0..Len(s) : SubSeq(Append(s, e), 1, k) = SubSeq(s, 1, k)
  BY PrefixOfAppend
<1>4. \A i \in 1..Len(s) : Append(s, e)[i] = s[i]
  BY Extended
<1> QED
  BY <1>1, <1>2, <1>3, <1>4 DEF Longer

LEMMA ToldNow ==
    ASSUME NEW c, NEW h, CoreShape(c, h), NEW t \in Tasks
    PROVE  c \in Seq(CoreEvent) /\ Told(c, t)
<1>1. c \in Seq(CoreEvent) /\ \A k \in 0..Len(c) : Told(SubSeq(c, 1, k), t)
  BY DEF CoreShape
<1>2. SubSeq(c, 1, Len(c)) = c /\ Len(c) \in 0..Len(c)
  BY <1>1, SubSeqFull
<1> QED
  BY <1>1, <1>2

LEMMA OneEvent ==
    ASSUME NEW c, NEW v, NEW h \in Nat, CoreShape(c, h), ValShape(c, v, h),
           NEW e \in CoreEvent, e.at = h + 1, Legal(c, e),
           e.name = "OutcomeResolved" /\ e.rule \in {2, 3} =>
               \E j \in DOMAIN v : v[j].task = e.task /\ v[j].score = e.score
    PROVE  /\ CoreShape(Append(c, e), h + 1) /\ ValShape(Append(c, e), v, h + 1)
           /\ Longer(Append(c, e), c, h)
<1>1. c \in Seq(CoreEvent) /\ \A i \in DOMAIN c : c[i].at \in 1..h
  BY DEF CoreShape
<1>2. \A i \in DOMAIN c : Before(c[i], e)
  BY <1>1 DEF Before
<1>3. CoreShape(Append(c, e), h + 1)
  BY <1>2, CoreGrows
<1>4. ValShape(Append(c, e), v, h + 1)
  BY <1>1, ValKept
<1>5. Longer(Append(c, e), c, h)
  BY <1>1, LongerByOne
<1> QED
  BY <1>3, <1>4, <1>5

LEMMA Emitted ==
    ASSUME head \in Nat, CoreShape(core, head), ValShape(core, val, head),
           NEW e \in CoreEvent, e.at = head + 1, Legal(core, e),
           e.name = "OutcomeResolved" /\ e.rule \in {2, 3} =>
               \E j \in DOMAIN val : val[j].task = e.task /\ val[j].score = e.score,
           Emits(<<e>>)
    PROVE  CoreShape(core', head') /\ ValShape(core', val', head') /\ Longer(core', core, head)
<1>1. core' = core \o <<e>> /\ head' = head + 1 /\ val' = val
  BY DEF Emits
<1>2. core \in Seq(CoreEvent)
  BY DEF CoreShape
<1>3. core' = Append(core, e)
  BY <1>1, <1>2, AppendIsConcat
<1> QED
  BY <1>1, <1>3, OneEvent

LEMMA Unanswered ==
    ASSUME NEW c, NEW v, NEW h, ValShape(c, v, h)
    PROVE  Longer(v, v, h)
<1>1. v \in Seq(ValEvent)
  BY DEF ValShape
<1> QED
  BY <1>1 DEF Longer

LEMMA ChainGrows ==
    ASSUME head \in 0..MaxBlock, CoreShape(core, head), ValShape(core, val, head), ChainStep
    PROVE  /\ head' \in 0..MaxBlock /\ head <= head'
           /\ CoreShape(core', head') /\ ValShape(core', val', head')
           /\ Longer(core', core, head) /\ Longer(val', val, head)
           /\ proc # "booting" /\ UNCHANGED <<chains, db, procVars, stops, faults>>
<1>1. MaxBlock \in Nat /\ head \in Nat
  BY IndexAssumption
<1>2. core \in Seq(CoreEvent) /\ \A t \in Tasks : Told(core, t)
  <2>1. core \in Seq(CoreEvent)
    BY DEF CoreShape
  <2> QED
    BY <2>1, ToldNow
<1>3. Longer(core, core, head) /\ Longer(val, val, head)
  BY <1>2, Unanswered DEF Longer
<1>4. ASSUME NEW t \in Tasks, Creates(t)
      PROVE  CoreShape(core', head') /\ ValShape(core', val', head') /\ Longer(core', core, head)
  <2>1. PICK w \in CreatedFor :
            Emits(<<[name |-> "TaskCreated", task |-> t, at |-> head + 1, li |-> 0, worker |-> w]>>)
    BY <1>4 DEF Creates
  <2> DEFINE e == [name |-> "TaskCreated", task |-> t, at |-> head + 1, li |-> 0, worker |-> w]
  <2>2. e \in CoreEvent
    BY <1>1, IndexAssumption DEF CoreEvent
  <2>3. Legal(core, e)
    BY <1>4 DEF Creates, On, Legal
  <2>4. e.at = head + 1 /\ e.name = "TaskCreated"
    OBVIOUS
  <2> HIDE DEF e
  <2> QED
    BY <1>1, <2>1, <2>2, <2>3, <2>4, Emitted DEF e
<1>5. ASSUME NEW t \in Tasks, Accepts(t)
      PROVE  CoreShape(core', head') /\ ValShape(core', val', head') /\ Longer(core', core, head)
  <2> DEFINE event(w, stake) ==
          [name |-> "TaskAccepted", task |-> t, at |-> head + 1, li |-> 0, worker |-> w,
           stake |-> stake, yes |-> stake, no |-> 0, cutoff |-> head + 1 + BETTING_WINDOW]
  <2>1. PICK w \in Workers, stake \in Stakes : Emits(<<event(w, stake)>>)
    BY <1>5 DEF Accepts
  <2> DEFINE e == event(w, stake)
  <2>2. e \in CoreEvent
    BY <1>1, IndexAssumption DEF CoreEvent
  <2>3. Legal(core, e)
    BY <1>1, <1>5, IndexAssumption DEF Accepts, On, Legal
  <2>4. e.at = head + 1 /\ e.name = "TaskAccepted"
    OBVIOUS
  <2> HIDE DEF e
  <2> QED
    BY <1>1, <2>1, <2>2, <2>3, <2>4, Emitted DEF e
<1>6. ASSUME NEW t \in Tasks, Bets(t)
      PROVE  CoreShape(core', head') /\ ValShape(core', val', head') /\ Longer(core', core, head)
  <2> DEFINE market == Market(core, t)
             event(side, bet) ==
          [name |-> "BetPlaced", task |-> t, at |-> head + 1, li |-> 0,
           yes |-> market.yes + (IF side = "Yes" THEN bet ELSE 0),
           no |-> market.no + (IF side = "No" THEN bet ELSE 0), cutoff |-> market.cutoff]
  <2>1. PICK side \in {"Yes", "No"}, bet \in BetSizes : Emits(<<event(side, bet)>>)
    BY <1>6 DEF Bets
  <2> DEFINE e == event(side, bet)
  <2>2. On(t) = "Open" /\ head + 1 < market.cutoff
    BY <1>6 DEF Bets
  <2>3. market.cutoff \in Nat /\ market.yes \in Nat /\ market.no \in Nat
    BY <1>2, <2>2 DEF Told, On
  <2>4. e \in CoreEvent
    <3> HIDE DEF market
    <3>1. bet \in Nat
      BY IndexAssumption
    <3>2. /\ market.yes + (IF side = "Yes" THEN bet ELSE 0) \in Nat
          /\ market.no + (IF side = "No" THEN bet ELSE 0) \in Nat
      BY <2>3, <3>1
    <3> QED
      BY <1>1, <2>3, <3>2 DEF CoreEvent
  <2>5. Legal(core, e)
    BY <1>1, <2>2, <2>3 DEF On, Legal
  <2>6. e.at = head + 1 /\ e.name = "BetPlaced"
    OBVIOUS
  <2> HIDE DEF e
  <2> QED
    BY <1>1, <2>1, <2>4, <2>5, <2>6, Emitted DEF e
<1>7. ASSUME NEW t \in Tasks, Cancels(t)
      PROVE  CoreShape(core', head') /\ ValShape(core', val', head') /\ Longer(core', core, head)
  <2> DEFINE e == Event("TaskCancelled", t)
  <2>1. e \in CoreEvent /\ e.at = head + 1 /\ e.name = "TaskCancelled" /\ e.task = t
    BY <1>1 DEF CoreEvent, Event
  <2>2. Legal(core, e) /\ Emits(<<e>>)
    BY <1>7, <2>1 DEF Cancels, On, Legal
  <2> HIDE DEF e
  <2> QED
    BY <1>1, <2>1, <2>2, Emitted
<1>8. ASSUME NEW t \in Tasks, Resolves(t)
      PROVE  CoreShape(core', head') /\ ValShape(core', val', head') /\ Longer(core', core, head)
  <2> DEFINE event(o) == [name |-> "OutcomeResolved", task |-> t, at |-> head + 1, li |-> 0,
                          outcome |-> o[1], rule |-> o[2], score |-> o[3]]
  <2>1. PICK o \in Outcomes(t) : Emits(<<event(o)>>)
    BY <1>8 DEF Resolves
  <2> DEFINE e == event(o)
  <2>2. /\ o[1] \in {"Yes", "No"} /\ o[2] \in 1..5 /\ o[3] \in Nat
        /\ o[2] \in {2, 3} => \E j \in DOMAIN val : val[j].task = t /\ val[j].score = o[3]
        /\ On(t) = "Delivered" \/ (On(t) = "Open" /\ o[2] = 1)
    <3>1. CASE On(t) = "Delivered"
      <4>1. \A j \in DOMAIN val : val[j].score \in Nat
        <5>1. val \in Seq(ValEvent)
          BY DEF ValShape
        <5>2. \A j \in DOMAIN val : val[j] \in ValEvent
          BY <5>1
        <5> QED
          BY <5>2 DEF ValEvent
      <4>2. o \in {<<"Yes", 5, 0>>, <<"No", 4, 0>>} \cup
                  {IF val[j].score >= VALIDATION_THRESHOLD THEN <<"Yes", 2, val[j].score>>
                   ELSE <<"No", 3, val[j].score>> : j \in AnswersTo(t)}
        BY <3>1 DEF Outcomes
      <4>3. CASE o \in {<<"Yes", 5, 0>>, <<"No", 4, 0>>}
        BY <3>1, <4>3
      <4>4. CASE \E j \in AnswersTo(t) : o \in {<<"Yes", 2, val[j].score>>, <<"No", 3, val[j].score>>}
        BY <3>1, <4>1, <4>4 DEF AnswersTo
      <4> QED
        BY <4>2, <4>3, <4>4
    <3>2. CASE On(t) # "Delivered"
      BY <3>2 DEF Outcomes
    <3> QED
      BY <3>1, <3>2
  <2>3. e \in CoreEvent
    BY <1>1, <2>2 DEF CoreEvent
  <2>4. Legal(core, e)
    BY <2>2 DEF On, Legal
  <2>5. e.at = head + 1 /\ e.task = t /\ e.rule = o[2] /\ e.score = o[3]
    OBVIOUS
  <2> HIDE DEF e
  <2> QED
    BY <1>1, <2>1, <2>2, <2>3, <2>4, <2>5, Emitted DEF e
<1>9. ASSUME NEW t \in Tasks, Delivers(t)
      PROVE  CoreShape(core', head') /\ ValShape(core', val', head') /\ Longer(core', core, head)
  <2> DEFINE e == Event("ExecutionStarted", t)
             f == [Event("DeliverySubmitted", t) EXCEPT !.li = 1]
             mid == Append(core, e)
  <2>1. /\ e \in CoreEvent /\ e.at = head + 1 /\ e.name = "ExecutionStarted" /\ e.task = t /\ e.li = 0
        /\ f \in CoreEvent /\ f.at = head + 1 /\ f.name = "DeliverySubmitted" /\ f.task = t /\ f.li = 1
    BY <1>1 DEF CoreEvent, Event
  <2>2. core' = core \o <<e, f>> /\ head' = head + 1 /\ val' = val
    BY <1>9 DEF Delivers, Emits
  <2> HIDE DEF e, f
  <2>3. core' = Append(mid, f)
    <3>1. /\ mid \in Seq(CoreEvent) /\ Len(mid) = Len(core) + 1
          /\ \A i \in 1..Len(core) : mid[i] = core[i]
          /\ mid[Len(core) + 1] = e
      BY <1>2, <2>1, AppendProperties
    <3>2. <<e, f>> \in Seq(CoreEvent) /\ Len(<<e, f>>) = 2
      BY <2>1
    <3>3. core \o <<e>> = mid /\ mid \o <<f>> = Append(mid, f)
      <4> HIDE DEF mid
      <4>1. mid \o <<f>> = Append(mid, f)
        BY <2>1, <3>1, AppendIsConcat
      <4>2. core \o <<e>> = mid
        BY <1>2, <2>1, AppendIsConcat DEF mid
      <4> QED
        BY <4>1, <4>2
    <3>5. <<e>> \o <<f>> = <<e, f>>
      <4>1. /\ <<e>> \in Seq(CoreEvent) /\ <<f>> \in Seq(CoreEvent) /\ <<e, f>> \in Seq(CoreEvent)
            /\ Len(<<e>>) = 1 /\ Len(<<f>>) = 1 /\ Len(<<e, f>>) = 2
            /\ <<e>>[1] = e /\ <<f>>[1] = f /\ <<e, f>>[1] = e /\ <<e, f>>[2] = f
        BY <2>1
      <4> DEFINE p == <<e>>
                 q == <<f>>
                 pq == <<e, f>>
      <4> HIDE DEF p, q, pq
      <4>2. p \o q \in Seq(CoreEvent) /\ Len(p \o q) = 2 /\ (p \o q)[1] = e /\ (p \o q)[2] = f
        BY <4>1, ConcatProperties DEF p, q
      <4>3. \A i \in 1..2 : (p \o q)[i] = pq[i]
        BY <4>1, <4>2 DEF pq
      <4>4. p \o q = pq
        BY <4>1, <4>2, <4>3, SeqEqual DEF pq
      <4> QED
        BY <4>4 DEF p, q, pq
    <3>4. (core \o <<e>>) \o <<f>> = core \o (<<e>> \o <<f>>)
      <4>1. <<e>> \in Seq(CoreEvent) /\ <<f>> \in Seq(CoreEvent)
        BY <2>1
      <4> QED
        BY <1>2, <4>1, ConcatAssociative
    <3> QED
      BY <2>2, <3>3, <3>4, <3>5
  <2>4. Legal(core, e)
    BY <1>9, <2>1 DEF Delivers, On, Legal
  <2>5. CoreShape(mid, head + 1) /\ ValShape(mid, val, head + 1) /\ Longer(mid, core, head)
    BY <1>1, <2>1, <2>4, OneEvent
  <2>6. mid \in Seq(CoreEvent) /\ Grown(mid, core, e)
    BY <1>2, <2>1, AppendProperties DEF Grown
  <2>7. StateOn(mid, t) = "Executing"
    <3>1. StateOn(mid, t) = StateAfter["ExecutionStarted"]
      BY <1>2, <2>1, <2>6, ItsOwn
    <3> QED
      BY <3>1 DEF StateAfter
  <2>8. Legal(mid, f)
    BY <2>1, <2>7 DEF Legal
  <2>9. \A i \in DOMAIN mid : Before(mid[i], f)
    <3> TAKE i \in DOMAIN mid
    <3>1. /\ DOMAIN core = 1..Len(core) /\ DOMAIN mid = 1..(Len(core) + 1) /\ Len(core) \in Nat
          /\ \A n \in 1..Len(core) : mid[n] = core[n]
          /\ mid[Len(core) + 1] = e
      BY <1>2, <2>1, Extended
    <3>2. CASE i \in 1..Len(core)
      <4>1. core[i].at \in 1..head
        BY <3>1, <3>2 DEF CoreShape
      <4> QED
        BY <1>1, <2>1, <3>1, <3>2, <4>1 DEF Before
    <3>3. CASE i = Len(core) + 1
      BY <1>1, <2>1, <3>1, <3>3 DEF Before
    <3> QED
      BY <3>1, <3>2, <3>3
  <2> HIDE DEF mid
  <2>10. CoreShape(Append(mid, f), head + 1)
    BY <1>1, <2>1, <2>5, <2>8, <2>9, CoreGrows
  <2>11. ValShape(Append(mid, f), val, head + 1)
    BY <1>1, <2>1, <2>5, <2>6, ValKept
  <2>12. Longer(Append(mid, f), mid, head)
    BY <1>1, <2>1, <2>6, LongerByOne
  <2>13. Longer(Append(mid, f), core, head)
    <3> DEFINE r == Append(mid, f)
    <3>1. Len(mid) \in Nat /\ Len(core) \in Nat /\ Len(r) \in Nat /\ Len(mid) = Len(core) + 1 /\ Len(r) = Len(core) + 2
      BY <1>2, <2>1, <2>6, AppendProperties DEF Grown
    <3>2. DOMAIN r = 1..(Len(core) + 2)
      BY <2>1, <2>6, <3>1, Extended
    <3> HIDE DEF r
    <3>3. \A i \in 1..Len(core) : r[i] = core[i]
      BY <2>5, <2>12, <3>1 DEF Longer, r
    <3>4. \A k \in 0..Len(core) : SubSeq(r, 1, k) = SubSeq(core, 1, k)
      BY <2>5, <2>12, <3>1 DEF Longer, r
    <3>5. \A i \in DOMAIN r : i > Len(core) => r[i].at > head
      <4>1. r[Len(core) + 1] = mid[Len(core) + 1] /\ mid[Len(core) + 1] = e
        <5>1. mid[Len(core) + 1] = e
          BY <1>2, <2>1, Extended DEF mid
        <5> QED
          BY <2>12, <3>1, <5>1 DEF Longer, r
      <4>2. r[Len(core) + 2] = f
        BY <2>1, <2>6, <3>1, Extended DEF r
      <4> QED
        BY <1>1, <2>1, <3>1, <3>2, <4>1, <4>2
    <3> QED
      BY <3>1, <3>3, <3>4, <3>5 DEF Longer, r
  <2> QED
    BY <2>2, <2>3, <2>10, <2>11, <2>13
<1>10. ASSUME NEW t \in Tasks, Answers(t)
       PROVE  ValShape(core', val', head') /\ CoreShape(core', head') /\ Longer(val', val, head) /\ core' = core
  <2>1. PICK s \in Scores : val' = Append(val, [task |-> t, at |-> head + 1, li |-> 0, score |-> s])
    BY <1>10 DEF Answers
  <2> DEFINE a == [task |-> t, at |-> head + 1, li |-> 0, score |-> s]
  <2>2. a \in ValEvent /\ a.at = head + 1 /\ a.task = t
    BY <1>1, IndexAssumption DEF ValEvent
  <2> HIDE DEF a
  <2>3. On(t) \in {"Delivered", "Settled"} /\ AnswersTo(t) = {} /\ head' = head + 1 /\ core' = core
    BY <1>10 DEF Answers
  <2>4. \A j \in DOMAIN val : val[j].task # a.task
    BY <2>2, <2>3 DEF AnswersTo
  <2>5. PICK i \in Events(core, t) : core[i].name \in {"DeliverySubmitted", "OutcomeResolved"}
    BY <1>2, <2>3 DEF Told, On
  <2>6. core[i].at \in 1..head
    BY DEF CoreShape, Events
  <2>7. ValShape(core, Append(val, a), head + 1)
    BY <1>1, <2>2, <2>4, <2>5, <2>6, AnswerAdds
  <2>8. Longer(Append(val, a), val, head)
    <3>1. val \in Seq(ValEvent)
      BY DEF ValShape
    <3> QED
      BY <1>1, <2>2, <3>1, LongerByOne
  <2>9. CoreShape(core, head + 1)
    BY <1>1 DEF CoreShape
  <2> QED
    BY <2>1, <2>3, <2>7, <2>8, <2>9 DEF a
<1>11. EmptyBlock => CoreShape(core', head') /\ ValShape(core', val', head') /\ core' = core /\ val' = val
  BY <1>1 DEF EmptyBlock, CoreShape, ValShape
<1>12. /\ head < MaxBlock /\ head' = head + 1
       /\ proc # "booting" /\ UNCHANGED <<chains, db, procVars, stops, faults>>
  BY DEF ChainStep, Creates, Accepts, Bets, Delivers, Resolves, Cancels, Answers, EmptyBlock, Emits
<1>13. (\E t \in Tasks : Creates(t) \/ Accepts(t) \/ Bets(t) \/ Delivers(t) \/ Resolves(t) \/ Cancels(t))
           => val' = val
  BY DEF Creates, Accepts, Bets, Delivers, Resolves, Cancels, Emits
<1>14. CoreShape(core', head') /\ ValShape(core', val', head') /\ Longer(core', core, head) /\ Longer(val', val, head)
  BY <1>3, <1>4, <1>5, <1>6, <1>7, <1>8, <1>9, <1>10, <1>11, <1>13 DEF ChainStep
<1> QED
  BY <1>1, <1>12, <1>14

(* The cursors.                                                            *)
LEMMA PastIs ==
    ASSUME NEW R, NEW log \in Seq(R), Timed(log), NEW cursor, cursor.bn \in Nat, cursor.li \in Nat
    PROVE  /\ Count(log, cursor) \in 0..Len(log)
           /\ \A i \in DOMAIN log : i \in Past(log, cursor) <=> i <= Count(log, cursor)
<1> DEFINE P == Past(log, cursor)
<1>1. DOMAIN log = 1..Len(log) /\ Len(log) \in Nat
  OBVIOUS
<1>2. P \in SUBSET (1..Len(log))
  BY <1>1 DEF Past
<1>3. \A j \in P : \A i \in 1..Len(log) : i < j => i \in P
  <2>1. ASSUME NEW j \in P, NEW i \in 1..Len(log), i < j PROVE i \in P
    <3>1. i \in DOMAIN log /\ j \in DOMAIN log
      BY <1>1 DEF Past
    <3>2. Before(log[i], log[j])
      BY <2>1, <3>1 DEF Timed, Sorted
    <3>3. /\ log[i].at \in Nat /\ log[i].li \in Nat /\ log[j].at \in Nat /\ log[j].li \in Nat
      BY <3>1 DEF Timed
    <3> QED
      BY <3>1, <3>2, <3>3 DEF Before, Past
  <2> QED
    BY <2>1
<1> HIDE DEF P
<1>4. Cardinality(P) \in 0..Len(log) /\ P = 1..Cardinality(P)
  BY <1>1, <1>2, <1>3, FirstOnes
<1>5. \A i \in DOMAIN log : i \in P <=> i <= Cardinality(P)
  BY <1>1, <1>4
<1> QED
  BY <1>4, <1>5 DEF P, Count

LEMMA PastStays ==
    ASSUME NEW R, NEW log \in Seq(R), NEW Q, NEW more \in Seq(Q), NEW h \in Nat, Longer(more, log, h),
           \A i \in DOMAIN more : more[i].at \in Nat,
           NEW cursor, cursor.bn \in Nat, cursor.bn <= h
    PROVE  Count(more, cursor) = Count(log, cursor)
<1>1. DOMAIN log = 1..Len(log) /\ DOMAIN more = 1..Len(more) /\ Len(log) \in Nat /\ Len(more) \in Nat
  OBVIOUS
<1>2. /\ Len(log) <= Len(more) /\ \A i \in 1..Len(log) : more[i] = log[i]
      /\ \A i \in DOMAIN more : i > Len(log) => more[i].at > h
  BY DEF Longer
<1>3. \A i \in DOMAIN more : i > Len(log) => more[i].at > cursor.bn
  BY <1>1, <1>2
<1>4. \A i : i \in Past(more, cursor) <=> i \in Past(log, cursor)
  BY <1>1, <1>2, <1>3 DEF Past
<1>5. Past(more, cursor) = Past(log, cursor)
  BY <1>4
<1> QED
  BY <1>5 DEF Count

LEMMA PastMoves ==
    ASSUME NEW R, NEW log \in Seq(R), Timed(log), NEW k \in 1..Len(log),
           NEW cursor, cursor.bn = log[k].at, cursor.li = log[k].li
    PROVE  Count(log, cursor) = k
<1>1. DOMAIN log = 1..Len(log) /\ Len(log) \in Nat
  OBVIOUS
<1>2. \A i \in 1..Len(log) : i \in Past(log, cursor) <=> i <= k
  <2> TAKE i \in 1..Len(log)
  <2>1. /\ log[i].at \in Nat /\ log[i].li \in Nat /\ log[k].at \in Nat /\ log[k].li \in Nat
    BY <1>1 DEF Timed
  <2>2. i < k => Before(log[i], log[k])
    BY <1>1 DEF Timed, Sorted
  <2>3. k < i => Before(log[k], log[i])
    BY <1>1 DEF Timed, Sorted
  <2>4. i < k \/ i = k \/ k < i
    OBVIOUS
  <2> QED
    BY <1>1, <2>1, <2>2, <2>3, <2>4 DEF Before, Past
<1>3. Past(log, cursor) = 1..k
  <2>1. Past(log, cursor) \subseteq 1..Len(log)
    BY <1>1 DEF Past
  <2>2. \A i : i \in Past(log, cursor) <=> i \in 1..k
    BY <1>1, <1>2, <2>1
  <2> QED
    BY <2>2
<1>4. Cardinality(1..k) = k
  BY FS_Interval
<1> QED
  BY <1>3, <1>4 DEF Count

LEMMA LogsTimed ==
    ASSUME NEW c, NEW v, NEW h, CoreShape(c, h), ValShape(c, v, h)
    PROVE  c \in Seq(CoreEvent) /\ v \in Seq(ValEvent) /\ Timed(c) /\ Timed(v)
<1>1. c \in Seq(CoreEvent) /\ v \in Seq(ValEvent) /\ Sorted(c) /\ Sorted(v)
  BY DEF CoreShape, ValShape
<1>2. \A i \in DOMAIN c : c[i] \in CoreEvent
  BY <1>1
<1>3. \A i \in DOMAIN v : v[i] \in ValEvent
  BY <1>1
<1>4. \A i \in DOMAIN c : c[i].at \in Nat /\ c[i].li \in Nat
  BY <1>2, EventParts
<1>5. \A i \in DOMAIN v : v[i].at \in Nat /\ v[i].li \in Nat
  BY <1>3 DEF ValEvent
<1> QED
  BY <1>1, <1>4, <1>5 DEF Timed

LEMMA KnownCount ==
    \A src : /\ Known(src) = Count(Log(src), db.cursor[src])
             /\ \A i \in DOMAIN Log(src) : IsNew(Item(src, i)) <=> i \notin Past(Log(src), db.cursor[src])
BY DEF Known, Count, Past, IsNew, Item

LEMMA KnownIs ==
    ASSUME CoreShape(core, head), ValShape(core, val, head), DbShape(db), NEW src \in {"core", "val"}
    PROVE  /\ Known(src) \in 0..Len(Log(src)) /\ DOMAIN Log(src) = 1..Len(Log(src)) /\ Len(Log(src)) \in Nat
           /\ \A i \in DOMAIN Log(src) : IsNew(Item(src, i)) <=> i > Known(src)
<1>1. /\ core \in Seq(CoreEvent) /\ val \in Seq(ValEvent) /\ Timed(core) /\ Timed(val)
  BY LogsTimed
<1>2. db.cursor[src].bn \in Nat /\ db.cursor[src].li \in Nat
  BY DEF DbShape, Cursor
<1>3. Log(src) \in Seq(CoreEvent) \/ Log(src) \in Seq(ValEvent)
  BY <1>1 DEF Log
<1>4. Timed(Log(src))
  BY <1>1 DEF Log
<1>5. /\ Count(Log(src), db.cursor[src]) \in 0..Len(Log(src))
      /\ \A i \in DOMAIN Log(src) :
             i \in Past(Log(src), db.cursor[src]) <=> i <= Count(Log(src), db.cursor[src])
  BY <1>2, <1>3, <1>4, PastIs
<1>6. DOMAIN Log(src) = 1..Len(Log(src)) /\ Len(Log(src)) \in Nat
  BY <1>3
<1>7. \A i \in 1..Len(Log(src)) : IsNew(Item(src, i)) <=> ~(i <= Known(src))
  BY <1>5, <1>6, KnownCount
<1> QED
  BY <1>5, <1>6, <1>7, KnownCount

(* What each statement does to the tables.                                 *)
LEMMA RowsAreNot ==
    ASSUME NEW row \in TaskRow
    PROVE  row # NoRow
<1>1. row.state # "none"
  BY DEF TaskRow
<1> QED
  BY <1>1 DEF NoRow

LEMMA RowParts ==
    ASSUME NEW d, DbShape(d), NEW t \in Tasks
    PROVE  /\ d.tasks[t] # NoRow => d.tasks[t] \in TaskRow
           /\ d.odds[t] \in Seq(Point)
BY DEF DbShape

LEMMA RowUpdated ==
    ASSUME NEW d, DbShape(d), NEW t \in Tasks, NEW row, d.tasks[t] # NoRow => row \in TaskRow,
           NEW d2, d2 = Update(d, t, row)
    PROVE  /\ RowOnly(d2, d, t)
           /\ d.tasks[t] # NoRow => d2.tasks[t] = row
           /\ d.tasks[t] = NoRow => d2 = d
<1>1. CASE d.tasks[t] = NoRow
  BY <1>1 DEF Update, Touches, SameLists, RowOnly
<1>2. CASE d.tasks[t] # NoRow
  <2>1. d2 = [d EXCEPT !.tasks[t] = row]
    BY <1>2 DEF Update
  <2>2. d2 = [tasks |-> [d.tasks EXCEPT ![t] = row], bets |-> d.bets, odds |-> d.odds,
              trust |-> d.trust, reqhash |-> d.reqhash, cursor |-> d.cursor,
              lastBlock |-> d.lastBlock, deployment |-> d.deployment]
    BY <2>1 DEF DbShape
  <2>3. d2.tasks[t] = row /\ \A u \in Tasks : u # t => d2.tasks[u] = d.tasks[u]
    BY <2>2 DEF DbShape
  <2>4. d2.tasks \in [Tasks -> TaskRow \cup {NoRow}]
    BY <1>2, <2>2 DEF DbShape
  <2>5. DbShape(d2)
    BY <2>2, <2>4 DEF DbShape
  <2> QED
    BY <1>2, <2>2, <2>3, <2>5 DEF Touches, SameLists, RowOnly
<1> QED
  BY <1>1, <1>2

LEMMA ChangesState ==
    ASSUME NEW d, DbShape(d), NEW e, e.task \in Tasks,
           NEW state \in {"Executing", "Delivered", "Cancelled"}, NEW d2, d2 = SetState(d, e, state)
    PROVE  LET r == d.tasks[e.task]
               r2 == d2.tasks[e.task] IN
           /\ RowOnly(d2, d, e.task)
           /\ r = NoRow => r2 = NoRow
           /\ r # NoRow => /\ r2 # NoRow /\ r2.state = state /\ r2.p = r.p
                           /\ KeepsPlace(r2, r) /\ KeepsPools(r2, r) /\ KeepsEnd(r2, r)
<1> DEFINE r == d.tasks[e.task]
           row == [r EXCEPT !.state = state]
<1>1. r # NoRow => r \in TaskRow
  BY RowParts
<1> HIDE DEF r
<1>2. r \in TaskRow => /\ row \in TaskRow /\ row.state = state /\ row.p = r.p
                       /\ KeepsPlace(row, r) /\ KeepsPools(row, r) /\ KeepsEnd(row, r)
  BY DEF TaskRow, KeepsPlace, KeepsPools, KeepsEnd
<1>3. d2 = Update(d, e.task, row)
  BY DEF SetState, r
<1> HIDE DEF row
<1>4. /\ RowOnly(d2, d, e.task)
      /\ r # NoRow => d2.tasks[e.task] = row
      /\ r = NoRow => d2 = d
  BY <1>1, <1>2, <1>3, RowUpdated DEF r
<1> QED
  BY <1>1, <1>2, <1>4, RowsAreNot DEF r

LEMMA MarksAccepted ==
    ASSUME NEW d, DbShape(d), NEW e \in CoreEvent, e.name = "TaskAccepted",
           NEW d2, d2 = MarkAccepted(d, e)
    PROVE  LET r == d.tasks[e.task]
               r2 == d2.tasks[e.task] IN
           /\ RowOnly(d2, d, e.task)
           /\ r = NoRow => r2 = NoRow
           /\ r # NoRow => /\ r2 # NoRow /\ r2.state = "Open" /\ r2.p = r.p /\ KeepsEnd(r2, r)
                           /\ r2.worker = e.worker /\ r2.stake = e.stake /\ r2.cutoff = e.cutoff
                           /\ r2.yes = e.stake /\ r2.no = 0
<1> DEFINE r == d.tasks[e.task]
           row == [r EXCEPT !.state = "Open", !.worker = e.worker, !.stake = e.stake,
                            !.cutoff = e.cutoff, !.yes = e.stake, !.no = 0]
<1>1. r # NoRow => r \in TaskRow
  BY EventParts, RowParts
<1> HIDE DEF r
<1>2. r \in TaskRow => /\ row \in TaskRow /\ row.state = "Open" /\ row.p = r.p /\ KeepsEnd(row, r)
                       /\ row.worker = e.worker /\ row.stake = e.stake /\ row.cutoff = e.cutoff
                       /\ row.yes = e.stake /\ row.no = 0
  <2> HAVE r \in TaskRow
  <2>1. e.worker \in Workers \cup {NoWorker} /\ e.stake \in Nat /\ e.cutoff \in Int
    BY EventParts
  <2>2. row \in TaskRow
    BY <2>1 DEF TaskRow
  <2>3. /\ row.state = "Open" /\ row.p = r.p
        /\ row.outcome = r.outcome /\ row.rule = r.rule /\ row.score = r.score
        /\ row.worker = e.worker /\ row.stake = e.stake /\ row.cutoff = e.cutoff
        /\ row.yes = e.stake /\ row.no = 0
    BY DEF TaskRow
  <2> QED
    BY <2>2, <2>3 DEF KeepsEnd
<1>3. d2 = Update(d, e.task, row)
  BY DEF MarkAccepted, r
<1> HIDE DEF row
<1>4. /\ RowOnly(d2, d, e.task)
      /\ r # NoRow => d2.tasks[e.task] = row
      /\ r = NoRow => d2 = d
  BY <1>1, <1>2, <1>3, EventParts, RowUpdated DEF r
<1> QED
  BY <1>1, <1>2, <1>4, RowsAreNot DEF r

LEMMA UpdatesPools ==
    ASSUME NEW d, DbShape(d), NEW e \in CoreEvent, e.name = "BetPlaced",
           NEW d2, d2 = UpdatePools(d, e)
    PROVE  LET r == d.tasks[e.task]
               r2 == d2.tasks[e.task] IN
           /\ RowOnly(d2, d, e.task)
           /\ r = NoRow => r2 = NoRow
           /\ r # NoRow => /\ r2 # NoRow /\ r2.state = r.state /\ r2.p = r.p
                           /\ KeepsPlace(r2, r) /\ KeepsEnd(r2, r)
                           /\ r2.yes = e.yes /\ r2.no = e.no
<1> DEFINE r == d.tasks[e.task]
           row == [r EXCEPT !.yes = e.yes, !.no = e.no]
<1>1. r # NoRow => r \in TaskRow
  BY EventParts, RowParts
<1> HIDE DEF r
<1>2. r \in TaskRow => /\ row \in TaskRow /\ row.state = r.state /\ row.p = r.p
                       /\ KeepsPlace(row, r) /\ KeepsEnd(row, r)
                       /\ row.yes = e.yes /\ row.no = e.no
  BY EventParts DEF TaskRow, KeepsPlace, KeepsEnd
<1>3. d2 = Update(d, e.task, row)
  BY DEF UpdatePools, r
<1> HIDE DEF row
<1>4. /\ RowOnly(d2, d, e.task)
      /\ r # NoRow => d2.tasks[e.task] = row
      /\ r = NoRow => d2 = d
  BY <1>1, <1>2, <1>3, EventParts, RowUpdated DEF r
<1> QED
  BY <1>1, <1>2, <1>4, RowsAreNot DEF r

LEMMA MarksSettled ==
    ASSUME NEW d, DbShape(d), NEW e \in CoreEvent, e.name = "OutcomeResolved",
           NEW d2, d2 = MarkSettled(d, e)
    PROVE  LET r == d.tasks[e.task]
               r2 == d2.tasks[e.task] IN
           /\ RowOnly(d2, d, e.task)
           /\ r = NoRow => r2 = NoRow
           /\ r # NoRow => /\ r2 # NoRow /\ r2.state = "Settled" /\ r2.p = r.p
                           /\ KeepsPlace(r2, r) /\ KeepsPools(r2, r)
                           /\ r2.outcome = e.outcome /\ r2.rule = e.rule /\ r2.score = e.score
<1> DEFINE r == d.tasks[e.task]
           row == [r EXCEPT !.state = "Settled", !.outcome = e.outcome, !.rule = e.rule,
                            !.score = e.score]
<1>1. r # NoRow => r \in TaskRow
  BY EventParts, RowParts
<1> HIDE DEF r
<1>2. r \in TaskRow => /\ row \in TaskRow /\ row.state = "Settled" /\ row.p = r.p
                       /\ KeepsPlace(row, r) /\ KeepsPools(row, r)
                       /\ row.outcome = e.outcome /\ row.rule = e.rule /\ row.score = e.score
  <2> HAVE r \in TaskRow
  <2>1. e.outcome \in {"-", "Yes", "No"} /\ e.rule \in Int /\ e.score \in Int
    BY EventParts
  <2>2. row \in TaskRow
    BY <2>1 DEF TaskRow
  <2>3. /\ row.state = "Settled" /\ row.p = r.p
        /\ row.worker = r.worker /\ row.stake = r.stake /\ row.cutoff = r.cutoff
        /\ row.yes = r.yes /\ row.no = r.no
        /\ row.outcome = e.outcome /\ row.rule = e.rule /\ row.score = e.score
    BY DEF TaskRow
  <2> QED
    BY <2>2, <2>3 DEF KeepsPlace, KeepsPools
<1>3. d2 = Update(d, e.task, row)
  BY DEF MarkSettled, r
<1> HIDE DEF row
<1>4. /\ RowOnly(d2, d, e.task)
      /\ r # NoRow => d2.tasks[e.task] = row
      /\ r = NoRow => d2 = d
  BY <1>1, <1>2, <1>3, EventParts, RowUpdated DEF r
<1> QED
  BY <1>1, <1>2, <1>4, RowsAreNot DEF r

LEMMA SetsScore ==
    ASSUME NEW d, DbShape(d), NEW a \in ValEvent, NEW d2, d2 = SetValidatorScore(d, a)
    PROVE  LET r == d.tasks[a.task]
               r2 == d2.tasks[a.task] IN
           /\ RowOnly(d2, d, a.task)
           /\ r = NoRow => r2 = NoRow
           /\ r # NoRow => /\ r2 # NoRow /\ r2.state = r.state /\ r2.p = r.p
                           /\ KeepsPlace(r2, r) /\ KeepsPools(r2, r)
                           /\ r2.outcome = r.outcome /\ r2.rule = r.rule
                           /\ r2.score = IF a.task \in d.reqhash THEN a.score ELSE r.score
<1> DEFINE r == d.tasks[a.task]
           row == [r EXCEPT !.score = a.score]
<1>0. a.task \in Tasks /\ a.score \in Nat
  BY DEF ValEvent
<1>1. r # NoRow => r \in TaskRow
  BY <1>0, RowParts
<1>2. CASE a.task \in d.reqhash
  <2> HIDE DEF r
  <2>2. r \in TaskRow => /\ row \in TaskRow /\ row.state = r.state /\ row.p = r.p
                         /\ KeepsPlace(row, r) /\ KeepsPools(row, r)
                         /\ row.outcome = r.outcome /\ row.rule = r.rule /\ row.score = a.score
    BY <1>0 DEF TaskRow, KeepsPlace, KeepsPools
  <2>3. d2 = Update(d, a.task, row)
    BY <1>2 DEF SetValidatorScore, r
  <2> HIDE DEF row
  <2>4. /\ RowOnly(d2, d, a.task)
        /\ r # NoRow => d2.tasks[a.task] = row
        /\ r = NoRow => d2 = d
    BY <1>0, <1>1, <2>2, <2>3, RowUpdated DEF r
  <2> QED
    BY <1>1, <1>2, <2>2, <2>4, RowsAreNot DEF r
<1>3. CASE a.task \notin d.reqhash
  <2>1. d2 = d
    BY <1>3 DEF SetValidatorScore
  <2> QED
    BY <1>3, <2>1 DEF RowOnly, Touches, SameLists, KeepsPlace, KeepsPools
<1> QED
  BY <1>2, <1>3

(* The implied probability is a natural number, and certainty at first.    *)
LEMMA PriceNat ==
    ASSUME NEW y, NEW n, y \in Nat, n \in Nat
    PROVE  PBps(y, n) \in Nat
<1>1. CASE y + n = 0
  BY <1>1 DEF PBps
<1>2. CASE y + n # 0
  <2> DEFINE a == y * 10000
             b == y + n
  <2>1. a \in Nat /\ b \in Nat \ {0} /\ PBps(y, n) = a \div b
    BY <1>2 DEF PBps
  <2> HIDE DEF a, b
  <2> QED
    BY <2>1, FloorBounds
<1> QED
  BY <1>1, <1>2

LEMMA OpeningPrice ==
    ASSUME NEW y, y \in Nat
    PROVE  PBps(y, 0) = 10000
<1>1. CASE y = 0
  BY <1>1 DEF PBps
<1>2. CASE y # 0
  <2> DEFINE a == y * 10000
             q == a \div y
  <2>1. a \in Nat /\ y \in Nat \ {0} /\ PBps(y, 0) = q
    BY <1>2 DEF PBps
  <2> HIDE DEF a
  <2>b. a \div y \in Nat /\ y * (a \div y) <= a /\ a <= y * (a \div y) + (y - 1)
    BY <2>1, FloorBounds
  <2>2. q \in Nat /\ y * q <= y * 10000 /\ y * 10000 <= y * q + (y - 1)
    BY <2>b DEF a
  <2> HIDE DEF q
  <2>3. ~(q > 10000)
    <3> SUFFICES ASSUME q >= 10001 PROVE FALSE
      BY <2>2
    <3>1. y * q >= y * 10001
      BY <2>1, <2>2
    <3> QED
      BY <2>1, <2>2, <3>1
  <2>4. ~(q < 10000)
    <3> SUFFICES ASSUME q <= 9999 PROVE FALSE
      BY <2>2
    <3>1. y * q <= y * 9999
      BY <2>1, <2>2
    <3> QED
      BY <2>1, <2>2, <3>1
  <2> QED
    BY <2>1, <2>2, <2>3, <2>4
<1> QED
  BY <1>1, <1>2

(* The odds at the cutoff are the last ones when all are from before it.   *)
LEMMA LastOdds ==
    ASSUME NEW d, DbShape(d), NEW t \in Tasks, NEW time
    PROVE  /\ LastSnapshotAtOrBefore(d, t, time) \in Int
           /\ d.odds[t] # <<>> /\ Early(d.odds[t], time) =>
                 LastSnapshotAtOrBefore(d, t, time) = Last(d.odds[t]).p
<1> DEFINE points == d.odds[t]
           before == {i \in DOMAIN points : points[i].t <= time}
<1>1. points \in Seq(Point)
  BY RowParts
<1> HIDE DEF points
<1>2. DOMAIN points = 1..Len(points) /\ Len(points) \in Nat /\ \A i \in DOMAIN points : points[i].p \in Int
  <2>1. DOMAIN points = 1..Len(points) /\ Len(points) \in Nat /\ \A i \in DOMAIN points : points[i] \in Point
    BY <1>1
  <2> QED
    BY <2>1 DEF Point
<1>3. before \in SUBSET (1..Len(points))
  BY <1>2
<1>4. LastSnapshotAtOrBefore(d, t, time) = IF before = {} THEN 10000 ELSE points[Max(before)].p
  BY DEF LastSnapshotAtOrBefore, points
<1>5. before # {} => Max(before) \in before
  BY <1>2, <1>3, MaxIs
<1>6. LastSnapshotAtOrBefore(d, t, time) \in Int
  BY <1>2, <1>4, <1>5
<1>7. ASSUME points # <<>>, Early(points, time)
      PROVE  LastSnapshotAtOrBefore(d, t, time) = Last(points).p
  <2>1. Len(points) > 0
    BY <1>1, <1>7
  <2>2. Len(points) \in before /\ \A i \in before : i <= Len(points)
    BY <1>2, <1>7, <2>1 DEF Early
  <2> HIDE DEF before
  <2>3. Max(before) = Len(points)
    BY <1>2, <1>3, <2>2, MaxWhen
  <2> QED
    BY <1>4, <2>2, <2>3 DEF Last
<1> QED
  BY <1>6, <1>7 DEF points

LEMMA EnsuresP ==
    ASSUME NEW d, DbShape(d), NEW e, e.task \in Tasks, NEW d2, d2 = EnsurePCutoff(d, e)
    PROVE  LET r == d.tasks[e.task]
               r2 == d2.tasks[e.task] IN
           /\ RowOnly(d2, d, e.task)
           /\ r = NoRow => r2 = NoRow
           /\ r # NoRow => /\ r2 # NoRow /\ r2.state = r.state
                           /\ KeepsPlace(r2, r) /\ KeepsPools(r2, r) /\ KeepsEnd(r2, r)
                           /\ r2.p = IF r.p # NULL \/ r.cutoff = NULL THEN r.p
                                     ELSE LastSnapshotAtOrBefore(d, e.task, r.cutoff)
<1> DEFINE r == d.tasks[e.task]
           last == LastSnapshotAtOrBefore(d, e.task, r.cutoff)
           row == [r EXCEPT !.p = last]
<1>1. r # NoRow => r \in TaskRow
  BY RowParts
<1>2. last \in Int
  BY LastOdds
<1>3. CASE r = NoRow \/ (r # NoRow /\ (r.p # NULL \/ r.cutoff = NULL))
  <2>1. d2 = d
    BY <1>3 DEF EnsurePCutoff
  <2> QED
    BY <1>3, <2>1 DEF RowOnly, Touches, SameLists, KeepsPlace, KeepsPools, KeepsEnd
<1>4. CASE r # NoRow /\ r.p = NULL /\ r.cutoff # NULL
  <2>1. d2 = Update(d, e.task, row)
    BY <1>4 DEF EnsurePCutoff
  <2> HIDE DEF r, last
  <2>2. r \in TaskRow => /\ row \in TaskRow /\ row.state = r.state /\ row.p = last
                         /\ KeepsPlace(row, r) /\ KeepsPools(row, r) /\ KeepsEnd(row, r)
    BY <1>2 DEF TaskRow, KeepsPlace, KeepsPools, KeepsEnd
  <2> HIDE DEF row
  <2>3. RowOnly(d2, d, e.task) /\ (r # NoRow => d2.tasks[e.task] = row)
    BY <1>1, <2>1, <2>2, RowUpdated DEF r
  <2> QED
    BY <1>1, <1>4, <2>2, <2>3, RowsAreNot DEF r, last
<1> QED
  BY <1>3, <1>4

LEMMA InsertsTask ==
    ASSUME NEW d, DbShape(d), NEW e \in CoreEvent, e.name = "TaskCreated",
           NEW d2, d2 = InsertTask(d, e)
    PROVE  RowOnly(d2, d, e.task) /\ d2.tasks[e.task] = CreatedRow(e) /\ CreatedRow(e) # NoRow
<1>1. e.task \in Tasks /\ e.worker \in Workers \cup {NoWorker}
  BY EventParts
<1>2. CreatedRow(e) \in TaskRow
  BY <1>1 DEF CreatedRow, TaskRow, NULL
<1>3. d2 = [tasks |-> [d.tasks EXCEPT ![e.task] = CreatedRow(e)], bets |-> d.bets, odds |-> d.odds,
            trust |-> d.trust, reqhash |-> d.reqhash, cursor |-> d.cursor,
            lastBlock |-> d.lastBlock, deployment |-> d.deployment]
  BY DEF InsertTask, CreatedRow, DbShape
<1>4. d2.tasks[e.task] = CreatedRow(e) /\ \A u \in Tasks : u # e.task => d2.tasks[u] = d.tasks[u]
  BY <1>1, <1>3 DEF DbShape
<1>5. d2.tasks \in [Tasks -> TaskRow \cup {NoRow}]
  BY <1>1, <1>2, <1>3 DEF DbShape
<1>6. DbShape(d2)
  BY <1>3, <1>5 DEF DbShape
<1> QED
  BY <1>2, <1>3, <1>4, <1>6, RowsAreNot DEF RowOnly, Touches, SameLists

LEMMA AddsPoint ==
    ASSUME NEW d, DbShape(d), NEW e, e.task \in Tasks, e.at \in Nat, NEW p, p \in Int,
           NEW d2, d2 = InsertSnapshot(d, e, p)
    PROVE  PointAdded(d2, d, e.task, [t |-> e.at, p |-> p])
<1> DEFINE points == Append(d.odds[e.task], [t |-> e.at, p |-> p])
<1>1. points \in Seq(Point)
  <2>1. [t |-> e.at, p |-> p] \in Point /\ d.odds[e.task] \in Seq(Point)
    BY RowParts DEF Point
  <2> QED
    BY <2>1, AppendProperties
<1>2. d2 = [tasks |-> d.tasks, bets |-> d.bets, odds |-> [d.odds EXCEPT ![e.task] = points],
            trust |-> d.trust, reqhash |-> d.reqhash, cursor |-> d.cursor,
            lastBlock |-> d.lastBlock, deployment |-> d.deployment]
  BY DEF InsertSnapshot, DbShape
<1> HIDE DEF points
<1>3. d2.odds[e.task] = points /\ \A u \in Tasks : u # e.task => d2.odds[u] = d.odds[u]
  BY <1>2 DEF DbShape
<1>4. d2.odds \in [Tasks -> Seq(Point)]
  BY <1>1, <1>2 DEF DbShape
<1>5. DbShape(d2)
  BY <1>2, <1>4 DEF DbShape
<1> QED
  BY <1>2, <1>3, <1>5 DEF PointAdded, Touches, SameLists, points

LEMMA AddsBet ==
    ASSUME NEW d, DbShape(d), NEW i \in Nat, NEW d2, d2 = InsertBet(d, i)
    PROVE  /\ DbShape(d2) /\ d2.bets = Append(d.bets, i) /\ \A t : Touches(d2, d, t)
           /\ d2.tasks = d.tasks /\ d2.odds = d.odds /\ d2.trust = d.trust /\ d2.reqhash = d.reqhash
<1>1. d2 = [tasks |-> d.tasks, bets |-> Append(d.bets, i), odds |-> d.odds, trust |-> d.trust,
            reqhash |-> d.reqhash, cursor |-> d.cursor, lastBlock |-> d.lastBlock,
            deployment |-> d.deployment]
  BY DEF InsertBet, DbShape
<1>2. Append(d.bets, i) \in Seq(Nat)
  BY AppendProperties DEF DbShape
<1> QED
  BY <1>1, <1>2 DEF DbShape, Touches

LEMMA AddsHash ==
    ASSUME NEW d, DbShape(d), NEW e, e.task \in Tasks,
           NEW d2, d2 = MapReqhash(d, e)
    PROVE  /\ DbShape(d2) /\ d2.reqhash = d.reqhash \cup {e.task} /\ Touches(d2, d, e.task)
           /\ d2.tasks = d.tasks /\ d2.odds = d.odds /\ d2.trust = d.trust /\ d2.bets = d.bets
<1>1. d2 = [tasks |-> d.tasks, bets |-> d.bets, odds |-> d.odds, trust |-> d.trust,
            reqhash |-> d.reqhash \cup {e.task}, cursor |-> d.cursor, lastBlock |-> d.lastBlock,
            deployment |-> d.deployment]
  BY DEF DbShape, MapReqhash
<1> QED
  BY <1>1 DEF DbShape, Touches

LEMMA Recomputes ==
    ASSUME NEW d, DbShape(d), NEW e, e.task \in Tasks, NEW d2, d2 = RecomputeTrust(d, e)
    PROVE  LET row == d.tasks[e.task] IN
           /\ DbShape(d2) /\ Touches(d2, d, e.task) /\ d2.tasks = d.tasks /\ d2.odds = d.odds
           /\ d2.bets = d.bets /\ d2.reqhash = d.reqhash
           /\ row # NoRow /\ row.worker \in Workers =>
                 d2.trust[row.worker] = TrustCore(SettledInputsFor(d, row.worker))
           /\ \A w \in Workers : row = NoRow \/ w # row.worker => d2.trust[w] = d.trust[w]
<1> DEFINE row == d.tasks[e.task]
           score == TrustCore(SettledInputsFor(d, row.worker))
<1>1. CASE row = NoRow \/ (row # NoRow /\ row.worker \notin Workers)
  <2>1. d2 = d
    BY <1>1 DEF RecomputeTrust
  <2> QED
    BY <1>1, <2>1 DEF Touches
<1>2. CASE row # NoRow /\ row.worker \in Workers
  <2> HIDE DEF score
  <2>1. d2 = [d EXCEPT !.trust[row.worker] = score]
    BY <1>2 DEF RecomputeTrust, score
  <2> HIDE DEF row
  <2>2. d2 = [tasks |-> d.tasks, bets |-> d.bets, odds |-> d.odds,
              trust |-> [d.trust EXCEPT ![row.worker] = score], reqhash |-> d.reqhash,
              cursor |-> d.cursor, lastBlock |-> d.lastBlock, deployment |-> d.deployment]
    BY <2>1 DEF DbShape
  <2>3. DOMAIN d.trust = Workers
    BY DEF DbShape
  <2>4. d2.trust = [w \in Workers |-> d2.trust[w]]
    BY <1>2, <2>2, <2>3
  <2>5. d2.trust[row.worker] = score /\ \A w \in Workers : w # row.worker => d2.trust[w] = d.trust[w]
    BY <1>2, <2>2, <2>3
  <2>6. DbShape(d2)
    BY <2>2, <2>4 DEF DbShape
  <2> QED
    BY <1>2, <2>2, <2>5, <2>6 DEF Touches, row, score
<1> QED
  BY <1>1, <1>2

(* What After gives, for a handler of at most five statements.             *)
LEMMA AfterIs ==
    ASSUME NEW d, NEW st \in Seq(Words), Len(st) <= 5, NEW src, NEW i, NEW e, e = Log(src)[i]
    PROVE  LET d1 == Exec(d, st[1], src, i, e)
               d2 == Exec(d1, st[2], src, i, e)
               d3 == Exec(d2, st[3], src, i, e)
               d4 == Exec(d3, st[4], src, i, e)
               d5 == Exec(d4, st[5], src, i, e)
               r == After(d, st, src, i)
           IN  /\ Len(st) = 1 => r = d1
               /\ Len(st) = 2 => r = d2
               /\ Len(st) = 3 => r = d3
               /\ Len(st) = 4 => r = d4
               /\ Len(st) = 5 => r = d5
<1> DEFINE A(F) == [n \in 0..Len(st) |-> IF n = 0 THEN d ELSE Exec(F[n - 1], st[n], src, i, e)]
           d1 == Exec(d, st[1], src, i, e)
           d2 == Exec(d1, st[2], src, i, e)
           d3 == Exec(d2, st[3], src, i, e)
           d4 == Exec(d3, st[4], src, i, e)
           d5 == Exec(d4, st[5], src, i, e)
           G == [n \in 0..Len(st) |-> IF n = 0 THEN d ELSE IF n = 1 THEN d1 ELSE IF n = 2 THEN d2
                                   ELSE IF n = 3 THEN d3 ELSE IF n = 4 THEN d4 ELSE d5]
           H == CHOOSE F : F = A(F)
<1>1. G = A(G)
  <2>1. ASSUME NEW n \in 0..Len(st) PROVE G[n] = A(G)[n]
    <3> HIDE DEF d1, d2, d3, d4, d5
    <3>1. n = 0 \/ n = 1 \/ n = 2 \/ n = 3 \/ n = 4 \/ n = 5
      <4>1. n \in 0..5
        OBVIOUS
      <4> HIDE DEF G, A
      <4> QED
        BY <4>1
    <3>2. n = 1 => G[n] = d1 /\ A(G)[n] = Exec(G[0], st[1], src, i, e) /\ G[0] = d
      OBVIOUS
    <3>3. n = 2 => G[n] = d2 /\ A(G)[n] = Exec(G[1], st[2], src, i, e) /\ G[1] = d1
      OBVIOUS
    <3>4. n = 3 => G[n] = d3 /\ A(G)[n] = Exec(G[2], st[3], src, i, e) /\ G[2] = d2
      OBVIOUS
    <3>5. n = 4 => G[n] = d4 /\ A(G)[n] = Exec(G[3], st[4], src, i, e) /\ G[3] = d3
      OBVIOUS
    <3>6. n = 5 => G[n] = d5 /\ A(G)[n] = Exec(G[4], st[5], src, i, e) /\ G[4] = d4
      OBVIOUS
    <3>7. n = 0 => G[n] = A(G)[n]
      OBVIOUS
    <3> HIDE DEF G, A
    <3> QED
      BY <3>1, <3>2, <3>3, <3>4, <3>5, <3>6, <3>7 DEF d1, d2, d3, d4, d5
  <2> HIDE DEF d1, d2, d3, d4, d5
  <2>2. G = [n \in 0..Len(st) |-> G[n]] /\ A(G) = [n \in 0..Len(st) |-> A(G)[n]]
    OBVIOUS
  <2> QED
    BY <2>1, <2>2
<1>2. H = A(H)
  <2> HIDE DEF G, A
  <2> QED
    BY <1>1
<1>3. After(d, st, src, i) = H[Len(st)]
  BY DEF After
<1>4. H[0] = d /\ \A n \in 1..Len(st) : H[n] = Exec(H[n - 1], st[n], src, i, e)
  <2> HIDE DEF H
  <2> QED
    BY <1>2
<1> HIDE DEF H
<1>5. /\ Len(st) >= 1 => H[1] = d1
      /\ Len(st) >= 2 => H[2] = Exec(H[1], st[2], src, i, e)
      /\ Len(st) >= 3 => H[3] = Exec(H[2], st[3], src, i, e)
      /\ Len(st) >= 4 => H[4] = Exec(H[3], st[4], src, i, e)
      /\ Len(st) >= 5 => H[5] = Exec(H[4], st[5], src, i, e)
  <2>1. \A n \in 1..Len(st) : \A m : m = n - 1 => H[n] = Exec(H[m], st[n], src, i, e)
    BY <1>4
  <2> HIDE DEF G, A
  <2> QED
    BY <1>4, <2>1
<1> HIDE DEF G, A
<1> QED
  BY <1>3, <1>5

(* What each statement does.                                               *)
LEMMA ExecIs ==
    ASSUME NEW d, NEW src, NEW i, NEW e
    PROVE  /\ Exec(d, "insertTask", src, i, e) = InsertTask(d, e)
           /\ Exec(d, "markAccepted", src, i, e) = MarkAccepted(d, e)
           /\ Exec(d, "updatePools", src, i, e) = UpdatePools(d, e)
           /\ Exec(d, "ensurePCutoff", src, i, e) = EnsurePCutoff(d, e)
           /\ Exec(d, "setExecuting", src, i, e) = SetState(d, e, "Executing")
           /\ Exec(d, "markDelivered", src, i, e) = SetState(d, e, "Delivered")
           /\ Exec(d, "markSettled", src, i, e) = MarkSettled(d, e)
           /\ Exec(d, "markCancelled", src, i, e) = SetState(d, e, "Cancelled")
           /\ Exec(d, "setValidatorScore", src, i, e) = SetValidatorScore(d, e)
           /\ Exec(d, "insertBet", src, i, e) = InsertBet(d, i)
           /\ Exec(d, "firstSnapshot", src, i, e) = InsertSnapshot(d, e, 10000)
           /\ Exec(d, "insertSnapshot", src, i, e) = InsertSnapshot(d, e, PBps(e.yes, e.no))
           /\ Exec(d, "reqhash", src, i, e) = MapReqhash(d, e)
           /\ Exec(d, "recomputeTrust", src, i, e) = RecomputeTrust(d, e)
           /\ Exec(d, "cursor", src, i, e) = SetCursor(d, e, src)
           /\ Exec(d, "lastBlock", src, i, e) = SetLastBlock(d, e)
<1>1. /\ Exec(d, "insertBet", src, i, e) = InsertBet(d, i)
      /\ Exec(d, "firstSnapshot", src, i, e) = InsertSnapshot(d, e, 10000)
      /\ Exec(d, "insertSnapshot", src, i, e) = InsertSnapshot(d, e, PBps(e.yes, e.no))
      /\ Exec(d, "reqhash", src, i, e) = MapReqhash(d, e)
      /\ Exec(d, "recomputeTrust", src, i, e) = RecomputeTrust(d, e)
      /\ Exec(d, "cursor", src, i, e) = SetCursor(d, e, src)
      /\ Exec(d, "lastBlock", src, i, e) = SetLastBlock(d, e)
  BY DEF Exec
<1>2. \A st \in {"insertTask", "markAccepted", "updatePools", "ensurePCutoff", "setExecuting",
                 "markDelivered", "markSettled", "markCancelled", "setValidatorScore"} :
          Exec(d, st, src, i, e) = OnRow(d, st, e)
  BY DEF Exec
<1>3. /\ OnRow(d, "insertTask", e) = InsertTask(d, e)
      /\ OnRow(d, "markAccepted", e) = MarkAccepted(d, e)
      /\ OnRow(d, "updatePools", e) = UpdatePools(d, e)
      /\ OnRow(d, "ensurePCutoff", e) = EnsurePCutoff(d, e)
      /\ OnRow(d, "setExecuting", e) = SetState(d, e, "Executing")
      /\ OnRow(d, "markDelivered", e) = SetState(d, e, "Delivered")
      /\ OnRow(d, "markSettled", e) = MarkSettled(d, e)
      /\ OnRow(d, "markCancelled", e) = SetState(d, e, "Cancelled")
      /\ OnRow(d, "setValidatorScore", e) = SetValidatorScore(d, e)
  BY DEF OnRow
<1> QED
  BY <1>1, <1>2, <1>3

(* The handlers, event by event.                                           *)
LEMMA DoesCreated ==
    ASSUME NEW d, DbShape(d), NEW i, NEW e \in CoreEvent, e.name = "TaskCreated",
           NEW s \in Seq(CoreEvent), Told(s, e.task), Legal(s, e),
           NEW d1, d1 = Exec(d, "insertTask", "core", i, e)
    PROVE  Done(d1, d, s, e, i)
<1>0. e.task \in Tasks
  BY EventParts
<1>1. d1 = InsertTask(d, e)
  BY ExecIs
<1>2. RowOnly(d1, d, e.task) /\ d1.tasks[e.task] = CreatedRow(e) /\ CreatedRow(e) # NoRow
  BY <1>1, InsertsTask
<1>3. Partial(d.tasks[e.task], d.odds[e.task], s, e) =>
          d1.odds[e.task] = <<>> /\ Partial(d1.tasks[e.task], d1.odds[e.task], s, e)
  BY <1>2 DEF Partial, RowOnly
<1>4. d1.odds[e.task] = <<>> => RowIs(d1.tasks[e.task], d1.odds[e.task], Append(s, e), e.task)
  <2> DEFINE r == Append(s, e)
  <2>1. Grown(r, s, e)
    BY DEF Grown
  <2> HIDE DEF r
  <2>2. StateOn(r, e.task) = StateAfter[e.name] /\ (Taken(r, e.task) <=> Taken(s, e.task))
    BY <2>1, ItsOwn
  <2>3. StateOn(r, e.task) = "Created"
    BY <2>2 DEF StateAfter
  <2>4. ~Taken(r, e.task)
    BY <1>0, <2>2 DEF Told, Legal
  <2>5. CreatedRow(e).state = "Created" /\ CreatedRow(e).p = NULL
    BY DEF CreatedRow
  <2> QED
    BY <1>2, <2>3, <2>4, <2>5 DEF RowIs, Over, r
<1>5. Doing(d1, d, s, e, i)
  BY <1>2, <1>3 DEF Doing, RowOnly, SameLists
<1> QED
  BY <1>3, <1>4, <1>5 DEF Done

(* Another point, and the series is as early as before.                    *)
LEMMA EarlyStays ==
    ASSUME NEW points \in Seq(Point), NEW point \in Point, NEW cutoff, point.t <= cutoff
    PROVE  /\ Early(points, cutoff) => Early(Append(points, point), cutoff)
           /\ Append(points, point) # <<>> /\ Last(Append(points, point)) = point
<1> DEFINE more == Append(points, point)
<1>1. /\ DOMAIN points = 1..Len(points) /\ DOMAIN more = 1..(Len(points) + 1) /\ Len(points) \in Nat
      /\ \A i \in 1..Len(points) : more[i] = points[i]
      /\ more[Len(points) + 1] = point
  BY Extended
<1>2. more \in Seq(Point) /\ Len(more) = Len(points) + 1
  BY AppendProperties
<1> HIDE DEF more
<1>3. Early(points, cutoff) => Early(more, cutoff)
  BY <1>1 DEF Early
<1>4. more # <<>> /\ Last(more) = point
  BY <1>1, <1>2 DEF Last
<1> QED
  BY <1>3, <1>4 DEF more

LEMMA DoesAccepted ==
    ASSUME NEW d, DbShape(d), NEW i, NEW e \in CoreEvent, e.name = "TaskAccepted",
           NEW s \in Seq(CoreEvent), Told(s, e.task), Legal(s, e),
           NEW d1, d1 = Exec(d, "markAccepted", "core", i, e),
           NEW d2, d2 = Exec(d1, "firstSnapshot", "core", i, e)
    PROVE  Doing(d1, d, s, e, i) /\ Done(d2, d, s, e, i)
<1> DEFINE t == e.task
           r == d.tasks[t]
           r1 == d1.tasks[t]
           point == [t |-> e.at, p |-> 10000]
           next == Append(s, e)
<1>0. /\ t \in Tasks /\ e.at \in Nat /\ e.stake \in Nat /\ e.worker \in Workers /\ e.no = 0
      /\ e.yes = e.stake /\ e.at <= e.cutoff
  BY EventParts DEF Legal
<1>1. d1 = MarkAccepted(d, e) /\ d2 = InsertSnapshot(d1, e, 10000)
  BY ExecIs
<1>2. /\ RowOnly(d1, d, t)
      /\ r # NoRow => /\ r1 # NoRow /\ r1.state = "Open" /\ r1.p = r.p /\ KeepsEnd(r1, r)
                      /\ r1.worker = e.worker /\ r1.stake = e.stake /\ r1.cutoff = e.cutoff
                      /\ r1.yes = e.stake /\ r1.no = 0
      /\ r = NoRow => r1 = NoRow
  BY <1>1, MarksAccepted
<1>3. PointAdded(d2, d1, t, point)
  BY <1>0, <1>1, <1>2, AddsPoint DEF RowOnly
<1>b. point \in Point /\ point.t = e.at /\ point.p = 10000
  BY <1>0 DEF Point
<1> HIDE DEF point
<1>4. d.odds[t] \in Seq(Point) /\ d1.odds[t] = d.odds[t]
  BY <1>0, <1>2, RowParts DEF RowOnly
<1>c. d2.odds[t] = Append(d.odds[t], point)
  BY <1>3, <1>4 DEF PointAdded
<1>d. point.t <= e.cutoff /\ point \in Point
  BY <1>0, <1>b
<1>5. /\ Early(d.odds[t], e.cutoff) => Early(d2.odds[t], e.cutoff)
      /\ d2.odds[t] # <<>> /\ Last(d2.odds[t]) = point
  BY <1>4, <1>c, <1>d, EarlyStays
<1>6. d2.odds[t] # <<>> /\ Last(d2.odds[t]).p = 10000
  BY <1>5, <1>b
<1>7. Doing(d1, d, s, e, i)
  BY <1>2, <1>4 DEF Doing, RowOnly, SameLists, Partial
<1>8. Doing(d2, d, s, e, i)
  BY <1>2, <1>3, <1>4, <1>5, <1>7 DEF Doing, SameLists, Touches, Partial, PointAdded
<1>9. ASSUME Partial(r, d.odds[t], s, e)
      PROVE  RowIs(r1, d2.odds[t], next, t)
  <2>1. r # NoRow /\ r.p = NULL /\ Early(d.odds[t], e.cutoff)
    BY <1>9 DEF Partial
  <2>2. Grown(next, s, e)
    BY DEF Grown
  <2> HIDE DEF next
  <2>3. /\ StateOn(next, t) = StateAfter[e.name] /\ Taken(next, t)
        /\ Market(next, t) = e /\ Taker(next, t) = e
    BY <2>2, ItsOwn
  <2>4. StateOn(next, t) = "Open"
    BY <2>3 DEF StateAfter
  <2>5. Price(next, t) = 10000
    <3>1. PBps(e.stake, 0) = 10000
      BY <1>0, OpeningPrice
    <3> QED
      BY <1>0, <2>3, <3>1 DEF Price
  <2>6. Traded(r1, d2.odds[t], next, t)
    BY <1>0, <1>2, <1>5, <1>6, <2>1, <2>3, <2>5 DEF Traded, Placed, Pooled, Charted
  <2> QED
    BY <1>2, <2>1, <2>3, <2>4, <2>6 DEF RowIs, Over
<1> QED
  BY <1>3, <1>7, <1>8, <1>9 DEF Done, PointAdded

LEMMA DoesBet ==
    ASSUME NEW d, DbShape(d), NEW i \in Nat, NEW e \in CoreEvent, e.name = "BetPlaced",
           NEW s \in Seq(CoreEvent), Told(s, e.task), Legal(s, e),
           NEW d1, d1 = Exec(d, "updatePools", "core", i, e),
           NEW d2, d2 = Exec(d1, "insertBet", "core", i, e),
           NEW d3, d3 = Exec(d2, "insertSnapshot", "core", i, e)
    PROVE  Doing(d1, d, s, e, i) /\ Doing(d2, d, s, e, i) /\ Done(d3, d, s, e, i)
<1> DEFINE t == e.task
           r == d.tasks[t]
           r1 == d1.tasks[t]
           price == PBps(e.yes, e.no)
           point == [t |-> e.at, p |-> price]
           next == Append(s, e)
<1>0. /\ t \in Tasks /\ e.at \in Nat /\ e.yes \in Nat /\ e.no \in Nat /\ e.at <= e.cutoff
      /\ e.cutoff = Market(s, t).cutoff /\ StateOn(s, t) = "Open" /\ Taken(s, t)
  BY EventParts DEF Legal, Told
<1>a. price \in Int
  BY <1>0, PriceNat
<1>1. d1 = UpdatePools(d, e) /\ d2 = InsertBet(d1, i) /\ d3 = InsertSnapshot(d2, e, price)
  BY ExecIs
<1>2. /\ RowOnly(d1, d, t)
      /\ r # NoRow => /\ r1 # NoRow /\ r1.state = r.state /\ r1.p = r.p
                      /\ KeepsPlace(r1, r) /\ KeepsEnd(r1, r)
                      /\ r1.yes = e.yes /\ r1.no = e.no
      /\ r = NoRow => r1 = NoRow
  BY <1>1, UpdatesPools
<1> HIDE DEF price
<1>3. /\ DbShape(d2) /\ d2.bets = Append(d1.bets, i) /\ Touches(d2, d1, t)
      /\ d2.tasks = d1.tasks /\ d2.odds = d1.odds /\ d2.trust = d1.trust /\ d2.reqhash = d1.reqhash
  BY <1>1, <1>2, AddsBet DEF RowOnly
<1>4. PointAdded(d3, d2, t, point)
  BY <1>0, <1>a, <1>1, <1>3, AddsPoint
<1>5. d.odds[t] \in Seq(Point) /\ d1.odds[t] = d.odds[t] /\ d2.odds[t] = d.odds[t]
  BY <1>0, <1>2, <1>3, RowParts DEF RowOnly
<1>b. point \in Point /\ point.t = e.at /\ point.p = price
  BY <1>0, <1>a DEF Point
<1> HIDE DEF point
<1>6. Early(d.odds[t], e.cutoff) => Early(d3.odds[t], e.cutoff)
  BY <1>0, <1>4, <1>5, <1>b, EarlyStays DEF PointAdded
<1>7. d3.odds[t] # <<>> /\ Last(d3.odds[t]).p = price
  BY <1>0, <1>4, <1>5, <1>b, EarlyStays DEF PointAdded
<1>8. Doing(d1, d, s, e, i)
  BY <1>2, <1>5 DEF Doing, RowOnly, SameLists, Partial, Placed, KeepsPlace
<1>9. Doing(d2, d, s, e, i) /\ d2.bets = Append(d.bets, i)
  BY <1>2, <1>3, <1>5, <1>8 DEF Doing, RowOnly, SameLists, Touches
<1>10. Doing(d3, d, s, e, i) /\ d3.bets = Append(d.bets, i)
  BY <1>0, <1>2, <1>3, <1>4, <1>6, <1>9 DEF Doing, SameLists, Touches, Partial, PointAdded
<1>11. ASSUME Partial(r, d.odds[t], s, e)
      PROVE  RowIs(r1, d3.odds[t], next, t)
  <2>1. /\ r # NoRow /\ r.state = "Open" /\ r.p = NULL
        /\ Placed(r, s, t) /\ Early(d.odds[t], e.cutoff)
    BY <1>0, <1>11 DEF Partial
  <2>2. Grown(next, s, e)
    BY DEF Grown
  <2> HIDE DEF next
  <2>3. /\ StateOn(next, t) = StateAfter[e.name] /\ Taken(next, t)
        /\ Market(next, t) = e /\ Taker(next, t) = Taker(s, t)
    BY <1>0, <2>2, ItsOwn
  <2>4. StateOn(next, t) = "Open"
    BY <2>3 DEF StateAfter
  <2>5. Price(next, t) = price
    BY <2>3 DEF Price, price
  <2>6. Placed(r1, next, t)
    BY <1>0, <1>2, <2>1, <2>3 DEF Placed, KeepsPlace
  <2>7. Traded(r1, d3.odds[t], next, t)
    BY <1>0, <1>2, <1>6, <1>7, <2>1, <2>3, <2>5, <2>6 DEF Traded, Pooled, Charted
  <2> QED
    BY <1>2, <2>1, <2>3, <2>4, <2>7 DEF RowIs, Over
<1> QED
  BY <1>3, <1>4, <1>8, <1>9, <1>10, <1>11 DEF Done, PointAdded

(* What was traded stays so when nothing is traded any more.               *)
LEMMA Carried ==
    ASSUME NEW s \in Seq(CoreEvent), NEW e \in CoreEvent, NEW t, e.task = t,
           e.name \notin {"TaskAccepted", "BetPlaced"}, Taken(s, t), NEW r, Grown(r, s, e)
    PROVE  /\ Taken(r, t) /\ Price(r, t) = Price(s, t)
           /\ \A row, points : Traded(row, points, s, t) => Traded(row, points, r, t)
<1>1. Taken(r, t) /\ Taker(r, t) = Taker(s, t) /\ Market(r, t) = Market(s, t)
  BY ItsOwn
<1> QED
  BY <1>1 DEF Price, Traded, Placed, Pooled, Charted

(* The probability at the cutoff is the price of the pools, whether it is  *)
(* there already or not.                                                   *)
LEMMA Priced ==
    ASSUME NEW d, DbShape(d), NEW e, e.task \in Tasks, NEW s, Told(s, e.task), Taken(s, e.task),
           NEW d2, d2 = EnsurePCutoff(d, e)
    PROVE  LET r == d.tasks[e.task]
               r2 == d2.tasks[e.task] IN
           /\ RowOnly(d2, d, e.task)
           /\ r = NoRow => r2 = NoRow
           /\ Traded(r, d.odds[e.task], s, e.task) =>
                 /\ Traded(r2, d2.odds[e.task], s, e.task)
                 /\ r2.state = r.state /\ KeepsEnd(r2, r)
                 /\ r.p \in {NULL, Price(s, e.task)} => r2.p = Price(s, e.task)
<1> DEFINE t == e.task
           r == d.tasks[t]
           r2 == d2.tasks[t]
           last == LastSnapshotAtOrBefore(d, t, r.cutoff)
<1>1. /\ RowOnly(d2, d, t)
      /\ r = NoRow => r2 = NoRow
      /\ r # NoRow => /\ r2 # NoRow /\ r2.state = r.state
                      /\ KeepsPlace(r2, r) /\ KeepsPools(r2, r) /\ KeepsEnd(r2, r)
                      /\ r2.p = IF r.p # NULL \/ r.cutoff = NULL THEN r.p ELSE last
  BY EnsuresP
<1>2. ASSUME Traded(r, d.odds[t], s, t)
      PROVE  /\ Traded(r2, d2.odds[t], s, t) /\ r2.state = r.state /\ KeepsEnd(r2, r)
             /\ r.p \in {NULL, Price(s, t)} => r2.p = Price(s, t)
  <2>1. /\ r # NoRow /\ Placed(r, s, t) /\ Pooled(r, s, t) /\ Charted(d.odds[t], s, t)
        /\ d2.odds[t] = d.odds[t]
    BY <1>1, <1>2 DEF Traded, RowOnly
  <2>2. Traded(r2, d2.odds[t], s, t)
    BY <1>1, <2>1 DEF Traded, Placed, Pooled, KeepsPlace, KeepsPools
  <2>3. r.cutoff = Market(s, t).cutoff /\ r.cutoff \in Nat
    BY <2>1 DEF Told, Placed
  <2>4. d.odds[t] # <<>> /\ Early(d.odds[t], r.cutoff) /\ Last(d.odds[t]).p = Price(s, t)
    BY <2>1, <2>3 DEF Charted
  <2>5. last = Price(s, t)
    <3> HIDE DEF r
    <3> QED
      BY <2>4, LastOdds
  <2>6. r.cutoff # NULL
    BY <2>3 DEF NULL
  <2> QED
    BY <1>1, <2>1, <2>2, <2>5, <2>6
<1> QED
  BY <1>1, <1>2

LEMMA DoesStarted ==
    ASSUME NEW d, DbShape(d), NEW i, NEW e \in CoreEvent, e.name = "ExecutionStarted",
           NEW s \in Seq(CoreEvent), Told(s, e.task), Legal(s, e),
           NEW d1, d1 = Exec(d, "ensurePCutoff", "core", i, e),
           NEW d2, d2 = Exec(d1, "setExecuting", "core", i, e)
    PROVE  Doing(d1, d, s, e, i) /\ Done(d2, d, s, e, i)
<1> DEFINE t == e.task
           r == d.tasks[t]
           r1 == d1.tasks[t]
           r2 == d2.tasks[t]
           next == Append(s, e)
<1>0. t \in Tasks /\ Taken(s, t)
  BY EventParts DEF Legal, Told
<1>1. d1 = EnsurePCutoff(d, e) /\ d2 = SetState(d1, e, "Executing")
  BY ExecIs
<1>2. /\ RowOnly(d1, d, t)
      /\ r = NoRow => r1 = NoRow
      /\ Traded(r, d.odds[t], s, t) =>
            /\ Traded(r1, d1.odds[t], s, t) /\ r1.state = r.state /\ KeepsEnd(r1, r)
            /\ r.p \in {NULL, Price(s, t)} => r1.p = Price(s, t)
  BY <1>0, <1>1, Priced
<1>3. /\ RowOnly(d2, d1, t)
      /\ r1 = NoRow => r2 = NoRow
      /\ r1 # NoRow => /\ r2 # NoRow /\ r2.state = "Executing" /\ r2.p = r1.p
                       /\ KeepsPlace(r2, r1) /\ KeepsPools(r2, r1) /\ KeepsEnd(r2, r1)
  <2>1. DbShape(d1)
    BY <1>2 DEF RowOnly
  <2> QED
    BY <1>0, <1>1, <2>1, ChangesState
<1>4. Doing(d1, d, s, e, i)
  BY <1>2 DEF Doing, RowOnly, SameLists, Partial
<1>5. Traded(r1, d1.odds[t], s, t) => Traded(r2, d2.odds[t], s, t)
  BY <1>3 DEF RowOnly, Traded, Placed, Pooled, KeepsPlace, KeepsPools
<1>6. Traded(r1, d1.odds[t], s, t) => r1 # NoRow
  BY DEF Traded
<1>7. Doing(d2, d, s, e, i)
  BY <1>2, <1>3, <1>5, <1>6 DEF Doing, RowOnly, Touches, SameLists, Partial, KeepsEnd
<1>8. ASSUME Partial(r, d.odds[t], s, e)
      PROVE  RowIs(r2, d2.odds[t], next, t)
  <2>1. /\ Traded(r2, d2.odds[t], s, t) /\ r2.state = "Executing" /\ r2.p = Price(s, t)
        /\ r2 # NoRow
    BY <1>2, <1>3, <1>5, <1>6, <1>8 DEF Partial
  <2>2. Grown(next, s, e)
    BY DEF Grown
  <2> HIDE DEF next
  <2>3. StateOn(next, t) = StateAfter[e.name]
    BY <2>2, ItsOwn
  <2>4. StateOn(next, t) = "Executing"
    BY <2>3 DEF StateAfter
  <2>5. Taken(next, t) /\ Price(next, t) = Price(s, t) /\ Traded(r2, d2.odds[t], next, t)
    BY <1>0, <2>1, <2>2, Carried
  <2> QED
    BY <2>1, <2>4, <2>5 DEF RowIs, Over
<1> QED
  BY <1>4, <1>7, <1>8 DEF Done

LEMMA DoesDelivered ==
    ASSUME NEW d, DbShape(d), NEW i, NEW e \in CoreEvent, e.name = "DeliverySubmitted",
           NEW s \in Seq(CoreEvent), Told(s, e.task), Legal(s, e),
           NEW d1, d1 = Exec(d, "ensurePCutoff", "core", i, e),
           NEW d2, d2 = Exec(d1, "markDelivered", "core", i, e),
           NEW d3, d3 = Exec(d2, "reqhash", "core", i, e)
    PROVE  Doing(d1, d, s, e, i) /\ Doing(d2, d, s, e, i) /\ Done(d3, d, s, e, i)
<1> DEFINE t == e.task
           r == d.tasks[t]
           r1 == d1.tasks[t]
           r2 == d2.tasks[t]
           next == Append(s, e)
<1>0. t \in Tasks /\ Taken(s, t)
  BY EventParts DEF Legal, Told
<1>1. d1 = EnsurePCutoff(d, e) /\ d2 = SetState(d1, e, "Delivered") /\ d3 = MapReqhash(d2, e)
  BY ExecIs
<1>2. /\ RowOnly(d1, d, t)
      /\ r = NoRow => r1 = NoRow
      /\ Traded(r, d.odds[t], s, t) =>
            /\ Traded(r1, d1.odds[t], s, t) /\ r1.state = r.state /\ KeepsEnd(r1, r)
            /\ r.p \in {NULL, Price(s, t)} => r1.p = Price(s, t)
  BY <1>0, <1>1, Priced
<1>3. /\ RowOnly(d2, d1, t)
      /\ r1 = NoRow => r2 = NoRow
      /\ r1 # NoRow => /\ r2 # NoRow /\ r2.state = "Delivered" /\ r2.p = r1.p
                       /\ KeepsPlace(r2, r1) /\ KeepsPools(r2, r1) /\ KeepsEnd(r2, r1)
  <2>1. DbShape(d1)
    BY <1>2 DEF RowOnly
  <2> QED
    BY <1>0, <1>1, <2>1, ChangesState
<1>4. /\ DbShape(d3) /\ d3.reqhash = d2.reqhash \cup {t} /\ Touches(d3, d2, t)
      /\ d3.tasks = d2.tasks /\ d3.odds = d2.odds /\ d3.trust = d2.trust /\ d3.bets = d2.bets
  <2>1. DbShape(d2)
    BY <1>3 DEF RowOnly
  <2> QED
    BY <1>0, <1>1, <2>1, AddsHash
<1>5. Doing(d1, d, s, e, i)
  BY <1>2 DEF Doing, RowOnly, SameLists, Partial
<1>6. Traded(r1, d1.odds[t], s, t) => Traded(r2, d2.odds[t], s, t) /\ r1 # NoRow
  BY <1>3 DEF RowOnly, Traded, Placed, Pooled, KeepsPlace, KeepsPools
<1>7. Doing(d2, d, s, e, i)
  BY <1>2, <1>3, <1>6 DEF Doing, RowOnly, Touches, SameLists, Partial, KeepsEnd
<1>8. Doing(d3, d, s, e, i)
  BY <1>4, <1>7 DEF Doing, Touches
<1>9. ASSUME Partial(r, d.odds[t], s, e)
      PROVE  RowIs(r2, d2.odds[t], next, t)
  <2>1. /\ Traded(r2, d2.odds[t], s, t) /\ r2.state = "Delivered" /\ r2.p = Price(s, t)
        /\ r2 # NoRow
    BY <1>2, <1>3, <1>6, <1>9 DEF Partial
  <2>2. Grown(next, s, e)
    BY DEF Grown
  <2> HIDE DEF next
  <2>3. StateOn(next, t) = StateAfter[e.name]
    BY <2>2, ItsOwn
  <2>4. StateOn(next, t) = "Delivered"
    BY <2>3 DEF StateAfter
  <2>5. Taken(next, t) /\ Price(next, t) = Price(s, t) /\ Traded(r2, d2.odds[t], next, t)
    BY <1>0, <2>1, <2>2, Carried
  <2> QED
    BY <2>1, <2>4, <2>5 DEF RowIs, Over
<1> QED
  BY <1>4, <1>5, <1>7, <1>8, <1>9 DEF Done

LEMMA DoesResolved ==
    ASSUME NEW d, DbShape(d), NEW i, NEW e \in CoreEvent, e.name = "OutcomeResolved",
           NEW s \in Seq(CoreEvent), Told(s, e.task), Legal(s, e),
           NEW d1, d1 = Exec(d, "ensurePCutoff", "core", i, e),
           NEW d2, d2 = Exec(d1, "markSettled", "core", i, e),
           NEW d3, d3 = Exec(d2, "recomputeTrust", "core", i, e)
    PROVE  Doing(d1, d, s, e, i) /\ Doing(d2, d, s, e, i) /\ Done(d3, d, s, e, i)
<1> DEFINE t == e.task
           r == d.tasks[t]
           r1 == d1.tasks[t]
           r2 == d2.tasks[t]
           next == Append(s, e)
<1>0. t \in Tasks /\ Taken(s, t) /\ StateOn(s, t) \in {"Open", "Delivered"}
  BY EventParts DEF Legal, Told
<1>1. d1 = EnsurePCutoff(d, e) /\ d2 = MarkSettled(d1, e) /\ d3 = RecomputeTrust(d2, e)
  BY ExecIs
<1>2. /\ RowOnly(d1, d, t)
      /\ r = NoRow => r1 = NoRow
      /\ Traded(r, d.odds[t], s, t) =>
            /\ Traded(r1, d1.odds[t], s, t) /\ r1.state = r.state /\ KeepsEnd(r1, r)
            /\ r.p \in {NULL, Price(s, t)} => r1.p = Price(s, t)
  BY <1>0, <1>1, Priced
<1>3. /\ RowOnly(d2, d1, t)
      /\ r1 = NoRow => r2 = NoRow
      /\ r1 # NoRow => /\ r2 # NoRow /\ r2.state = "Settled" /\ r2.p = r1.p
                       /\ KeepsPlace(r2, r1) /\ KeepsPools(r2, r1)
                       /\ r2.outcome = e.outcome /\ r2.rule = e.rule /\ r2.score = e.score
  <2>1. DbShape(d1)
    BY <1>2 DEF RowOnly
  <2> QED
    BY <1>1, <2>1, MarksSettled
<1>4. /\ DbShape(d3) /\ Touches(d3, d2, t) /\ d3.tasks = d2.tasks /\ d3.odds = d2.odds
      /\ d3.bets = d2.bets /\ d3.reqhash = d2.reqhash
      /\ r2 # NoRow /\ r2.worker \in Workers =>
            d3.trust[r2.worker] = TrustCore(SettledInputsFor(d2, r2.worker))
      /\ \A w \in Workers : r2 = NoRow \/ w # r2.worker => d3.trust[w] = d2.trust[w]
  <2>1. DbShape(d2)
    BY <1>3 DEF RowOnly
  <2> QED
    BY <1>0, <1>1, <2>1, Recomputes
<1>5. Doing(d1, d, s, e, i)
  <2>1. Partial(r, d.odds[t], s, e) => Partial(r1, d1.odds[t], s, e) /\ r1.state = r.state /\ KeepsEnd(r1, r)
    BY <1>2 DEF Partial, KeepsEnd
  <2> QED
    BY <1>2, <2>1 DEF Doing, RowOnly, SameLists
<1>6. Traded(r1, d1.odds[t], s, t) => Traded(r2, d2.odds[t], s, t) /\ r1 # NoRow
  BY <1>3 DEF RowOnly, Traded, Placed, Pooled, KeepsPlace, KeepsPools
<1>7. Partial(r, d.odds[t], s, e) =>
          /\ Traded(r2, d2.odds[t], s, t) /\ r2.state = "Settled" /\ r2.p = Price(s, t)
          /\ r2.outcome = e.outcome /\ r2.rule = e.rule /\ r2.score = e.score /\ r2 # NoRow
  BY <1>2, <1>3, <1>6 DEF Partial
<1>8. Doing(d2, d, s, e, i)
  BY <1>2, <1>3, <1>7 DEF Doing, RowOnly, Touches, SameLists, Partial
<1>9. Doing(d3, d, s, e, i)
  BY <1>4, <1>8 DEF Doing, Touches
<1>10. ASSUME Partial(r, d.odds[t], s, e)
      PROVE  RowIs(r2, d2.odds[t], next, t)
  <2>1. Grown(next, s, e)
    BY DEF Grown
  <2> HIDE DEF next
  <2>2. StateOn(next, t) = StateAfter[e.name] /\ Ending(next, t) = e
    BY <2>1, ItsOwn
  <2>3. StateOn(next, t) = "Settled"
    BY <2>2 DEF StateAfter
  <2>4. Taken(next, t) /\ Price(next, t) = Price(s, t) /\ Traded(r2, d2.odds[t], next, t)
    BY <1>0, <1>7, <1>10, <2>1, Carried
  <2> QED
    BY <1>7, <1>10, <2>2, <2>3, <2>4 DEF RowIs, Over
<1>11. SettledInputsFor(d3, r2.worker) = SettledInputsFor(d2, r2.worker)
  BY <1>4 DEF SettledInputsFor, SettledForWorker
<1> QED
  BY <1>4, <1>5, <1>7, <1>8, <1>9, <1>10, <1>11 DEF Done

LEMMA DoesCancelled ==
    ASSUME NEW d, DbShape(d), NEW i, NEW e \in CoreEvent, e.name = "TaskCancelled",
           NEW s \in Seq(CoreEvent), Told(s, e.task), Legal(s, e),
           NEW d1, d1 = Exec(d, "markCancelled", "core", i, e)
    PROVE  Done(d1, d, s, e, i)
<1> DEFINE t == e.task
           r == d.tasks[t]
           r1 == d1.tasks[t]
           next == Append(s, e)
<1>0. t \in Tasks /\ ~Taken(s, t)
  BY EventParts DEF Legal, Told
<1>1. d1 = SetState(d, e, "Cancelled")
  BY ExecIs
<1>2. /\ RowOnly(d1, d, t)
      /\ r = NoRow => r1 = NoRow
      /\ r # NoRow => /\ r1 # NoRow /\ r1.state = "Cancelled" /\ r1.p = r.p
                      /\ KeepsPlace(r1, r) /\ KeepsPools(r1, r) /\ KeepsEnd(r1, r)
  BY <1>0, <1>1, ChangesState
<1>3. Doing(d1, d, s, e, i)
  BY <1>2 DEF Doing, RowOnly, SameLists, Partial
<1>4. ASSUME Partial(r, d.odds[t], s, e)
      PROVE  RowIs(r1, d1.odds[t], next, t)
  <2>1. r1 # NoRow /\ r1.state = "Cancelled" /\ r1.p = NULL /\ d1.odds[t] = <<>>
    BY <1>2, <1>4 DEF Partial, RowOnly
  <2>2. Grown(next, s, e)
    BY DEF Grown
  <2> HIDE DEF next
  <2>3. StateOn(next, t) = StateAfter[e.name] /\ (Taken(next, t) <=> Taken(s, t))
    BY <2>2, ItsOwn
  <2>4. StateOn(next, t) = "Cancelled"
    BY <2>3 DEF StateAfter
  <2> QED
    BY <1>0, <2>1, <2>3, <2>4 DEF RowIs, Over
<1> QED
  BY <1>3, <1>4 DEF Done

(* The handlers, statement by statement.                                   *)
LEMMA PrefixRuns ==
    ASSUME NEW d, NEW st \in Seq(Words), Len(st) <= 5, NEW n \in 1..Len(st),
           NEW src, NEW i, NEW e, e = Log(src)[i]
    PROVE  LET d1 == Exec(d, st[1], src, i, e)
               d2 == Exec(d1, st[2], src, i, e)
               d3 == Exec(d2, st[3], src, i, e)
               d4 == Exec(d3, st[4], src, i, e)
               d5 == Exec(d4, st[5], src, i, e)
               r == After(d, SubSeq(st, 1, n), src, i)
           IN  /\ n = 1 => r = d1
               /\ n = 2 => r = d2
               /\ n = 3 => r = d3
               /\ n = 4 => r = d4
               /\ n = 5 => r = d5
<1> DEFINE p == SubSeq(st, 1, n)
<1>1. p \in Seq(Words) /\ Len(p) = n /\ \A j \in 1..n : p[j] = st[j]
  <2>1. \A j \in 1..n : st[j] \in Words
    OBVIOUS
  <2>2. n \in Nat /\ n <= Len(st)
    OBVIOUS
  <2> QED
    BY <2>1, <2>2
<1> HIDE DEF p
<1>2. p \in Seq(Words) /\ Len(p) <= 5
  BY <1>1
<1>3. /\ n >= 1 => p[1] = st[1]
      /\ n >= 2 => p[2] = st[2]
      /\ n >= 3 => p[3] = st[3]
      /\ n >= 4 => p[4] = st[4]
      /\ n >= 5 => p[5] = st[5]
  BY <1>1
<1> DEFINE d1 == Exec(d, p[1], src, i, e)
           d2 == Exec(d1, p[2], src, i, e)
           d3 == Exec(d2, p[3], src, i, e)
           d4 == Exec(d3, p[4], src, i, e)
           d5 == Exec(d4, p[5], src, i, e)
           r == After(d, p, src, i)
<1>4. /\ Len(p) = 1 => r = d1
      /\ Len(p) = 2 => r = d2
      /\ Len(p) = 3 => r = d3
      /\ Len(p) = 4 => r = d4
      /\ Len(p) = 5 => r = d5
  BY <1>2, AfterIs
<1> QED
  BY <1>1, <1>3, <1>4 DEF p

LEMMA HandlerParts ==
    ASSUME NEW src, NEW i, NEW st \in Seq(Words), Statements(src, i) = st
    PROVE  LET h == Handler(src, i) IN
           /\ h \in Seq(Words) /\ Len(h) = Len(st) + 2
           /\ \A j \in 1..Len(st) : h[j] = st[j]
           /\ h[Len(st) + 1] = "cursor" /\ h[Len(st) + 2] = "lastBlock"
           /\ SubSeq(h, 1, Len(h)) = h
<1> DEFINE a == Advance
           h == Handler(src, i)
<1>1. a \in Seq(Words) /\ Len(a) = 2 /\ a[1] = "cursor" /\ a[2] = "lastBlock"
  <2>1. <<"cursor", "lastBlock">> \in Seq(Words)
    <3>1. "cursor" \in Words /\ "lastBlock" \in Words
      BY DEF Words
    <3> QED
      BY <3>1
  <2>2. Len(<<"cursor", "lastBlock">>) = 2
    OBVIOUS
  <2>3. <<"cursor", "lastBlock">>[1] = "cursor" /\ <<"cursor", "lastBlock">>[2] = "lastBlock"
    OBVIOUS
  <2> QED
    BY <2>1, <2>2, <2>3 DEF Advance
<1>2. h = st \o a
  BY DEF Handler
<1> HIDE DEF a, h
<1>b. /\ h \in Seq(Words) /\ Len(h) = Len(st) + Len(a)
      /\ \A j \in 1..(Len(st) + Len(a)) : h[j] = IF j <= Len(st) THEN st[j] ELSE a[j - Len(st)]
  BY <1>1, <1>2, ConcatProperties
<1>3. h \in Seq(Words) /\ Len(h) = Len(st) + 2
  BY <1>1, <1>b
<1>c. Len(st) \in Nat
  OBVIOUS
<1>4. \A j \in 1..Len(st) : h[j] = st[j]
  BY <1>1, <1>b, <1>c
<1>5. h[Len(st) + 1] = "cursor" /\ h[Len(st) + 2] = "lastBlock"
  BY <1>1, <1>b, <1>c
<1>6. SubSeq(h, 1, Len(h)) = h
  BY <1>3
<1> QED
  BY <1>3, <1>4, <1>5, <1>6 DEF h

LEMMA ScriptRuns ==
    ASSUME NEW d, NEW src, NEW i, NEW e, e = Log(src)[i],
           NEW st \in Seq(Words), Statements(src, i) = st, Len(st) \in 1..3,
           NEW n \in 1..Len(Handler(src, i))
    PROVE  LET d1 == Exec(d, st[1], src, i, e)
               d2 == Exec(d1, st[2], src, i, e)
               d3 == Exec(d2, st[3], src, i, e)
               x == IF Len(st) = 1 THEN d1 ELSE IF Len(st) = 2 THEN d2 ELSE d3
               r == After(d, SubSeq(Handler(src, i), 1, n), src, i)
           IN  /\ n <= Len(st) => r = IF n = 1 THEN d1 ELSE IF n = 2 THEN d2 ELSE d3
               /\ n = Len(st) + 1 => r = SetCursor(x, e, src)
               /\ n = Len(st) + 2 => r = SetLastBlock(SetCursor(x, e, src), e)
<1> DEFINE h == Handler(src, i)
           L == Len(st)
<1>1. /\ h \in Seq(Words) /\ Len(h) = L + 2 /\ \A j \in 1..L : h[j] = st[j]
      /\ h[L + 1] = "cursor" /\ h[L + 2] = "lastBlock"
  BY HandlerParts
<1> HIDE DEF h, L
<1> DEFINE d1 == Exec(d, h[1], src, i, e)
           d2 == Exec(d1, h[2], src, i, e)
           d3 == Exec(d2, h[3], src, i, e)
           d4 == Exec(d3, h[4], src, i, e)
           d5 == Exec(d4, h[5], src, i, e)
           r == After(d, SubSeq(h, 1, n), src, i)
<1>2. L = 1 \/ L = 2 \/ L = 3
  BY DEF L
<1>3. Len(h) <= 5 /\ n \in 1..Len(h)
  BY <1>1, <1>2 DEF h
<1>4. /\ n = 1 => r = d1
      /\ n = 2 => r = d2
      /\ n = 3 => r = d3
      /\ n = 4 => r = d4
      /\ n = 5 => r = d5
  BY <1>1, <1>3, PrefixRuns
<1>5. /\ L >= 1 => h[1] = st[1]
      /\ L >= 2 => h[2] = st[2]
      /\ L >= 3 => h[3] = st[3]
  BY <1>1, <1>2
<1>6. \A y : Exec(y, "cursor", src, i, e) = SetCursor(y, e, src)
             /\ Exec(y, "lastBlock", src, i, e) = SetLastBlock(y, e)
  BY ExecIs
<1>7. CASE L = 1
  <2>1. h[1] = st[1] /\ h[2] = "cursor" /\ h[3] = "lastBlock" /\ (n = 1 \/ n = 2 \/ n = 3)
    BY <1>1, <1>3, <1>5, <1>7
  <2> QED
    BY <1>4, <1>6, <1>7, <2>1 DEF h, L
<1>8. CASE L = 2
  <2>1. /\ h[1] = st[1] /\ h[2] = st[2] /\ h[3] = "cursor" /\ h[4] = "lastBlock"
        /\ n = 1 \/ n = 2 \/ n = 3 \/ n = 4
    BY <1>1, <1>3, <1>5, <1>8
  <2> QED
    BY <1>4, <1>6, <1>8, <2>1 DEF h, L
<1>9. CASE L = 3
  <2>1. /\ h[1] = st[1] /\ h[2] = st[2] /\ h[3] = st[3] /\ h[4] = "cursor" /\ h[5] = "lastBlock"
        /\ n = 1 \/ n = 2 \/ n = 3 \/ n = 4 \/ n = 5
    BY <1>1, <1>3, <1>5, <1>9
  <2> QED
    BY <1>4, <1>6, <1>9, <2>1 DEF h, L
<1> QED
  BY <1>2, <1>7, <1>8, <1>9

(* The handler of one of the core's events, stopped or not.                *)
LEMMA CoreHandled ==
    ASSUME NEW d, DbShape(d), NEW i \in Nat, NEW e \in CoreEvent, e = core[i],
           NEW s \in Seq(CoreEvent), Told(s, e.task), Legal(s, e),
           NEW n \in 1..Len(Handler("core", i)),
           NEW r, r = After(d, SubSeq(Handler("core", i), 1, n), "core", i)
    PROVE  /\ n < Len(Handler("core", i)) => Underway(r, d, s, e, i)
           /\ n = Len(Handler("core", i)) => Finished(r, d, s, e, i)
<1> DEFINE h == Handler("core", i)
<1>1. e = Log("core")[i]
  BY DEF Log
<1>a. ASSUME NEW st \in Seq(Words), Statements("core", i) = st, Len(st) \in 1..3,
             NEW d1, d1 = Exec(d, st[1], "core", i, e),
             NEW d2, d2 = Exec(d1, st[2], "core", i, e),
             NEW d3, d3 = Exec(d2, st[3], "core", i, e),
             NEW x, x = (IF Len(st) = 1 THEN d1 ELSE IF Len(st) = 2 THEN d2 ELSE d3),
             Done(x, d, s, e, i),
             Len(st) >= 2 => Doing(d1, d, s, e, i),
             Len(st) >= 3 => Doing(d2, d, s, e, i)
      PROVE  /\ n < Len(h) => Underway(r, d, s, e, i)
             /\ n = Len(h) => Finished(r, d, s, e, i)
  <2>1. Len(h) = Len(st) + 2
    BY <1>a, HandlerParts
  <2>2. /\ n <= Len(st) => r = IF n = 1 THEN d1 ELSE IF n = 2 THEN d2 ELSE d3
        /\ n = Len(st) + 1 => r = SetCursor(x, e, "core")
        /\ n = Len(st) + 2 => r = SetLastBlock(SetCursor(x, e, "core"), e)
    BY <1>1, <1>a, ScriptRuns
  <2>3. Doing(x, d, s, e, i)
    BY <1>a DEF Done
  <2> HIDE DEF h
  <2>4. n \in 1..Len(h)
    BY DEF h
  <2>5. n <= Len(st) => Doing(r, d, s, e, i)
    <3> SUFFICES ASSUME n <= Len(st) PROVE Doing(r, d, s, e, i)
      OBVIOUS
    <3>1. Len(st) = 1 \/ Len(st) = 2 \/ Len(st) = 3
      BY <1>a
    <3>2. CASE Len(st) = 1
      <4>1. n = 1 /\ x = d1 /\ r = d1
        BY <1>a, <2>2, <2>4, <3>2
      <4> QED
        BY <2>3, <4>1
    <3>3. CASE Len(st) = 2
      <4>1. x = d2 /\ ((n = 1 /\ r = d1) \/ (n = 2 /\ r = d2))
        BY <1>a, <2>2, <2>4, <3>3
      <4> QED
        BY <1>a, <2>3, <3>3, <4>1
    <3>4. CASE Len(st) = 3
      <4>1. x = d3 /\ ((n = 1 /\ r = d1) \/ (n = 2 /\ r = d2) \/ (n = 3 /\ r = d3))
        BY <1>a, <2>2, <2>4, <3>4
      <4> QED
        BY <1>a, <2>3, <3>4, <4>1
    <3> QED
      BY <3>1, <3>2, <3>3, <3>4
  <2>6. n = Len(st) + 1 => Underway(r, d, s, e, i)
    BY <1>a, <2>2 DEF Underway
  <2>7. n = Len(st) + 2 => Finished(r, d, s, e, i)
    BY <1>a, <2>2 DEF Finished
  <2>8. n <= Len(st) \/ n = Len(st) + 1 \/ n = Len(st) + 2
    BY <2>1, <2>4
  <2>9. n <= Len(st) \/ n = Len(st) + 1 => n # Len(h)
    BY <2>1
  <2> QED
    BY <2>1, <2>5, <2>6, <2>7, <2>8, <2>9 DEF Underway
<1>2. CASE e.name = "TaskCreated"
  <2> DEFINE st == <<"insertTask">>
             d1 == Exec(d, st[1], "core", i, e)
             d2 == Exec(d1, st[2], "core", i, e)
             d3 == Exec(d2, st[3], "core", i, e)
  <2>1. "insertTask" \in Words
    BY DEF Words
  <2>2. st \in Seq(Words) /\ Len(st) = 1
    BY <2>1
  <2>3. st[1] = "insertTask"
    OBVIOUS
  <2>4. Statements("core", i) = st
    BY <1>2 DEF Statements
  <2> HIDE DEF st
  <2>5. Done(d1, d, s, e, i)
    BY <1>2, <2>3, DoesCreated
  <2> HIDE DEF d1, d2, d3
  <2>6. d1 = IF Len(st) = 1 THEN d1 ELSE IF Len(st) = 2 THEN d2 ELSE d3
    BY <2>2
  <2>7. Len(st) \in 1..3 /\ (Len(st) >= 2 => Doing(d1, d, s, e, i)) /\ (Len(st) >= 3 => Doing(d2, d, s, e, i))
    BY <2>2, <2>5
  <2> QED
    BY <1>a, <2>2, <2>4, <2>5, <2>6, <2>7 DEF d1, d2, d3
<1>3. CASE e.name = "TaskAccepted"
  <2> DEFINE st == <<"markAccepted", "firstSnapshot">>
             d1 == Exec(d, st[1], "core", i, e)
             d2 == Exec(d1, st[2], "core", i, e)
             d3 == Exec(d2, st[3], "core", i, e)
  <2>1. "markAccepted" \in Words /\ "firstSnapshot" \in Words
    BY DEF Words
  <2>2. st \in Seq(Words) /\ Len(st) = 2
    BY <2>1
  <2>3. st[1] = "markAccepted" /\ st[2] = "firstSnapshot"
    OBVIOUS
  <2>4. Statements("core", i) = st
    BY <1>3 DEF Statements
  <2> HIDE DEF st
  <2>5. Done(d2, d, s, e, i) /\ Doing(d1, d, s, e, i)
    BY <1>3, <2>3, DoesAccepted
  <2> HIDE DEF d1, d2, d3
  <2>6. d2 = IF Len(st) = 1 THEN d1 ELSE IF Len(st) = 2 THEN d2 ELSE d3
    BY <2>2
  <2>7. Len(st) \in 1..3 /\ (Len(st) >= 2 => Doing(d1, d, s, e, i)) /\ (Len(st) >= 3 => Doing(d2, d, s, e, i))
    BY <2>2, <2>5
  <2> QED
    BY <1>a, <2>2, <2>4, <2>5, <2>6, <2>7 DEF d1, d2, d3
<1>4. CASE e.name = "BetPlaced"
  <2> DEFINE st == <<"updatePools", "insertBet", "insertSnapshot">>
             d1 == Exec(d, st[1], "core", i, e)
             d2 == Exec(d1, st[2], "core", i, e)
             d3 == Exec(d2, st[3], "core", i, e)
  <2>1. "updatePools" \in Words /\ "insertBet" \in Words /\ "insertSnapshot" \in Words
    BY DEF Words
  <2>2. st \in Seq(Words) /\ Len(st) = 3
    BY <2>1
  <2>3. st[1] = "updatePools" /\ st[2] = "insertBet" /\ st[3] = "insertSnapshot"
    OBVIOUS
  <2>4. Statements("core", i) = st
    BY <1>4 DEF Statements
  <2> HIDE DEF st
  <2>5. Done(d3, d, s, e, i) /\ Doing(d1, d, s, e, i) /\ Doing(d2, d, s, e, i)
    BY <1>4, <2>3, DoesBet
  <2> HIDE DEF d1, d2, d3
  <2>6. d3 = IF Len(st) = 1 THEN d1 ELSE IF Len(st) = 2 THEN d2 ELSE d3
    BY <2>2
  <2>7. Len(st) \in 1..3 /\ (Len(st) >= 2 => Doing(d1, d, s, e, i)) /\ (Len(st) >= 3 => Doing(d2, d, s, e, i))
    BY <2>2, <2>5
  <2> QED
    BY <1>a, <2>2, <2>4, <2>5, <2>6, <2>7 DEF d1, d2, d3
<1>5. CASE e.name = "ExecutionStarted"
  <2> DEFINE st == <<"ensurePCutoff", "setExecuting">>
             d1 == Exec(d, st[1], "core", i, e)
             d2 == Exec(d1, st[2], "core", i, e)
             d3 == Exec(d2, st[3], "core", i, e)
  <2>1. "ensurePCutoff" \in Words /\ "setExecuting" \in Words
    BY DEF Words
  <2>2. st \in Seq(Words) /\ Len(st) = 2
    BY <2>1
  <2>3. st[1] = "ensurePCutoff" /\ st[2] = "setExecuting"
    OBVIOUS
  <2>4. Statements("core", i) = st
    BY <1>5 DEF Statements
  <2> HIDE DEF st
  <2>5. Done(d2, d, s, e, i) /\ Doing(d1, d, s, e, i)
    BY <1>5, <2>3, DoesStarted
  <2> HIDE DEF d1, d2, d3
  <2>6. d2 = IF Len(st) = 1 THEN d1 ELSE IF Len(st) = 2 THEN d2 ELSE d3
    BY <2>2
  <2>7. Len(st) \in 1..3 /\ (Len(st) >= 2 => Doing(d1, d, s, e, i)) /\ (Len(st) >= 3 => Doing(d2, d, s, e, i))
    BY <2>2, <2>5
  <2> QED
    BY <1>a, <2>2, <2>4, <2>5, <2>6, <2>7 DEF d1, d2, d3
<1>6. CASE e.name = "DeliverySubmitted"
  <2> DEFINE st == <<"ensurePCutoff", "markDelivered", "reqhash">>
             d1 == Exec(d, st[1], "core", i, e)
             d2 == Exec(d1, st[2], "core", i, e)
             d3 == Exec(d2, st[3], "core", i, e)
  <2>1. "ensurePCutoff" \in Words /\ "markDelivered" \in Words /\ "reqhash" \in Words
    BY DEF Words
  <2>2. st \in Seq(Words) /\ Len(st) = 3
    BY <2>1
  <2>3. st[1] = "ensurePCutoff" /\ st[2] = "markDelivered" /\ st[3] = "reqhash"
    OBVIOUS
  <2>4. Statements("core", i) = st
    BY <1>6 DEF Statements
  <2> HIDE DEF st
  <2>5. Done(d3, d, s, e, i) /\ Doing(d1, d, s, e, i) /\ Doing(d2, d, s, e, i)
    BY <1>6, <2>3, DoesDelivered
  <2> HIDE DEF d1, d2, d3
  <2>6. d3 = IF Len(st) = 1 THEN d1 ELSE IF Len(st) = 2 THEN d2 ELSE d3
    BY <2>2
  <2>7. Len(st) \in 1..3 /\ (Len(st) >= 2 => Doing(d1, d, s, e, i)) /\ (Len(st) >= 3 => Doing(d2, d, s, e, i))
    BY <2>2, <2>5
  <2> QED
    BY <1>a, <2>2, <2>4, <2>5, <2>6, <2>7 DEF d1, d2, d3
<1>7. CASE e.name = "OutcomeResolved"
  <2> DEFINE st == <<"ensurePCutoff", "markSettled", "recomputeTrust">>
             d1 == Exec(d, st[1], "core", i, e)
             d2 == Exec(d1, st[2], "core", i, e)
             d3 == Exec(d2, st[3], "core", i, e)
  <2>1. "ensurePCutoff" \in Words /\ "markSettled" \in Words /\ "recomputeTrust" \in Words
    BY DEF Words
  <2>2. st \in Seq(Words) /\ Len(st) = 3
    BY <2>1
  <2>3. st[1] = "ensurePCutoff" /\ st[2] = "markSettled" /\ st[3] = "recomputeTrust"
    OBVIOUS
  <2>4. Statements("core", i) = st
    BY <1>7 DEF Statements
  <2> HIDE DEF st
  <2>5. Done(d3, d, s, e, i) /\ Doing(d1, d, s, e, i) /\ Doing(d2, d, s, e, i)
    BY <1>7, <2>3, DoesResolved
  <2> HIDE DEF d1, d2, d3
  <2>6. d3 = IF Len(st) = 1 THEN d1 ELSE IF Len(st) = 2 THEN d2 ELSE d3
    BY <2>2
  <2>7. Len(st) \in 1..3 /\ (Len(st) >= 2 => Doing(d1, d, s, e, i)) /\ (Len(st) >= 3 => Doing(d2, d, s, e, i))
    BY <2>2, <2>5
  <2> QED
    BY <1>a, <2>2, <2>4, <2>5, <2>6, <2>7 DEF d1, d2, d3
<1>8. CASE e.name = "TaskCancelled"
  <2> DEFINE st == <<"markCancelled">>
             d1 == Exec(d, st[1], "core", i, e)
             d2 == Exec(d1, st[2], "core", i, e)
             d3 == Exec(d2, st[3], "core", i, e)
  <2>1. "markCancelled" \in Words
    BY DEF Words
  <2>2. st \in Seq(Words) /\ Len(st) = 1
    BY <2>1
  <2>3. st[1] = "markCancelled"
    OBVIOUS
  <2>4. Statements("core", i) = st
    BY <1>8 DEF Statements
  <2> HIDE DEF st
  <2>5. Done(d1, d, s, e, i)
    BY <1>8, <2>3, DoesCancelled
  <2> HIDE DEF d1, d2, d3
  <2>6. d1 = IF Len(st) = 1 THEN d1 ELSE IF Len(st) = 2 THEN d2 ELSE d3
    BY <2>2
  <2>7. Len(st) \in 1..3 /\ (Len(st) >= 2 => Doing(d1, d, s, e, i)) /\ (Len(st) >= 3 => Doing(d2, d, s, e, i))
    BY <2>2, <2>5
  <2> QED
    BY <1>a, <2>2, <2>4, <2>5, <2>6, <2>7 DEF d1, d2, d3
<1>9. e.name \in {"TaskCreated", "TaskAccepted", "BetPlaced", "ExecutionStarted", "DeliverySubmitted",
               "OutcomeResolved", "TaskCancelled"}
  BY EventParts
<1> QED
  BY <1>2, <1>3, <1>4, <1>5, <1>6, <1>7, <1>8, <1>9

(* The event after the first k, and what they told.                        *)
LEMMA Prefix ==
    ASSUME NEW c, NEW h, CoreShape(c, h), NEW k \in 0..Len(c)
    PROVE  LET s == SubSeq(c, 1, k) IN
           /\ s \in Seq(CoreEvent) /\ \A t \in Tasks : Told(s, t)
           /\ \A t : \A i : i \in Events(s, t) <=> i \in Events(c, t) /\ i <= k
           /\ \A i \in 1..k : s[i] = c[i]
<1> DEFINE s == SubSeq(c, 1, k)
<1>1. c \in Seq(CoreEvent) /\ \A t \in Tasks : Told(s, t)
  BY DEF CoreShape
<1>2. s \in Seq(CoreEvent) /\ Len(s) = k /\ \A i \in 1..k : s[i] = c[i]
  BY <1>1, PrefixesAre
<1> HIDE DEF s
<1>3. DOMAIN s = 1..k /\ DOMAIN c = 1..Len(c) /\ Len(c) \in Nat
  BY <1>1, <1>2
<1>4. \A t : \A i : i \in Events(s, t) <=> i \in Events(c, t) /\ i <= k
  BY <1>2, <1>3 DEF Events
<1> QED
  BY <1>1, <1>2, <1>4 DEF s

LEMMA NextEvent ==
    ASSUME NEW c, NEW h, CoreShape(c, h), NEW k \in 0..Len(c), k < Len(c)
    PROVE  LET s == SubSeq(c, 1, k)
               e == c[k + 1] IN
           /\ e \in CoreEvent /\ e.task \in Tasks /\ Legal(s, e) /\ Grown(SubSeq(c, 1, k + 1), s, e)
           /\ k + 1 \in 0..Len(c) /\ k + 1 \in DOMAIN c
<1>1. c \in Seq(CoreEvent) /\ \A n \in 1..Len(c) : Legal(SubSeq(c, 1, n - 1), c[n])
  BY DEF CoreShape
<1>2. k \in 0..(Len(c) - 1) /\ k + 1 \in 1..Len(c) /\ (k + 1) - 1 = k /\ DOMAIN c = 1..Len(c)
  BY <1>1
<1>3. Legal(SubSeq(c, 1, k), c[k + 1])
  BY <1>1, <1>2
<1>4. c[k + 1] \in CoreEvent /\ SubSeq(c, 1, k + 1) = Append(SubSeq(c, 1, k), c[k + 1])
  BY <1>1, <1>2, PrefixGrows
<1> QED
  BY <1>2, <1>3, <1>4, EventParts DEF Grown

(* What a whole row and a row applied in part have in common.              *)
LEMMA RowIsPartial ==
    ASSUME NEW row, NEW points, NEW s, NEW e, Told(s, e.task), Legal(s, e), e \in CoreEvent,
           RowIs(row, points, s, e.task)
    PROVE  Partial(row, points, s, e)
<1> DEFINE t == e.task
<1>1. e.name \in {"TaskCreated", "TaskAccepted", "BetPlaced", "ExecutionStarted",
                  "TaskCancelled", "DeliverySubmitted", "OutcomeResolved"}
  BY EventParts
<1>2. /\ row.state = StateOn(s, t) /\ (row = NoRow <=> StateOn(s, t) = "none")
      /\ Taken(s, t) => Traded(row, points, s, t)
      /\ ~Taken(s, t) => points = <<>>
      /\ Over(s, t) => row.p = Price(s, t)
      /\ ~Over(s, t) /\ row # NoRow => row.p = NULL
  BY DEF RowIs
<1>3. Taken(s, t) <=> StateOn(s, t) \in {"Open", "Executing", "Delivered", "Settled"}
  BY DEF Told
<1>4. CASE e.name = "TaskCreated"
  BY <1>2, <1>3, <1>4 DEF Partial, Legal
<1>5. CASE e.name = "TaskAccepted"
  <2>1. Early(<<>>, e.cutoff)
    BY DEF Early
  <2> QED
    BY <1>2, <1>3, <1>5, <2>1 DEF Partial, Legal, Over
<1>6. CASE e.name = "BetPlaced"
  BY <1>2, <1>3, <1>6 DEF Partial, Legal, Over, Traded, Charted
<1>7. CASE e.name = "ExecutionStarted"
  BY <1>2, <1>3, <1>7 DEF Partial, Legal, Over, Traded
<1>8. CASE e.name = "DeliverySubmitted"
  BY <1>2, <1>3, <1>8 DEF Partial, Legal, Over
<1>9. CASE e.name = "OutcomeResolved"
  <2>1. StateOn(s, t) \in {"Open", "Delivered"}
    BY <1>9 DEF Legal
  <2>2. Traded(row, points, s, t) /\ row # NoRow /\ row.state = StateOn(s, t) /\ row.p \in {NULL, Price(s, t)}
    BY <1>2, <1>3, <2>1 DEF Over
  <2> QED
    BY <1>9, <2>1, <2>2 DEF Partial
<1>10. CASE e.name = "TaskCancelled"
  BY <1>2, <1>3, <1>10 DEF Partial, Legal, Over
<1> QED
  BY <1>1, <1>4, <1>5, <1>6, <1>7, <1>8, <1>9, <1>10

(* Rows that are applied in part exist, but for one that is being created, *)
(* and are settled only by an outcome.                                     *)
LEMMA PartialParts ==
    ASSUME NEW row, NEW points, NEW s, NEW e, Told(s, e.task), Legal(s, e), e \in CoreEvent,
           Partial(row, points, s, e)
    PROVE  /\ e.name # "TaskCreated" => row # NoRow
           /\ row.state = "Settled" => e.name = "OutcomeResolved"
           /\ e.name = "OutcomeResolved" => row.worker = Taker(s, e.task).worker
           /\ StateOn(s, e.task) # "Settled"
           /\ e.name = "TaskCreated" => Events(s, e.task) = {}
<1>1. e.name \in {"TaskCreated", "TaskAccepted", "BetPlaced", "ExecutionStarted",
                  "TaskCancelled", "DeliverySubmitted", "OutcomeResolved"}
  BY EventParts
<1>2. StateOn(s, e.task) # "Settled"
  BY <1>1 DEF Legal
<1>3. e.name = "TaskCreated" => Events(s, e.task) = {}
  BY DEF Legal, Told
<1>4. e.name # "TaskCreated" => row # NoRow
  BY <1>1 DEF Partial, Traded
<1>5. e.name = "TaskCreated" => row.state # "Settled"
  BY DEF Partial, NoRow, CreatedRow
<1>6. row.state = "Settled" => e.name = "OutcomeResolved"
  BY <1>1, <1>5 DEF Partial
<1>7. e.name = "OutcomeResolved" => row.worker = Taker(s, e.task).worker
  BY DEF Partial, Traded, Placed
<1> QED
  BY <1>2, <1>3, <1>4, <1>6, <1>7

(* The rows, while and when the next event is applied.                     *)
LEMMA PartialNow ==
    ASSUME NEW c, NEW h, CoreShape(c, h), NEW k \in 0..Len(c), k < Len(c),
           NEW d, NEW torn, RowsOk(c, d, k, torn),
           NEW s, s = SubSeq(c, 1, k), NEW e, e = c[k + 1]
    PROVE  Partial(d.tasks[e.task], d.odds[e.task], s, e)
<1>1. e \in CoreEvent /\ e.task \in Tasks /\ Legal(s, e)
  BY NextEvent
<1>2. Told(s, e.task)
  BY <1>1, Prefix
<1>3. \/ RowIs(d.tasks[e.task], d.odds[e.task], s, e.task)
      \/ Partial(d.tasks[e.task], d.odds[e.task], s, e)
  BY <1>1 DEF RowsOk
<1> QED
  BY <1>1, <1>2, <1>3, RowIsPartial

LEMMA OtherRows ==
    ASSUME NEW c, NEW k, NEW d, NEW torn, RowsOk(c, d, k, torn), NEW t \in Tasks,
           k < Len(c) => c[k + 1].task # t
    PROVE  RowIs(d.tasks[t], d.odds[t], SubSeq(c, 1, k), t)
BY DEF RowsOk

LEMMA RowsDoing ==
    ASSUME NEW c, NEW h, CoreShape(c, h), NEW k \in 0..Len(c), k < Len(c),
           NEW d, NEW torn, RowsOk(c, d, k, torn),
           NEW s, s = SubSeq(c, 1, k), NEW e, e = c[k + 1],
           NEW d2, NEW i, Doing(d2, d, s, e, i)
    PROVE  RowsOk(c, d2, k, TRUE)
<1>1. Partial(d2.tasks[e.task], d2.odds[e.task], s, e)
  BY PartialNow DEF Doing
<1>2. ASSUME NEW t \in Tasks, t # e.task
      PROVE  RowIs(d2.tasks[t], d2.odds[t], s, t)
  <2>1. RowIs(d.tasks[t], d.odds[t], s, t)
    BY <1>2, OtherRows
  <2>2. d2.tasks[t] = d.tasks[t] /\ d2.odds[t] = d.odds[t]
    BY <1>2 DEF Doing, Touches
  <2> QED
    BY <2>1, <2>2
<1> QED
  BY <1>1, <1>2 DEF RowsOk

LEMMA RowCarried ==
    ASSUME NEW s \in Seq(CoreEvent), NEW e \in CoreEvent, NEW t, e.task # t, Told(s, t),
           NEW r, Grown(r, s, e), NEW row, NEW points, RowIs(row, points, s, t)
    PROVE  RowIs(row, points, r, t)
<1>1. /\ StateOn(r, t) = StateOn(s, t)
      /\ Taken(r, t) <=> Taken(s, t)
      /\ Taken(s, t) => Market(r, t) = Market(s, t) /\ Taker(r, t) = Taker(s, t)
      /\ StateOn(s, t) # "none" => Ending(r, t) = Ending(s, t)
  BY OthersStay
<1>2. Over(s, t) => Taken(s, t)
  BY DEF Told, Over
<1> QED
  BY <1>1, <1>2 DEF RowIs, Traded, Placed, Pooled, Charted, Over, Price

LEMMA RowsDone ==
    ASSUME NEW c, NEW h, CoreShape(c, h), NEW k \in 0..Len(c), k < Len(c),
           NEW d, NEW torn, RowsOk(c, d, k, torn),
           NEW s, s = SubSeq(c, 1, k), NEW e, e = c[k + 1],
           NEW d2, NEW i, Done(d2, d, s, e, i), NEW l, l = k + 1, NEW again
    PROVE  RowsOk(c, d2, l, again)
<1> DEFINE r == SubSeq(c, 1, l)
<1>1. Grown(r, s, e) /\ e \in CoreEvent /\ s \in Seq(CoreEvent)
  BY NextEvent, Prefix
<1>2. r = Append(s, e)
  BY <1>1 DEF Grown
<1> HIDE DEF r
<1>3. RowIs(d2.tasks[e.task], d2.odds[e.task], r, e.task)
  BY <1>2, PartialNow DEF Done
<1>4. ASSUME NEW t \in Tasks, t # e.task
      PROVE  RowIs(d2.tasks[t], d2.odds[t], r, t)
  <2>1. RowIs(d.tasks[t], d.odds[t], s, t)
    BY <1>4, OtherRows
  <2>2. d2.tasks[t] = d.tasks[t] /\ d2.odds[t] = d.odds[t]
    BY <1>4 DEF Done, Doing, Touches
  <2>3. Told(s, t) /\ e.task # t
    BY <1>4, Prefix
  <2> QED
    BY <1>1, <2>1, <2>2, <2>3, RowCarried
<1> QED
  BY <1>3, <1>4 DEF RowsOk, r

(* The trust rows likewise.                                                *)
LEMMA SameInputs ==
    ASSUME NEW d, NEW d2, NEW t, Touches(d2, d, t), NEW w,
           ~(d.tasks[t] # NoRow /\ d.tasks[t].state = "Settled" /\ d.tasks[t].worker = w),
           ~(d2.tasks[t] # NoRow /\ d2.tasks[t].state = "Settled" /\ d2.tasks[t].worker = w)
    PROVE  SettledInputsFor(d2, w) = SettledInputsFor(d, w)
<1>1. SettledForWorker(d2, w) = SettledForWorker(d, w)
  BY DEF SettledForWorker, Touches
<1>2. \A u \in SettledForWorker(d, w) : d2.tasks[u] = d.tasks[u]
  BY DEF SettledForWorker, Touches
<1> QED
  BY <1>1, <1>2 DEF SettledInputsFor

LEMMA TrustStays ==
    ASSUME NEW c, NEW h, CoreShape(c, h), NEW k \in 0..Len(c), k < Len(c),
           NEW d, NEW torn, RowsOk(c, d, k, torn), TrustOk(c, d, k, torn),
           NEW s, s = SubSeq(c, 1, k), NEW e, e = c[k + 1], NEW d2, NEW i
    PROVE  /\ Doing(d2, d, s, e, i) => TrustOk(c, d2, k, TRUE)
           /\ Done(d2, d, s, e, i) => \A l, again : TrustOk(c, d2, l, again)
<1> DEFINE r == d.tasks[e.task]
           r2 == d2.tasks[e.task]
<1>1. e \in CoreEvent /\ e.task \in Tasks /\ Legal(s, e) /\ Told(s, e.task)
  BY NextEvent, Prefix
<1>2. ASSUME Doing(d2, d, s, e, i), NEW w \in Workers,
             ~(e.name = "OutcomeResolved" /\ r2 # NoRow /\ r2.worker = w)
      PROVE  d2.trust[w] = TrustCore(SettledInputsFor(d2, w))
  <2>1. Partial(r, d.odds[e.task], s, e) /\ Partial(r2, d2.odds[e.task], s, e)
    BY <1>2, PartialNow DEF Doing
  <2>2. /\ e.name = "OutcomeResolved" => r.worker = r2.worker /\ r # NoRow /\ r2 # NoRow
        /\ r.state = "Settled" => e.name = "OutcomeResolved"
        /\ r2.state = "Settled" => e.name = "OutcomeResolved"
    BY <1>1, <2>1, PartialParts
  <2>3. d2.trust[w] = d.trust[w] /\ Touches(d2, d, e.task)
    BY <1>2 DEF Doing
  <2>4. d.trust[w] = TrustCore(SettledInputsFor(d, w))
    BY <1>2, <2>2 DEF TrustOk
  <2>5. SettledInputsFor(d2, w) = SettledInputsFor(d, w)
    BY <1>2, <2>2, <2>3, SameInputs
  <2> QED
    BY <2>3, <2>4, <2>5
<1>3. Doing(d2, d, s, e, i) => TrustOk(c, d2, k, TRUE)
  BY <1>2 DEF TrustOk
<1>4. Done(d2, d, s, e, i) => \A w \in Workers : d2.trust[w] = TrustCore(SettledInputsFor(d2, w))
  BY <1>2 DEF Done
<1> QED
  BY <1>3, <1>4 DEF TrustOk

(* The deliveries seen, and the answers that reached the rows.             *)
LEMMA HashesStay ==
    ASSUME NEW c, NEW k \in Nat, NEW d, HashesOk(c, d, k), NEW s, NEW e, e = c[k + 1], NEW d2, NEW i
    PROVE  /\ Doing(d2, d, s, e, i) => HashesOk(c, d2, k)
           /\ Done(d2, d, s, e, i) => \A l : l = k + 1 => HashesOk(c, d2, l)
<1>1. Doing(d2, d, s, e, i) => HashesOk(c, d2, k)
  BY DEF HashesOk, Doing
<1>2. ASSUME Done(d2, d, s, e, i), NEW m \in 1..(k + 1), c[m].name = "DeliverySubmitted"
      PROVE  c[m].task \in d2.reqhash
  <2>1. CASE m \in 1..k
    BY <1>1, <1>2, <2>1 DEF HashesOk, Done
  <2>2. CASE m = k + 1
    BY <1>2, <2>2 DEF Done
  <2> QED
    BY <2>1, <2>2
<1> QED
  BY <1>1, <1>2 DEF HashesOk

LEMMA DecidedStays ==
    ASSUME NEW c, NEW h, CoreShape(c, h), NEW k \in 0..Len(c), k < Len(c),
           NEW d, NEW torn, RowsOk(c, d, k, torn), NEW v, ValShape(c, v, h), DecidedOk(v, d),
           NEW s, s = SubSeq(c, 1, k), NEW e, e = c[k + 1], NEW d2, NEW i, Doing(d2, d, s, e, i)
    PROVE  DecidedOk(v, d2)
<1> DEFINE r == d.tasks[e.task]
           r2 == d2.tasks[e.task]
<1>1. e \in CoreEvent /\ e.task \in Tasks /\ Legal(s, e) /\ Told(s, e.task) /\ k + 1 \in DOMAIN c
  BY NextEvent, Prefix
<1>2. Partial(r, d.odds[e.task], s, e) /\ Partial(r2, d2.odds[e.task], s, e)
  BY PartialNow DEF Doing
<1>3. r2.state = "Settled" => e.name = "OutcomeResolved"
  BY <1>1, <1>2, PartialParts
<1>4. ASSUME r2.state = "Settled", r2.rule \in {2, 3}
      PROVE  \E m \in DOMAIN v : v[m].task = e.task /\ r2.score = v[m].score
  <2>1. e.name = "OutcomeResolved"
    BY <1>3, <1>4
  <2>2. \/ r2.state = r.state /\ KeepsEnd(r2, r)
        \/ r2.state = "Settled" /\ r2.rule = e.rule /\ r2.score = e.score
    BY <1>2, <2>1 DEF Doing
  <2>3. CASE r2.state = r.state /\ KeepsEnd(r2, r)
    BY <1>1, <1>4, <2>3 DEF DecidedOk, KeepsEnd
  <2>4. CASE r2.rule = e.rule /\ r2.score = e.score
    BY <1>1, <1>4, <2>1, <2>4 DEF ValShape
  <2> QED
    BY <2>2, <2>3, <2>4
<1>5. \A t \in Tasks : t # e.task => d2.tasks[t] = d.tasks[t]
  BY DEF Doing, Touches
<1> QED
  BY <1>4, <1>5 DEF DecidedOk

LEMMA AnswersStay ==
    ASSUME NEW c, NEW h, CoreShape(c, h), NEW k \in 0..Len(c), k < Len(c),
           NEW d, NEW torn, RowsOk(c, d, k, torn), NEW v, ValShape(c, v, h),
           NEW j \in 0..Len(v), AnswersOk(v, d, j), AnsweredInOrder(c, v, k, j),
           NEW s, s = SubSeq(c, 1, k), NEW e, e = c[k + 1], NEW d2, NEW i, Doing(d2, d, s, e, i)
    PROVE  AnswersOk(v, d2, j)
<1> DEFINE r == d.tasks[e.task]
           r2 == d2.tasks[e.task]
<1>1. e \in CoreEvent /\ e.task \in Tasks /\ Legal(s, e) /\ Told(s, e.task) /\ k + 1 \in DOMAIN c
  BY NextEvent, Prefix
<1>2. Partial(r, d.odds[e.task], s, e) /\ Partial(r2, d2.odds[e.task], s, e)
  BY PartialNow DEF Doing
<1>3. r.state = "Settled" => e.name = "OutcomeResolved"
  BY <1>1, <1>2, PartialParts
<1>b. e.name # "TaskCreated" => r2 # NoRow
  BY <1>1, <1>2, PartialParts
<1>c. e.name = "TaskCreated" => Events(s, e.task) = {}
  BY <1>1, <1>2, PartialParts
<1>a. v \in Seq(ValEvent) /\ DOMAIN v = 1..Len(v) /\ \A m \in 1..Len(v) : v[m].task \in Tasks
  <2>1. v \in Seq(ValEvent)
    BY DEF ValShape
  <2>2. DOMAIN v = 1..Len(v) /\ \A m \in 1..Len(v) : v[m] \in ValEvent
    BY <2>1
  <2> QED
    BY <2>1, <2>2 DEF ValEvent
<1>4. ASSUME NEW m \in 1..j PROVE Answered(d2.tasks[v[m].task], v[m])
  <2>1. Answered(d.tasks[v[m].task], v[m]) /\ m \in DOMAIN v /\ v[m].task \in Tasks
    BY <1>a, <1>4 DEF AnswersOk
  <2>2. CASE v[m].task # e.task
    <3>1. d2.tasks[v[m].task] = d.tasks[v[m].task]
      BY <2>1, <2>2 DEF Doing, Touches
    <3> QED
      BY <2>1, <3>1
  <2>3. CASE v[m].task = e.task
    <3>1. e.name # "TaskCreated"
      <4>1. PICK n \in Events(c, e.task) : n <= k
        BY <2>3 DEF AnsweredInOrder
      <4>2. n \in Events(s, e.task)
        BY <4>1, Prefix
      <4> QED
        BY <1>c, <4>2
    <3>2. r2 # NoRow
      BY <1>b, <3>1
    <3>3. CASE e.name # "OutcomeResolved"
      <4>1. KeepsEnd(r2, r) /\ r.state # "Settled"
        BY <1>2, <1>3, <3>1, <3>3 DEF Doing
      <4> QED
        BY <2>1, <2>3, <3>2, <4>1 DEF Answered, KeepsEnd
    <3>4. CASE e.name = "OutcomeResolved"
      <4>1. \/ r2.state = r.state /\ KeepsEnd(r2, r)
            \/ r2.state = "Settled" /\ r2.rule = e.rule /\ r2.score = e.score
        BY <1>2, <3>4 DEF Doing
      <4>2. CASE r2.state = r.state /\ KeepsEnd(r2, r)
        BY <2>1, <2>3, <3>2, <4>2 DEF Answered, KeepsEnd
      <4>3. CASE r2.state = "Settled" /\ r2.rule = e.rule /\ r2.score = e.score /\ e.rule \in {2, 3}
        <5>1. PICK n \in DOMAIN v : v[n].task = e.task /\ v[n].score = e.score
          BY <1>1, <3>4, <4>3 DEF ValShape
        <5>2. n = m
          BY <2>1, <2>3, <5>1 DEF ValShape
        <5> QED
          BY <2>3, <3>2, <4>3, <5>1, <5>2 DEF Answered
      <4>4. CASE r2.state = "Settled" /\ r2.rule = e.rule /\ e.rule \notin {2, 3}
        BY <2>3, <4>4 DEF Answered
      <4> QED
        BY <4>1, <4>2, <4>3, <4>4
    <3> QED
      BY <3>3, <3>4
  <2> QED
    BY <2>2, <2>3
<1> QED
  BY <1>4 DEF AnswersOk

(* All the tables, while and when the next event is applied.               *)
LEMMA TablesDoing ==
    ASSUME NEW c, NEW h, CoreShape(c, h), NEW k \in 0..Len(c), k < Len(c), NEW v, ValShape(c, v, h),
           NEW j \in 0..Len(v), AnsweredInOrder(c, v, k, j),
           NEW d, NEW torn, TablesOk(c, v, d, k, j, torn),
           NEW s, s = SubSeq(c, 1, k), NEW e, e = c[k + 1], NEW d2, NEW i, Doing(d2, d, s, e, i)
    PROVE  TablesOk(c, v, d2, k, j, TRUE)
<1>1. /\ RowsOk(c, d, k, torn) /\ TrustOk(c, d, k, torn)
      /\ HashesOk(c, d, k) /\ DecidedOk(v, d) /\ AnswersOk(v, d, j)
  BY DEF TablesOk
<1>2. RowsOk(c, d2, k, TRUE)
  BY <1>1, RowsDoing
<1>3. TrustOk(c, d2, k, TRUE)
  BY <1>1, TrustStays
<1>4. HashesOk(c, d2, k)
  <2>1. k \in Nat
    OBVIOUS
  <2> QED
    BY <1>1, <2>1, HashesStay
<1>5. DecidedOk(v, d2)
  BY <1>1, DecidedStays
<1>6. AnswersOk(v, d2, j)
  BY <1>1, AnswersStay
<1> QED
  BY <1>2, <1>3, <1>4, <1>5, <1>6 DEF TablesOk

LEMMA TablesDone ==
    ASSUME NEW c, NEW h, CoreShape(c, h), NEW k \in 0..Len(c), k < Len(c), NEW v, ValShape(c, v, h),
           NEW j \in 0..Len(v), AnsweredInOrder(c, v, k, j),
           NEW d, NEW torn, TablesOk(c, v, d, k, j, torn),
           NEW s, s = SubSeq(c, 1, k), NEW e, e = c[k + 1], NEW d2, NEW i, Done(d2, d, s, e, i),
           NEW l, l = k + 1, NEW again
    PROVE  TablesOk(c, v, d2, l, j, again)
<1>1. /\ RowsOk(c, d, k, torn) /\ TrustOk(c, d, k, torn)
      /\ HashesOk(c, d, k) /\ DecidedOk(v, d) /\ AnswersOk(v, d, j)
  BY DEF TablesOk
<1>0. Doing(d2, d, s, e, i)
  BY DEF Done
<1>2. RowsOk(c, d2, l, again)
  BY <1>1, RowsDone
<1>3. TrustOk(c, d2, l, again)
  BY <1>1, TrustStays
<1>4. HashesOk(c, d2, l)
  <2>1. k \in Nat
    OBVIOUS
  <2> QED
    BY <1>1, <2>1, HashesStay
<1>5. DecidedOk(v, d2)
  BY <1>0, <1>1, DecidedStays
<1>6. AnswersOk(v, d2, j)
  BY <1>0, <1>1, AnswersStay
<1> QED
  BY <1>2, <1>3, <1>4, <1>5, <1>6 DEF TablesOk

(* Where the cursors stand does not matter to the tables.                  *)
LEMMA SameTablesOk ==
    ASSUME NEW c, NEW v, NEW d, NEW k, NEW j, NEW torn, TablesOk(c, v, d, k, j, torn),
           NEW d2, SameTables(d2, d)
    PROVE  TablesOk(c, v, d2, k, j, torn)
<1>1. d2.tasks = d.tasks /\ d2.odds = d.odds /\ d2.trust = d.trust /\ d2.reqhash = d.reqhash
  BY DEF SameTables, SameLists
<1>2. \A w : SettledInputsFor(d2, w) = SettledInputsFor(d, w)
  BY <1>1 DEF SettledInputsFor, SettledForWorker
<1>3. RowsOk(c, d2, k, torn)
  BY <1>1 DEF TablesOk, RowsOk
<1>4. TrustOk(c, d2, k, torn)
  BY <1>1, <1>2 DEF TablesOk, TrustOk
<1>5. HashesOk(c, d2, k) /\ DecidedOk(v, d2) /\ AnswersOk(v, d2, j)
  BY <1>1 DEF TablesOk, HashesOk, DecidedOk, AnswersOk
<1> QED
  BY <1>3, <1>4, <1>5 DEF TablesOk

LEMMA CursorSet ==
    ASSUME NEW d, DbShape(d), NEW e, e.at \in Nat, e.li \in Nat, NEW src \in {"core", "val"},
           NEW d2, d2 = SetCursor(d, e, src)
    PROVE  /\ DbShape(d2) /\ SameTables(d2, d) /\ d2.lastBlock = d.lastBlock
           /\ d2.cursor[src].bn = e.at /\ d2.cursor[src].li = e.li
           /\ \A other \in {"core", "val"} : other # src => d2.cursor[other] = d.cursor[other]
<1>1. d = [tasks |-> d.tasks, bets |-> d.bets, odds |-> d.odds, trust |-> d.trust,
           reqhash |-> d.reqhash, cursor |-> d.cursor, lastBlock |-> d.lastBlock,
           deployment |-> d.deployment]
  BY DEF DbShape
<1> DEFINE cursor == [d.cursor EXCEPT ![src] = [bn |-> e.at, li |-> e.li]]
<1>2. d2 = [tasks |-> d.tasks, bets |-> d.bets, odds |-> d.odds, trust |-> d.trust,
            reqhash |-> d.reqhash, cursor |-> cursor, lastBlock |-> d.lastBlock,
            deployment |-> d.deployment]
  BY <1>1 DEF SetCursor
<1>3. d.cursor \in [core : Cursor, val : Cursor] /\ [bn |-> e.at, li |-> e.li] \in Cursor
  BY DEF DbShape, Cursor
<1>4. /\ cursor \in [core : Cursor, val : Cursor] /\ cursor[src].bn = e.at /\ cursor[src].li = e.li
      /\ \A other \in {"core", "val"} : other # src => cursor[other] = d.cursor[other]
  BY <1>3
<1> HIDE DEF cursor
<1> QED
  BY <1>2, <1>4 DEF DbShape, SameTables, SameLists

LEMMA BlockNoted ==
    ASSUME NEW d, DbShape(d), NEW n \in Nat, NEW d2, d2 = [d EXCEPT !.lastBlock = n]
    PROVE  DbShape(d2) /\ SameTables(d2, d) /\ d2.lastBlock = n /\ d2.cursor = d.cursor
<1>1. d = [tasks |-> d.tasks, bets |-> d.bets, odds |-> d.odds, trust |-> d.trust,
           reqhash |-> d.reqhash, cursor |-> d.cursor, lastBlock |-> d.lastBlock,
           deployment |-> d.deployment]
  BY DEF DbShape
<1>2. d2 = [tasks |-> d.tasks, bets |-> d.bets, odds |-> d.odds, trust |-> d.trust,
            reqhash |-> d.reqhash, cursor |-> d.cursor, lastBlock |-> n,
            deployment |-> d.deployment]
  BY <1>1
<1> QED
  BY <1>2 DEF DbShape, SameTables, SameLists

(* The bets' rows: each statement, each loss and each new event.           *)
LEMMA BetsFinite ==
    ASSUME NEW c \in Seq(CoreEvent), NEW bets, ToSet(bets) \subseteq BetsIn(c), NEW k
    PROVE  /\ BetsIn(c) \subseteq 1..Len(c)
           /\ IsFiniteSet(ToSet(bets)) /\ Cardinality(ToSet(bets)) \in Nat
           /\ IsFiniteSet((BetsIn(c) \cap (1..k)) \ ToSet(bets))
           /\ Cardinality((BetsIn(c) \cap (1..k)) \ ToSet(bets)) \in Nat
<1>1. BetsIn(c) \subseteq 1..Len(c) /\ IsFiniteSet(1..Len(c))
  BY FS_Interval DEF BetsIn
<1>2. IsFiniteSet(ToSet(bets)) /\ IsFiniteSet((BetsIn(c) \cap (1..k)) \ ToSet(bets))
  <2>1. IsFiniteSet(BetsIn(c))
    BY <1>1, FS_Subset
  <2>2. (BetsIn(c) \cap (1..k)) \ ToSet(bets) \subseteq BetsIn(c)
    OBVIOUS
  <2> QED
    BY <2>1, <2>2, FS_Subset
<1> QED
  BY <1>1, <1>2, FS_CardinalityType

LEMMA BetAdded ==
    ASSUME NEW bets \in Seq(Nat), NEW i \in Nat
    PROVE  /\ Append(bets, i) \in Seq(Nat) /\ Len(Append(bets, i)) = Len(bets) + 1 /\ Len(bets) \in Nat
           /\ ToSet(Append(bets, i)) = ToSet(bets) \cup {i}
<1> DEFINE b == Append(bets, i)
<1>1. /\ b \in Seq(Nat) /\ Len(b) = Len(bets) + 1 /\ Len(bets) \in Nat
      /\ DOMAIN bets = 1..Len(bets) /\ DOMAIN b = 1..(Len(bets) + 1)
      /\ \A n \in 1..Len(bets) : b[n] = bets[n]
      /\ b[Len(bets) + 1] = i
  BY AppendProperties
<1> HIDE DEF b
<1>2. \A x : x \in ToSet(b) <=> x \in ToSet(bets) \cup {i}
  BY <1>1 DEF ToSet
<1> QED
  BY <1>1, <1>2 DEF b

LEMMA OneMore ==
    ASSUME NEW S, IsFiniteSet(S), NEW x, NEW T, T = S \cup {x}
    PROVE  Cardinality(T) = IF x \in S THEN Cardinality(S) ELSE Cardinality(S) + 1
<1>1. CASE x \in S
  BY <1>1
<1>2. CASE x \notin S
  BY <1>2, FS_AddElement
<1> QED
  BY <1>1, <1>2

LEMMA BetsParts ==
    ASSUME NEW c \in Seq(CoreEvent), NEW bets \in Seq(Nat), NEW k \in 0..Len(c),
           NEW lost \in Nat, NEW doubled \in Nat, BetsOk(c, bets, k, lost, doubled)
    PROVE  /\ Cardinality((BetsIn(c) \cap (1..k)) \ ToSet(bets)) <= lost
           /\ ToSet(bets) \subseteq BetsIn(c) \cap (1..(k + 1)) /\ ToSet(bets) \subseteq BetsIn(c)
           /\ k + 1 \in ToSet(bets) => Len(bets) + 1 <= Cardinality(ToSet(bets)) + doubled
           /\ Len(bets) <= Cardinality(ToSet(bets)) + doubled
           /\ Cardinality(ToSet(bets)) \in Nat /\ IsFiniteSet(ToSet(bets)) /\ Len(bets) \in Nat
<1>1. ToSet(bets) \subseteq BetsIn(c) \cap (1..(k + 1)) /\ ToSet(bets) \subseteq BetsIn(c)
  BY DEF BetsOk
<1>2. Cardinality(ToSet(bets)) \in Nat /\ IsFiniteSet(ToSet(bets)) /\ Len(bets) \in Nat
  <2>1. Cardinality(ToSet(bets)) \in Nat /\ IsFiniteSet(ToSet(bets))
    BY <1>1, BetsFinite
  <2> QED
    BY <2>1
<1>3. Len(bets) + (IF k + 1 \in ToSet(bets) THEN 1 ELSE 0) <= Cardinality(ToSet(bets)) + doubled
  BY DEF BetsOk
<1>4. Cardinality((BetsIn(c) \cap (1..k)) \ ToSet(bets)) <= lost
  BY DEF BetsOk
<1> QED
  BY <1>1, <1>2, <1>3, <1>4

LEMMA BetsAfterStop ==
    ASSUME NEW c \in Seq(CoreEvent), NEW bets \in Seq(Nat), NEW k \in 0..Len(c),
           NEW lost \in Nat, NEW doubled \in Nat, BetsOk(c, bets, k, lost, doubled),
           NEW b, b = bets \/ (b = Append(bets, k + 1) /\ k + 1 \in BetsIn(c)),
           NEW more, more = doubled + 1
    PROVE  BetsOk(c, b, k, lost, more)
<1>1. /\ Cardinality((BetsIn(c) \cap (1..k)) \ ToSet(bets)) <= lost
      /\ ToSet(bets) \subseteq BetsIn(c) \cap (1..(k + 1)) /\ ToSet(bets) \subseteq BetsIn(c)
      /\ k + 1 \in ToSet(bets) => Len(bets) + 1 <= Cardinality(ToSet(bets)) + doubled
      /\ Len(bets) <= Cardinality(ToSet(bets)) + doubled
      /\ Cardinality(ToSet(bets)) \in Nat /\ IsFiniteSet(ToSet(bets)) /\ Len(bets) \in Nat
  BY BetsParts
<1>2. CASE b = bets
  <2>1. Len(bets) + (IF k + 1 \in ToSet(bets) THEN 1 ELSE 0) <= Cardinality(ToSet(bets)) + more
    BY <1>1
  <2> QED
    BY <1>1, <1>2, <2>1 DEF BetsOk
<1>3. CASE b = Append(bets, k + 1) /\ k + 1 \in BetsIn(c)
  <2>1. Len(b) = Len(bets) + 1 /\ ToSet(b) = ToSet(bets) \cup {k + 1}
    BY <1>3, BetAdded
  <2>2. Cardinality(ToSet(b)) = IF k + 1 \in ToSet(bets) THEN Cardinality(ToSet(bets))
                                ELSE Cardinality(ToSet(bets)) + 1
    BY <1>1, <2>1, OneMore
  <2>3. Len(b) + (IF k + 1 \in ToSet(b) THEN 1 ELSE 0) <= Cardinality(ToSet(b)) + more
    BY <1>1, <2>1, <2>2
  <2>4. ToSet(b) \subseteq BetsIn(c) \cap (1..(k + 1))
    BY <1>1, <1>3, <2>1
  <2>5. (BetsIn(c) \cap (1..k)) \ ToSet(b) = (BetsIn(c) \cap (1..k)) \ ToSet(bets)
    BY <2>1
  <2> QED
    BY <1>1, <2>3, <2>4, <2>5 DEF BetsOk
<1> QED
  BY <1>2, <1>3

LEMMA BetsAfterEvent ==
    ASSUME NEW c \in Seq(CoreEvent), NEW bets \in Seq(Nat), NEW k \in 0..Len(c), k < Len(c),
           NEW lost \in Nat, NEW doubled \in Nat, BetsOk(c, bets, k, lost, doubled),
           NEW b, \/ b = bets /\ k + 1 \notin BetsIn(c)
                  \/ b = Append(bets, k + 1) /\ k + 1 \in BetsIn(c),
           NEW l, l = k + 1
    PROVE  BetsOk(c, b, l, lost, doubled)
<1>1. /\ Cardinality((BetsIn(c) \cap (1..k)) \ ToSet(bets)) <= lost
      /\ ToSet(bets) \subseteq BetsIn(c) \cap (1..(k + 1)) /\ ToSet(bets) \subseteq BetsIn(c)
      /\ k + 1 \in ToSet(bets) => Len(bets) + 1 <= Cardinality(ToSet(bets)) + doubled
      /\ Len(bets) <= Cardinality(ToSet(bets)) + doubled
      /\ Cardinality(ToSet(bets)) \in Nat /\ IsFiniteSet(ToSet(bets)) /\ Len(bets) \in Nat
  BY BetsParts
<1>2. CASE b = bets /\ k + 1 \notin BetsIn(c)
  <2>1. (BetsIn(c) \cap (1..l)) \ ToSet(bets) = (BetsIn(c) \cap (1..k)) \ ToSet(bets)
    BY <1>2
  <2>2. ToSet(bets) \subseteq BetsIn(c) \cap (1..(l + 1)) /\ l + 1 \notin ToSet(bets)
    BY <1>1
  <2> QED
    BY <1>1, <1>2, <2>1, <2>2 DEF BetsOk
<1>3. CASE b = Append(bets, k + 1) /\ k + 1 \in BetsIn(c)
  <2>1. Len(b) = Len(bets) + 1 /\ ToSet(b) = ToSet(bets) \cup {k + 1}
    BY <1>3, BetAdded
  <2>2. Cardinality(ToSet(b)) = IF k + 1 \in ToSet(bets) THEN Cardinality(ToSet(bets))
                                ELSE Cardinality(ToSet(bets)) + 1
    BY <1>1, <2>1, OneMore
  <2>3. l + 1 \notin ToSet(b)
    BY <1>1, <2>1
  <2>4. Len(b) + (IF l + 1 \in ToSet(b) THEN 1 ELSE 0) <= Cardinality(ToSet(b)) + doubled
    BY <1>1, <2>1, <2>2, <2>3
  <2>5. ToSet(b) \subseteq BetsIn(c) \cap (1..(l + 1))
    BY <1>1, <1>3, <2>1
  <2>6. (BetsIn(c) \cap (1..l)) \ ToSet(b) = (BetsIn(c) \cap (1..k)) \ ToSet(bets)
    <3>1. \A x : x \in (BetsIn(c) \cap (1..l)) \ ToSet(b) <=> x \in (BetsIn(c) \cap (1..k)) \ ToSet(bets)
      BY <2>1
    <3> QED
      BY <3>1
  <2> QED
    BY <1>1, <2>4, <2>5, <2>6 DEF BetsOk
<1> QED
  BY <1>2, <1>3

LEMMA BetsAfterFault ==
    ASSUME NEW c \in Seq(CoreEvent), NEW bets \in Seq(Nat), NEW k \in 0..Len(c), k < Len(c),
           NEW lost \in Nat, NEW doubled \in Nat, BetsOk(c, bets, k, lost, doubled),
           NEW l, l = k + 1, NEW more, more = lost + 1
    PROVE  BetsOk(c, bets, l, more, doubled)
<1>1. /\ Cardinality((BetsIn(c) \cap (1..k)) \ ToSet(bets)) <= lost
      /\ ToSet(bets) \subseteq BetsIn(c) \cap (1..(k + 1)) /\ ToSet(bets) \subseteq BetsIn(c)
      /\ Len(bets) <= Cardinality(ToSet(bets)) + doubled
  BY BetsParts
<1> DEFINE S == (BetsIn(c) \cap (1..k)) \ ToSet(bets)
           T == (BetsIn(c) \cap (1..l)) \ ToSet(bets)
           U == S \cup {l}
<1>2. IsFiniteSet(S) /\ Cardinality(S) \in Nat /\ IsFiniteSet(T) /\ Cardinality(T) \in Nat
  BY <1>1, BetsFinite
<1>3. T \subseteq U
  OBVIOUS
<1> HIDE DEF S, T
<1>4. Cardinality(T) <= Cardinality(S) + 1
  <2>1. Cardinality(U) = (IF l \in S THEN Cardinality(S) ELSE Cardinality(S) + 1) /\ IsFiniteSet(U)
    BY <1>2, OneMore, FS_AddElement
  <2> HIDE DEF U
  <2>2. Cardinality(T) <= Cardinality(U) /\ Cardinality(U) \in Nat
    BY <1>3, <2>1, FS_Subset, FS_CardinalityType
  <2> QED
    BY <1>2, <2>1, <2>2
<1>5. Cardinality(T) <= more
  BY <1>1, <1>2, <1>4 DEF S
<1>6. ToSet(bets) \subseteq BetsIn(c) \cap (1..(l + 1)) /\ l + 1 \notin ToSet(bets)
  BY <1>1
<1>7. Len(bets) + (IF l + 1 \in ToSet(bets) THEN 1 ELSE 0) <= Cardinality(ToSet(bets)) + doubled
  BY <1>1, <1>6
<1> QED
  BY <1>5, <1>6, <1>7 DEF BetsOk, T

LEMMA BetsLater ==
    ASSUME NEW c \in Seq(CoreEvent), NEW bets \in Seq(Nat), NEW k \in 0..Len(c),
           NEW lost \in Nat, NEW doubled \in Nat, BetsOk(c, bets, k, lost, doubled)
    PROVE  /\ \A more : more = doubled + 1 => BetsOk(c, bets, k, lost, more)
           /\ \A r \in Seq(CoreEvent) : \A h : Longer(r, c, h) => BetsOk(r, bets, k, lost, doubled)
<1>1. \A more : more = doubled + 1 => BetsOk(c, bets, k, lost, more)
  BY BetsAfterStop
<1>2. ASSUME NEW r \in Seq(CoreEvent), NEW h, Longer(r, c, h)
      PROVE  BetsOk(r, bets, k, lost, doubled)
  <2>1. BetsIn(c) \subseteq BetsIn(r) /\ BetsIn(r) \cap (1..k) = BetsIn(c) \cap (1..k)
    BY <1>2 DEF Longer, BetsIn
  <2> QED
    BY <2>1 DEF BetsOk
<1> QED
  BY <1>1, <1>2

(* An answer is put in its task's row.                                     *)
LEMMA SameScores ==
    ASSUME NEW f, NEW g, DOMAIN g = DOMAIN f,
           \A r \in DOMAIN f : g[r].outcome = f[r].outcome /\ g[r].p = f[r].p /\ g[r].stake = f[r].stake
    PROVE  TrustCore(g) = TrustCore(f)
<1> DEFINE failed(rows) == {r \in DOMAIN rows : rows[r].outcome = "No"}
           p(rows, r) == IF rows[r].p = NULL THEN 10000 ELSE rows[r].p
           miss(rows, r) == IF r \in failed(rows) THEN p(rows, r) ELSE 10000 - p(rows, r)
<1>1. failed(g) = failed(f)
  OBVIOUS
<1>2. \A r \in DOMAIN f : p(g, r) = p(f, r)
  OBVIOUS
<1> HIDE DEF p
<1>3. \A r \in DOMAIN f : miss(g, r) = miss(f, r)
  BY <1>1, <1>2
<1> HIDE DEF miss
<1>4. [r \in DOMAIN g |-> miss(g, r) * miss(g, r)] = [r \in DOMAIN f |-> miss(f, r) * miss(f, r)]
  BY <1>3
<1>5. [r \in DOMAIN g |-> g[r].stake] = [r \in DOMAIN f |-> f[r].stake]
  OBVIOUS
<1>6. [r \in failed(g) |-> g[r].stake] = [r \in failed(f) |-> f[r].stake]
  BY <1>1
<1> HIDE DEF failed
<1>7. \A rows : TrustCore(rows) =
          [n |-> Cardinality(DOMAIN rows), wins |-> Cardinality(DOMAIN rows \ failed(rows)),
           brier |-> SumFunction([r \in DOMAIN rows |-> miss(rows, r) * miss(rows, r)]),
           staked |-> SumFunction([r \in DOMAIN rows |-> rows[r].stake]),
           forfeited |-> SumFunction([r \in failed(rows) |-> rows[r].stake])]
  BY DEF TrustCore, failed, miss, p
<1> QED
  BY <1>1, <1>4, <1>5, <1>6, <1>7

\* Nothing of the row but the score may differ.
ButScore(r2, r) ==
    /\ r2 = NoRow <=> r = NoRow
    /\ r2.state = r.state /\ r2.p = r.p /\ r2.outcome = r.outcome /\ r2.rule = r.rule
    /\ KeepsPlace(r2, r) /\ KeepsPools(r2, r)

LEMMA ScoreSet ==
    ASSUME NEW d, DbShape(d), NEW a \in ValEvent, NEW d2, d2 = SetValidatorScore(d, a)
    PROVE  /\ RowOnly(d2, d, a.task) /\ ButScore(d2.tasks[a.task], d.tasks[a.task])
           /\ d.tasks[a.task] # NoRow =>
                 d2.tasks[a.task].score = IF a.task \in d.reqhash THEN a.score
                                          ELSE d.tasks[a.task].score
<1> DEFINE r == d.tasks[a.task]
           r2 == d2.tasks[a.task]
<1>1. RowOnly(d2, d, a.task) /\ (r = NoRow => r2 = NoRow)
  BY SetsScore
<1>2. r # NoRow => /\ r2 # NoRow /\ r2.state = r.state /\ r2.p = r.p
                   /\ KeepsPlace(r2, r) /\ KeepsPools(r2, r)
                   /\ r2.outcome = r.outcome /\ r2.rule = r.rule
                   /\ r2.score = IF a.task \in d.reqhash THEN a.score ELSE r.score
  BY SetsScore
<1> HIDE DEF r, r2
<1>3. ButScore(r2, r)
  <2>1. CASE r = NoRow
    BY <1>1, <2>1 DEF ButScore, KeepsPlace, KeepsPools
  <2>2. CASE r # NoRow
    BY <1>2, <2>2 DEF ButScore
  <2> QED
    BY <2>1, <2>2
<1> QED
  BY <1>1, <1>2, <1>3 DEF r, r2

LEMMA RowsScored ==
    ASSUME NEW c, NEW h, CoreShape(c, h), NEW k \in 0..Len(c), NEW d, NEW torn, RowsOk(c, d, k, torn),
           NEW t \in Tasks, NEW n \in Events(c, t), n <= k,
           NEW d2, d2.odds = d.odds, Touches(d2, d, t), ButScore(d2.tasks[t], d.tasks[t])
    PROVE  RowsOk(c, d2, k, torn)
<1> DEFINE s == SubSeq(c, 1, k)
           r == d.tasks[t]
           r2 == d2.tasks[t]
           e == c[k + 1]
<1>1. \A u \in Tasks : u # t => d2.tasks[u] = d.tasks[u]
  BY DEF Touches
<1>2. RowIs(r, d.odds[t], s, t) => RowIs(r2, d.odds[t], s, t)
  BY DEF RowIs, Traded, Placed, Pooled, ButScore, KeepsPlace, KeepsPools
<1>3. ASSUME k < Len(c), e.task = t, Partial(r, d.odds[t], s, e)
      PROVE  Partial(r2, d.odds[t], s, e)
  <2>1. e \in CoreEvent /\ Legal(s, e) /\ Told(s, t)
    BY <1>3, NextEvent, Prefix
  <2>2. n \in Events(s, t)
    BY Prefix
  <2>3. e.name # "TaskCreated"
    BY <1>3, <2>1, <2>2, PartialParts
  <2> HIDE DEF r, r2, s, e
  <2>4. ButScore(r2, r)
    BY DEF r, r2
  <2>5. e.name \in {"TaskAccepted", "BetPlaced", "ExecutionStarted",
                    "TaskCancelled", "DeliverySubmitted", "OutcomeResolved"}
    BY <2>1, <2>3, EventParts
  <2>6. CASE e.name = "TaskAccepted"
    BY <1>3, <2>4, <2>6 DEF Partial, ButScore
  <2>7. CASE e.name = "BetPlaced"
    BY <1>3, <2>4, <2>7 DEF Partial, ButScore, Placed, KeepsPlace
  <2>8. CASE e.name = "ExecutionStarted"
    BY <1>3, <2>4, <2>8 DEF Partial, ButScore, Traded, Placed, Pooled, KeepsPlace, KeepsPools
  <2>9. CASE e.name = "DeliverySubmitted"
    BY <1>3, <2>4, <2>9 DEF Partial, ButScore, Traded, Placed, Pooled, KeepsPlace, KeepsPools
  <2>10. CASE e.name = "OutcomeResolved"
    BY <1>3, <2>4, <2>10 DEF Partial, ButScore, Traded, Placed, Pooled, KeepsPlace, KeepsPools
  <2>11. CASE e.name = "TaskCancelled"
    BY <1>3, <2>4, <2>11 DEF Partial, ButScore
  <2> QED
    BY <2>5, <2>6, <2>7, <2>8, <2>9, <2>10, <2>11
<1> QED
  BY <1>1, <1>2, <1>3 DEF RowsOk

LEMMA TrustScored ==
    ASSUME NEW c, NEW k, NEW d, NEW torn, TrustOk(c, d, k, torn), NEW t,
           NEW d2, d2.trust = d.trust, Touches(d2, d, t), ButScore(d2.tasks[t], d.tasks[t]),
           k < Len(c) => c[k + 1].task \in Tasks
    PROVE  TrustOk(c, d2, k, torn)
<1>1. ASSUME NEW u \in Tasks
      PROVE  ButScore(d2.tasks[u], d.tasks[u])
  <2>1. CASE u = t
    BY <2>1
  <2>2. CASE u # t
    BY <2>2 DEF Touches, ButScore, KeepsPlace, KeepsPools
  <2> QED
    BY <2>1, <2>2
<1>2. ASSUME NEW w
      PROVE  TrustCore(SettledInputsFor(d2, w)) = TrustCore(SettledInputsFor(d, w))
  <2>1. SettledForWorker(d2, w) = SettledForWorker(d, w)
    BY <1>1 DEF SettledForWorker, ButScore, KeepsPlace
  <2>2. \A u \in SettledForWorker(d, w) :
            /\ d2.tasks[u].outcome = d.tasks[u].outcome /\ d2.tasks[u].p = d.tasks[u].p
            /\ d2.tasks[u].stake = d.tasks[u].stake
    BY <1>1 DEF SettledForWorker, ButScore, KeepsPlace
  <2> DEFINE f == SettledInputsFor(d, w)
             g == SettledInputsFor(d2, w)
  <2>3. DOMAIN g = DOMAIN f /\ \A u \in DOMAIN f : f[u] = d.tasks[u] /\ g[u] = d2.tasks[u]
    BY <2>1 DEF SettledInputsFor
  <2>4. DOMAIN f = SettledForWorker(d, w)
    BY DEF SettledInputsFor
  <2> HIDE DEF f, g
  <2> QED
    BY <2>2, <2>3, <2>4, SameScores DEF f, g
<1> QED
  BY <1>1, <1>2 DEF TrustOk, ButScore, KeepsPlace

LEMMA AnswersAre ==
    ASSUME NEW c, NEW v, NEW h, ValShape(c, v, h)
    PROVE  DOMAIN v = 1..Len(v) /\ \A m \in 1..Len(v) : v[m] \in ValEvent /\ v[m].task \in Tasks
<1>1. v \in Seq(ValEvent)
  BY DEF ValShape
<1>2. DOMAIN v = 1..Len(v) /\ \A m \in 1..Len(v) : v[m] \in ValEvent
  BY <1>1
<1> QED
  BY <1>2 DEF ValEvent

(* What the answer's task owes to the core's events behind the cursor: it  *)
(* was delivered, so that the answer's hash is known, or ended without.    *)
LEMMA AnswerShown ==
    ASSUME NEW c, NEW h, CoreShape(c, h), NEW k \in 0..Len(c),
           NEW d, NEW torn, RowsOk(c, d, k, torn), HashesOk(c, d, k),
           NEW t \in Tasks, NEW n \in Events(c, t), n <= k,
           c[n].name \in {"DeliverySubmitted", "OutcomeResolved"}
    PROVE  /\ d.tasks[t] # NoRow
           /\ t \notin d.reqhash => d.tasks[t].state = "Settled" /\ d.tasks[t].rule \notin {2, 3}
<1> DEFINE s == SubSeq(c, 1, k)
           r == d.tasks[t]
           e == c[k + 1]
<1>1. n \in Events(s, t) /\ s[n] = c[n] /\ Told(s, t) /\ n \in 1..k
  <2>1. n \in 1..k
    BY DEF Events, CoreShape
  <2>2. n \in Events(s, t) /\ s[n] = c[n] /\ Told(s, t)
    BY <2>1, Prefix
  <2> QED
    BY <2>1, <2>2
<1>2. ASSUME k < Len(c), e.task = t, Partial(r, d.odds[t], s, e)
      PROVE  r # NoRow /\ StateOn(s, t) # "Settled"
  <2>1. e \in CoreEvent /\ Legal(s, e)
    BY <1>2, NextEvent
  <2>2. e.name # "TaskCreated" /\ StateOn(s, t) # "Settled"
    BY <1>1, <1>2, <2>1, PartialParts
  <2>3. r # NoRow
    BY <1>1, <1>2, <2>1, <2>2, PartialParts
  <2> QED
    BY <2>2, <2>3
<1>3. \/ RowIs(r, d.odds[t], s, t)
      \/ k < Len(c) /\ e.task = t /\ Partial(r, d.odds[t], s, e)
  BY DEF RowsOk
<1>4. r # NoRow
  <2>1. RowIs(r, d.odds[t], s, t) => r # NoRow
    BY <1>1 DEF RowIs, Told
  <2> QED
    BY <1>2, <1>3, <2>1
<1>5. ASSUME t \notin d.reqhash PROVE r.state = "Settled" /\ r.rule \notin {2, 3}
  <2>1. \A i \in Events(s, t) : s[i].name # "DeliverySubmitted"
    <3> TAKE i \in Events(s, t)
    <3>1. i \in Events(c, t) /\ i \in 1..k /\ s[i] = c[i]
      <4>1. i \in Events(c, t) /\ i <= k
        BY Prefix
      <4>2. i \in 1..k
        BY <4>1 DEF Events, CoreShape
      <4> QED
        BY <4>1, <4>2, Prefix
    <3> QED
      BY <1>5, <3>1 DEF HashesOk, Events
  <2>2. StateOn(s, t) = "Settled"
    BY <1>1, <2>1 DEF Told
  <2>3. RowIs(r, d.odds[t], s, t)
    BY <1>2, <1>3, <2>2
  <2>4. Ending(s, t).rule \notin {2, 3}
    BY <1>1, <2>1, <2>2 DEF Told
  <2> QED
    BY <2>2, <2>3, <2>4 DEF RowIs
<1> QED
  BY <1>4, <1>5

LEMMA TablesScored ==
    ASSUME NEW c, NEW h, CoreShape(c, h), NEW k \in 0..Len(c), NEW v, ValShape(c, v, h),
           NEW j \in 0..Len(v), j < Len(v), NEW a, a = v[j + 1],
           NEW n \in Events(c, a.task), n <= k, c[n].name \in {"DeliverySubmitted", "OutcomeResolved"},
           NEW d, DbShape(d), NEW torn, TablesOk(c, v, d, k, j, torn),
           NEW d2, d2 = SetValidatorScore(d, a), NEW l, l = j + 1
    PROVE  /\ TablesOk(c, v, d2, k, l, torn) /\ RowOnly(d2, d, a.task)
<1> DEFINE t == a.task
           r == d.tasks[t]
           r2 == d2.tasks[t]
<1>1. /\ RowsOk(c, d, k, torn) /\ TrustOk(c, d, k, torn)
      /\ HashesOk(c, d, k) /\ DecidedOk(v, d) /\ AnswersOk(v, d, j)
  BY DEF TablesOk
<1>2. /\ DOMAIN v = 1..Len(v) /\ l \in DOMAIN v /\ a = v[l] /\ a \in ValEvent /\ t \in Tasks
      /\ \A m \in 1..j : m \in DOMAIN v /\ m # l /\ v[m].task \in Tasks
  <2>1. DOMAIN v = 1..Len(v) /\ \A m \in 1..Len(v) : v[m] \in ValEvent /\ v[m].task \in Tasks
    BY AnswersAre
  <2>2. l \in 1..Len(v)
    OBVIOUS
  <2>3. \A m \in 1..j : m \in 1..Len(v) /\ m # l
    OBVIOUS
  <2> QED
    BY <2>1, <2>2, <2>3
<1>3. RowOnly(d2, d, t) /\ ButScore(r2, r)
  BY <1>2, ScoreSet
<1>4. d2.odds = d.odds /\ d2.trust = d.trust /\ d2.reqhash = d.reqhash /\ Touches(d2, d, t)
  BY <1>3 DEF RowOnly, SameLists
<1>5. RowsOk(c, d2, k, torn)
  BY <1>1, <1>2, <1>3, <1>4, RowsScored
<1>6. TrustOk(c, d2, k, torn)
  <2>1. k < Len(c) => c[k + 1].task \in Tasks
    BY NextEvent
  <2> QED
    BY <1>1, <1>3, <1>4, <2>1, TrustScored
<1>7. HashesOk(c, d2, k)
  BY <1>1, <1>4 DEF HashesOk
<1>8. r # NoRow /\ (t \notin d.reqhash => r.state = "Settled" /\ r.rule \notin {2, 3})
  BY <1>1, <1>2, AnswerShown
<1>9. r2.score = IF t \in d.reqhash THEN a.score ELSE r.score
  BY <1>2, <1>8, ScoreSet
<1>10. \A u \in Tasks : u # t => d2.tasks[u] = d.tasks[u]
  BY <1>4 DEF Touches
<1>11. DecidedOk(v, d2)
  <2>1. r2.state = r.state /\ r2.rule = r.rule
    BY <1>3 DEF ButScore
  <2>2. r2.state = "Settled" /\ r2.rule \in {2, 3} => \E m \in DOMAIN v : v[m].task = t /\ r2.score = v[m].score
    BY <1>2, <1>8, <1>9, <2>1
  <2> QED
    BY <1>1, <1>10, <2>2 DEF DecidedOk
<1>12. AnswersOk(v, d2, l)
  <2>1. ASSUME NEW m \in 1..j PROVE Answered(d2.tasks[v[m].task], v[m])
    <3>1. v[m].task # t
      BY <1>2 DEF ValShape
    <3> QED
      BY <1>1, <1>2, <1>10, <3>1 DEF AnswersOk
  <2>2. Answered(r2, a)
    <3>1. (r2 = NoRow <=> r = NoRow) /\ r2.state = r.state /\ r2.rule = r.rule
      BY <1>3 DEF ButScore
    <3> QED
      BY <1>8, <1>9, <3>1 DEF Answered
  <2>3. \A m \in 1..l : m \in 1..j \/ m = l
    OBVIOUS
  <2> QED
    BY <1>2, <2>1, <2>2, <2>3 DEF AnswersOk
<1> QED
  BY <1>3, <1>5, <1>6, <1>7, <1>11, <1>12 DEF TablesOk

LEMMA TablesWeaker ==
    ASSUME NEW c, NEW v, NEW d, NEW k, NEW j \in Nat, NEW torn, TablesOk(c, v, d, k, j, torn)
    PROVE  /\ TablesOk(c, v, d, k, j, TRUE)
           /\ \A l \in Nat : l <= j => TablesOk(c, v, d, k, l, torn)
<1>1. /\ RowsOk(c, d, k, torn) /\ TrustOk(c, d, k, torn)
      /\ HashesOk(c, d, k) /\ DecidedOk(v, d) /\ AnswersOk(v, d, j)
  BY DEF TablesOk
<1>2. RowsOk(c, d, k, TRUE) /\ TrustOk(c, d, k, TRUE)
  BY <1>1 DEF RowsOk, TrustOk
<1>3. \A l \in Nat : l <= j => AnswersOk(v, d, l)
  <2>1. ASSUME NEW l \in Nat, l <= j, NEW m \in 1..l PROVE m \in 1..j
    BY <2>1
  <2> QED
    BY <1>1, <2>1 DEF AnswersOk
<1> QED
  BY <1>1, <1>2, <1>3 DEF TablesOk

(* The queue: what is appended to it and what is taken from it.            *)
LEMMA Joined ==
    ASSUME NEW q \in Seq(QueueItem), NEW z \in Seq(QueueItem), NEW r, r = q \o z
    PROVE  /\ r \in Seq(QueueItem) /\ DOMAIN q \subseteq DOMAIN r /\ \A n \in DOMAIN q : r[n] = q[n]
           /\ \A n \in DOMAIN z : Len(q) + n \in DOMAIN r /\ r[Len(q) + n] = z[n]
           /\ \A n \in DOMAIN r : \/ n \in DOMAIN q /\ r[n] = q[n]
                                  \/ n - Len(q) \in DOMAIN z /\ r[n] = z[n - Len(q)]
           /\ DOMAIN q = 1..Len(q) /\ DOMAIN z = 1..Len(z) /\ Len(q) \in Nat /\ Len(z) \in Nat
<1>1. /\ r \in Seq(QueueItem) /\ Len(r) = Len(q) + Len(z)
      /\ \A i \in 1 .. Len(q) + Len(z) : r[i] = IF i <= Len(q) THEN q[i] ELSE z[i - Len(q)]
  BY ConcatProperties
<1>2. /\ DOMAIN q = 1..Len(q) /\ DOMAIN z = 1..Len(z) /\ DOMAIN r = 1..(Len(q) + Len(z))
      /\ Len(q) \in Nat /\ Len(z) \in Nat
  BY <1>1
<1>3. \A n \in DOMAIN q : n \in DOMAIN r /\ r[n] = q[n]
  BY <1>1, <1>2
<1>4. \A n \in DOMAIN z : Len(q) + n \in DOMAIN r /\ r[Len(q) + n] = z[n]
  <2> TAKE n \in DOMAIN z
  <2>1. Len(q) + n \in 1..(Len(q) + Len(z)) /\ ~(Len(q) + n <= Len(q)) /\ (Len(q) + n) - Len(q) = n
    BY <1>2
  <2> QED
    BY <1>1, <1>2, <2>1
<1>5. \A n \in DOMAIN r : \/ n \in DOMAIN q /\ r[n] = q[n]
                          \/ n - Len(q) \in DOMAIN z /\ r[n] = z[n - Len(q)]
  <2> TAKE n \in DOMAIN r
  <2>1. CASE n <= Len(q)
    BY <1>1, <1>2, <2>1
  <2>2. CASE ~(n <= Len(q))
    <3>1. n - Len(q) \in DOMAIN z
      BY <1>2, <2>2
    <3> QED
      BY <1>1, <1>2, <2>2, <3>1
  <2> QED
    BY <2>1, <2>2
<1> QED
  BY <1>1, <1>2, <1>3, <1>4, <1>5

LEMMA OthersFit ==
    ASSUME NEW q \in Seq(QueueItem), NEW z \in Seq(QueueItem), NEW r, r = q \o z,
           NEW log, NEW src, NEW p, NEW k, Fits(q, log, src, p, k),
           \A n \in DOMAIN z : z[n].src # src
    PROVE  Fits(r, log, src, p, k)
<1>1. /\ DOMAIN q \subseteq DOMAIN r /\ \A n \in DOMAIN q : r[n] = q[n]
      /\ \A n \in DOMAIN r : \/ n \in DOMAIN q /\ r[n] = q[n]
                             \/ n - Len(q) \in DOMAIN z /\ r[n] = z[n - Len(q)]
  BY Joined
<1>2. \A n \in DOMAIN r : r[n].src = src => n \in DOMAIN q /\ r[n] = q[n]
  BY <1>1
<1>3. \A i \in DOMAIN log : log[i].at <= p => i <= k \/ \E n \in DOMAIN r : r[n] = Item(src, i)
  BY <1>1 DEF Fits
<1> QED
  BY <1>2, <1>3 DEF Fits

\* The items z are for the logs in the blocks after p, up to h.
Scanned(z, log, src, p, h) ==
    \E x, y \in 0..Len(log) :
        /\ \A i \in DOMAIN log : (log[i].at <= p <=> i <= x) /\ (log[i].at <= h <=> i <= y)
        /\ x <= y /\ DOMAIN z = 1..(y - x) /\ \A n \in DOMAIN z : z[n] = Item(src, x + n)

LEMMA OwnFit ==
    ASSUME NEW q \in Seq(QueueItem), NEW z \in Seq(QueueItem), NEW r, r = q \o z,
           NEW log, NEW src, NEW p, NEW h, NEW k, Fits(q, log, src, p, k),
           DOMAIN log = 1..Len(log), Len(log) \in Nat, Scanned(z, log, src, p, h)
    PROVE  Fits(r, log, src, h, k)
<1>0. PICK x \in 0..Len(log), y \in 0..Len(log) :
          /\ \A i \in DOMAIN log : (log[i].at <= p <=> i <= x) /\ (log[i].at <= h <=> i <= y)
          /\ x <= y /\ DOMAIN z = 1..(y - x) /\ \A n \in DOMAIN z : z[n] = Item(src, x + n)
  BY DEF Scanned
<1>1. /\ DOMAIN q \subseteq DOMAIN r /\ \A n \in DOMAIN q : r[n] = q[n]
      /\ \A n \in DOMAIN z : Len(q) + n \in DOMAIN r /\ r[Len(q) + n] = z[n]
      /\ \A n \in DOMAIN r : \/ n \in DOMAIN q /\ r[n] = q[n]
                             \/ n - Len(q) \in DOMAIN z /\ r[n] = z[n - Len(q)]
      /\ DOMAIN q = 1..Len(q) /\ Len(q) \in Nat
  BY Joined
<1>2. r \in Seq(QueueItem) /\ DOMAIN r = 1..Len(r) /\ Len(r) \in Nat
  BY Joined
<1>3. /\ \A n \in DOMAIN q : q[n].src = src => q[n].i \in DOMAIN log /\ log[q[n].i].at <= p
      /\ \A m, n \in DOMAIN q : m < n /\ q[m].src = src /\ q[n].src = src => q[m].i < q[n].i
      /\ \A i \in DOMAIN log : log[i].at <= p => i <= k \/ \E n \in DOMAIN q : q[n] = Item(src, i)
  BY DEF Fits
<1>4. \A n \in DOMAIN q : q[n].src = src => q[n].i \in 1..x
  BY <1>0, <1>3
<1>5. \A n \in DOMAIN r :
          \/ n \in 1..Len(q) /\ r[n] = q[n]
          \/ n - Len(q) \in 1..(y - x) /\ r[n].i = x + (n - Len(q))
  BY <1>0, <1>1 DEF Item
<1>6. ASSUME NEW n \in DOMAIN r, r[n].src = src
      PROVE  /\ r[n].i \in DOMAIN log /\ r[n].i <= y
             /\ n \in DOMAIN q => r[n].i <= x
  <2>1. CASE n \in 1..Len(q) /\ r[n] = q[n]
    BY <1>0, <1>4, <1>6, <1>1, <2>1
  <2>2. CASE n - Len(q) \in 1..(y - x) /\ r[n].i = x + (n - Len(q))
    BY <1>0, <1>1, <1>2, <2>2
  <2> QED
    BY <1>5, <2>1, <2>2
<1>7. ASSUME NEW m \in DOMAIN r, NEW n \in DOMAIN r, m < n, r[m].src = src, r[n].src = src
      PROVE  r[m].i < r[n].i
  <2>1. CASE n \in 1..Len(q) /\ r[n] = q[n]
    <3>1. m \in DOMAIN q /\ n \in DOMAIN q
      BY <1>1, <1>2, <1>7, <2>1
    <3> QED
      BY <1>1, <1>3, <1>7, <3>1
  <2>2. CASE n - Len(q) \in 1..(y - x) /\ r[n].i = x + (n - Len(q))
    <3>1. CASE m \in 1..Len(q) /\ r[m] = q[m]
      <4>1. r[m].i \in 1..x
        BY <1>0, <1>1, <1>4, <1>7, <3>1
      <4> QED
        BY <1>0, <1>2, <2>2, <4>1, <1>1
    <3>2. CASE m - Len(q) \in 1..(y - x) /\ r[m].i = x + (m - Len(q))
      BY <1>0, <1>1, <1>2, <1>7, <2>2, <3>2
    <3> QED
      BY <1>5, <3>1, <3>2
  <2> QED
    BY <1>5, <2>1, <2>2
<1>8. ASSUME NEW i \in DOMAIN log, log[i].at <= h
      PROVE  i <= k \/ \E n \in DOMAIN r : r[n] = Item(src, i)
  <2>1. CASE i <= x
    BY <1>0, <1>1, <1>3, <2>1
  <2>2. CASE ~(i <= x)
    <3>1. PICK n \in DOMAIN z : x + n = i
      <4>1. i - x \in DOMAIN z /\ x + (i - x) = i
        BY <1>0, <1>8, <2>2
      <4> QED
        BY <4>1
    <3>2. z[n] = Item(src, i)
      BY <1>0, <3>1
    <3>3. Len(q) + n \in DOMAIN r /\ r[Len(q) + n] = z[n]
      BY <1>1
    <3> QED
      BY <3>2, <3>3
  <2> QED
    BY <2>1, <2>2
<1>9. \A n \in DOMAIN r : r[n].src = src => r[n].i \in DOMAIN log /\ log[r[n].i].at <= h
  BY <1>0, <1>6
<1> QED
  BY <1>7, <1>8, <1>9 DEF Fits

LEMMA AfterCoreJoined ==
    ASSUME NEW q \in Seq(QueueItem), NEW z \in Seq(QueueItem), NEW r, r = q \o z,
           NEW c, NEW v, NEW k, AfterCore(q, c, v, k), NEW h \in Nat, Fits(q, c, "core", h, k),
           DOMAIN c = 1..Len(c), \A i \in DOMAIN c : c[i].at \in Nat,
           \A n \in DOMAIN z : z[n].src = "val" => v[z[n].i].at \in Nat /\ v[z[n].i].at <= h
    PROVE  AfterCore(r, c, v, k)
<1>1. /\ DOMAIN q \subseteq DOMAIN r /\ \A n \in DOMAIN q : r[n] = q[n]
      /\ \A n \in DOMAIN r : \/ n \in DOMAIN q /\ r[n] = q[n]
                             \/ n - Len(q) \in DOMAIN z /\ r[n] = z[n - Len(q)]
      /\ DOMAIN q = 1..Len(q) /\ DOMAIN z = 1..Len(z) /\ Len(q) \in Nat
  BY Joined
<1>2. r \in Seq(QueueItem) /\ DOMAIN r = 1..Len(r) /\ Len(r) \in Nat
  BY Joined
<1> SUFFICES ASSUME NEW n \in DOMAIN r, r[n].src = "val",
                    NEW i \in DOMAIN c, c[i].at <= v[r[n].i].at
             PROVE  i <= k \/ \E m \in DOMAIN r : m < n /\ r[m] = Item("core", i)
  BY DEF AfterCore
<1>3. CASE n \in DOMAIN q /\ r[n] = q[n]
  <2>1. i <= k \/ \E m \in DOMAIN q : m < n /\ q[m] = Item("core", i)
    BY <1>3 DEF AfterCore
  <2> QED
    BY <1>1, <2>1
<1>4. CASE n - Len(q) \in DOMAIN z /\ r[n] = z[n - Len(q)]
  <2>1. c[i].at <= h
    BY <1>4
  <2>2. i <= k \/ \E m \in DOMAIN q : q[m] = Item("core", i)
    BY <2>1 DEF Fits
  <2>3. \A m \in DOMAIN q : m < n
    BY <1>1, <1>2, <1>4
  <2> QED
    BY <1>1, <2>2, <2>3
<1> QED
  BY <1>1, <1>3, <1>4

(* What a scan of the blocks enqueues.                                     *)
LEMMA UpToIs ==
    ASSUME NEW R, NEW src, Log(src) \in Seq(R), Timed(Log(src)), NEW bn \in Int
    PROVE  /\ UpTo(src, bn) \in 0..Len(Log(src))
           /\ \A i \in DOMAIN Log(src) : Log(src)[i].at <= bn <=> i <= UpTo(src, bn)
<1> DEFINE log == Log(src)
           S == {j \in DOMAIN log : log[j].at <= bn}
<1>1. UpTo(src, bn) = Cardinality(S)
  BY DEF UpTo
<1>2. DOMAIN log = 1..Len(log) /\ Len(log) \in Nat /\ Sorted(log) /\ \A i \in DOMAIN log : log[i].at \in Nat
  BY DEF Timed
<1> HIDE DEF log
<1>3. S \in SUBSET (1..Len(log))
  BY <1>2
<1>4. \A j \in S : \A i \in 1..Len(log) : i < j => i \in S
  BY <1>2 DEF Sorted, Before
<1> DEFINE L == Len(log)
           u == Cardinality(S)
<1>5. \A i : i \in S <=> i \in DOMAIN log /\ log[i].at <= bn
  OBVIOUS
<1> HIDE DEF S, L
<1>6. u \in 0..L /\ S = 1..u
  <2>1. L \in Nat /\ S \in SUBSET (1..L) /\ \A j \in S : \A i \in 1..L : i < j => i \in S
    BY <1>2, <1>3, <1>4 DEF L
  <2> HIDE DEF u
  <2>2. Cardinality(S) \in 0..L /\ S = 1..Cardinality(S)
    BY <2>1, FirstOnes
  <2> QED
    BY <2>2 DEF u
<1> HIDE DEF u
<1>7. \A i \in DOMAIN log : log[i].at <= bn <=> i <= u
  BY <1>2, <1>5, <1>6 DEF L
<1> QED
  BY <1>1, <1>6, <1>7 DEF u, L, log

LEMMA LogsGot ==
    ASSUME NEW R, NEW src \in {"core", "val"}, NEW log, log = Log(src), log \in Seq(R), Timed(log),
           NEW p \in Int, NEW h \in Int, p <= h, NEW from, from - 1 = p,
           NEW z, z = GetLogs(src, from, h)
    PROVE  /\ z \in Seq(QueueItem) /\ Scanned(z, log, src, p, h)
           /\ \A n \in DOMAIN z : z[n].src = src /\ z[n].i \in DOMAIN log /\ log[z[n].i].at <= h
<1> DEFINE x == UpTo(src, p)
           y == UpTo(src, h)
<1>1. /\ x \in 0..Len(log) /\ \A i \in DOMAIN log : log[i].at <= p <=> i <= x
      /\ y \in 0..Len(log) /\ \A i \in DOMAIN log : log[i].at <= h <=> i <= y
  BY UpToIs
<1>2. /\ DOMAIN log = 1..Len(log) /\ Len(log) \in Nat
      /\ \A i \in DOMAIN log : log[i].at \in Nat
  BY DEF Timed
<1>3. z = [n \in 1..(y - x) |-> Item(src, x + n)]
  BY DEF GetLogs
<1> HIDE DEF x, y
<1>4. x <= y
  <2>1. CASE x = 0
    BY <1>1, <2>1
  <2>2. CASE x # 0
    <3>1. x \in DOMAIN log /\ log[x].at <= p
      BY <1>1, <1>2, <2>2
    <3>2. log[x].at <= h
      BY <1>2, <3>1
    <3> QED
      BY <1>1, <3>1, <3>2
  <2> QED
    BY <2>1, <2>2
<1>5. \A n \in 1..(y - x) : Item(src, x + n) \in QueueItem
  <2> TAKE n \in 1..(y - x)
  <2>1. x + n \in Nat
    BY <1>1, <1>4
  <2> QED
    BY <2>1 DEF Item, QueueItem
<1>6. z \in Seq(QueueItem) /\ DOMAIN z = 1..(y - x)
  <2>1. y - x \in Nat
    BY <1>1, <1>4
  <2> QED
    BY <1>3, <1>5, <2>1
<1>7. Scanned(z, log, src, p, h)
  <2>1. \A n \in DOMAIN z : z[n] = Item(src, x + n)
    BY <1>3
  <2> QED
    BY <1>1, <1>4, <1>6, <2>1 DEF Scanned
<1>8. ASSUME NEW n \in DOMAIN z
      PROVE  z[n].src = src /\ z[n].i \in DOMAIN log /\ log[z[n].i].at <= h
  <2>1. z[n].src = src /\ z[n].i = x + n
    BY <1>3 DEF Item
  <2>2. x + n \in DOMAIN log /\ x + n <= y
    BY <1>1, <1>2, <1>6
  <2> QED
    BY <1>1, <2>1, <2>2
<1> QED
  BY <1>6, <1>7, <1>8

LEMMA LogsFit ==
    ASSUME NEW R, NEW src \in {"core", "val"}, NEW log, log = Log(src), log \in Seq(R), Timed(log),
           NEW p \in Int, NEW h \in Int, p <= h, NEW from, from - 1 = p,
           NEW q \in Seq(QueueItem), NEW k, Fits(q, log, src, p, k), NEW z, z = GetLogs(src, from, h)
    PROVE  /\ z \in Seq(QueueItem) /\ Fits(q \o z, log, src, h, k)
           /\ \A n \in DOMAIN z : z[n].src = src /\ z[n].i \in DOMAIN log /\ log[z[n].i].at <= h
<1>1. /\ z \in Seq(QueueItem) /\ Scanned(z, log, src, p, h)
      /\ \A n \in DOMAIN z : z[n].src = src /\ z[n].i \in DOMAIN log /\ log[z[n].i].at <= h
  BY LogsGot
<1>2. DOMAIN log = 1..Len(log) /\ Len(log) \in Nat
  OBVIOUS
<1>3. Fits(q \o z, log, src, h, k)
  BY <1>1, <1>2, OwnFit
<1> QED
  BY <1>1, <1>3

\* The queue after a scan, one kind of logs after the other.
ScanAdded(q, from, to) ==
    ((q \o GetLogs("core", from, to)) \o GetLogs("val", from, to)) \o <<Item("head", to)>>

Chained(r, s, t) == r = s \o t

LEMMA Regrouped ==
    ASSUME NEW s \in Seq(QueueItem), NEW t \in Seq(QueueItem), NEW u \in Seq(QueueItem),
           NEW st, Chained(st, s, t), NEW tu, Chained(tu, t, u), NEW r
    PROVE  Chained(r, st, u) <=> Chained(r, s, tu)
<1>1. (s \o t) \o u = s \o (t \o u)
  BY ConcatAssociative
<1>2. st = s \o t /\ tu = t \o u
  BY DEF Chained
<1>3. st \o u = s \o tu
  BY <1>1, <1>2
<1> QED
  BY <1>3 DEF Chained

LEMMA ScanAdds ==
    ASSUME NEW q \in Seq(QueueItem), NEW from, NEW to \in Nat,
           GetLogs("core", from, to) \in Seq(QueueItem), GetLogs("val", from, to) \in Seq(QueueItem)
    PROVE  q \o Scan(from, to) = ScanAdded(q, from, to)
<1> DEFINE a == GetLogs("core", from, to)
           b == GetLogs("val", from, to)
           e == <<Item("head", to)>>
<1>1. Scan(from, to) = (a \o b) \o e
  BY DEF Scan
<1>2. ScanAdded(q, from, to) = ((q \o a) \o b) \o e
  BY DEF ScanAdded
<1>3. e \in Seq(QueueItem)
  BY DEF Item, QueueItem
<1> HIDE DEF a, b, e
<1>4. a \in Seq(QueueItem) /\ b \in Seq(QueueItem)
  BY DEF a, b
<1> DEFINE x == q \o a
           z == x \o b
           w == a \o b
           y == b \o e
           o == w \o e
           r == q \o o
<1>5. x \in Seq(QueueItem) /\ y \in Seq(QueueItem)
  BY <1>3, <1>4
<1>6. /\ Chained(x, q, a) /\ Chained(z, x, b) /\ Chained(w, a, b) /\ Chained(y, b, e)
      /\ Chained(o, w, e) /\ Chained(r, q, o)
  BY DEF Chained
<1> HIDE DEF x, y, z, w, o, r
<1>7. Chained(o, a, y)
  BY <1>3, <1>4, <1>6, Regrouped
<1>8. Chained(r, x, y)
  BY <1>4, <1>5, <1>6, <1>7, Regrouped
<1>9. Chained(r, z, e)
  BY <1>3, <1>4, <1>5, <1>6, <1>8, Regrouped
<1> QED
  BY <1>1, <1>2, <1>9 DEF Chained, x, z, w, o, r

LEMMA HeadsJoined ==
    ASSUME NEW q \in Seq(QueueItem), NEW z \in Seq(QueueItem), NEW r, r = q \o z, NEW h,
           \A n \in DOMAIN q : q[n].src = "head" => q[n].i <= h,
           \A n \in DOMAIN z : z[n].src = "head" => z[n].i <= h
    PROVE  \A n \in DOMAIN r : r[n].src = "head" => r[n].i <= h
<1>1. \A n \in DOMAIN r : \/ n \in DOMAIN q /\ r[n] = q[n]
                          \/ n - Len(q) \in DOMAIN z /\ r[n] = z[n - Len(q)]
  BY Joined
<1> QED
  BY <1>1

LEMMA Ended ==
    ASSUME NEW q \in Seq(QueueItem), NEW x \in QueueItem, NEW r, r = q \o <<x>>
    PROVE  r # <<>> /\ Last(r) = x
<1>1. Len(r) = Len(q) + 1 /\ Len(q) \in Nat /\ r[Len(q) + 1] = x
  OBVIOUS
<1>2. r # <<>>
  BY <1>1
<1> QED
  BY <1>1, <1>2 DEF Last

LEMMA Enqueued ==
    ASSUME NEW h \in Nat, CoreShape(core, h), ValShape(core, val, h),
           NEW p \in Int, p <= h, NEW from, from - 1 = p,
           NEW q, NEW k, NEW j, QueueOk(q, core, val, p, k, j), NEW r, r = q \o Scan(from, h)
    PROVE  QueueOk(r, core, val, h, k, j) /\ r # <<>> /\ Last(r) = Item("head", h)
<1> DEFINE a == GetLogs("core", from, h)
           b == GetLogs("val", from, h)
           e == <<Item("head", h)>>
           q1 == q \o a
           q2 == q1 \o b
           q3 == q2 \o e
<1>1. /\ core \in Seq(CoreEvent) /\ val \in Seq(ValEvent) /\ Timed(core) /\ Timed(val)
      /\ Log("core") = core /\ Log("val") = val
  BY LogsTimed DEF Log
<1>2. /\ q \in Seq(QueueItem) /\ Fits(q, core, "core", p, k) /\ Fits(q, val, "val", p, j)
      /\ AfterCore(q, core, val, k) /\ \A n \in DOMAIN q : q[n].src = "head" => q[n].i <= p
  BY DEF QueueOk
<1>3. /\ a \in Seq(QueueItem) /\ Fits(q1, core, "core", h, k)
      /\ \A n \in DOMAIN a : a[n].src = "core"
  <2> HIDE DEF a
  <2> QED
    BY <1>1, <1>2, LogsFit DEF a
<1> HIDE DEF a
<1>4. q1 \in Seq(QueueItem)
  BY <1>2, <1>3
<1>5. Fits(q1, val, "val", p, j)
  BY <1>2, <1>3, OthersFit
<1>6. \A i \in DOMAIN core : core[i].at \in Nat
  BY <1>1 DEF Timed
<1>7. AfterCore(q1, core, val, k)
  <2>1. /\ DOMAIN q \subseteq DOMAIN q1 /\ \A n \in DOMAIN q : q1[n] = q[n]
        /\ \A n \in DOMAIN q1 : \/ n \in DOMAIN q /\ q1[n] = q[n]
                                \/ n - Len(q) \in DOMAIN a /\ q1[n] = a[n - Len(q)]
    BY <1>2, <1>3, Joined
  <2> HIDE DEF q1
  <2>2. \A n \in DOMAIN q1 : q1[n].src = "val" => n \in DOMAIN q /\ q1[n] = q[n]
    BY <1>3, <2>1
  <2> QED
    BY <1>2, <2>1, <2>2 DEF AfterCore
<1> HIDE DEF q1
<1>8. /\ b \in Seq(QueueItem) /\ Fits(q2, val, "val", h, j)
      /\ \A n \in DOMAIN b : b[n].src = "val" /\ b[n].i \in DOMAIN val /\ val[b[n].i].at <= h
  <2> HIDE DEF b
  <2> QED
    BY <1>1, <1>4, <1>5, LogsFit DEF b
<1> HIDE DEF b
<1>9. q2 \in Seq(QueueItem)
  BY <1>4, <1>8
<1>10. Fits(q2, core, "core", h, k)
  BY <1>3, <1>4, <1>8, OthersFit
<1>11. AfterCore(q2, core, val, k)
  <2>1. \A n \in DOMAIN b : b[n].src = "val" => val[b[n].i].at \in Nat /\ val[b[n].i].at <= h
    BY <1>1, <1>8 DEF Timed
  <2>2. DOMAIN core = 1..Len(core)
    BY <1>1
  <2> QED
    BY <1>3, <1>4, <1>6, <1>7, <1>8, <2>1, <2>2, AfterCoreJoined
<1>12. r = q3
  <2>1. r = ScanAdded(q, from, h)
    BY <1>2, <1>3, <1>8, ScanAdds DEF a, b
  <2>2. q3 = ScanAdded(q, from, h)
    BY DEF ScanAdded, q1, a, b
  <2> QED
    BY <2>1, <2>2
<1>13. \A n \in DOMAIN q2 : q2[n].src = "head" => q2[n].i <= h
  <2>0. \A n \in DOMAIN q : q[n].src = "head" => q[n].i <= h
    <3> TAKE n \in DOMAIN q
    <3>1. q[n] \in QueueItem
      BY <1>2
    <3>2. q[n].i \in Nat
      BY <3>1 DEF QueueItem
    <3> QED
      BY <1>2, <3>2
  <2>1. \A n \in DOMAIN q1 : q1[n].src = "head" => q1[n].i <= h
    <3>1. \A n \in DOMAIN a : a[n].src = "head" => a[n].i <= h
      BY <1>3
    <3> QED
      BY <1>2, <1>3, <2>0, <3>1, HeadsJoined DEF q1
  <2>2. \A n \in DOMAIN b : b[n].src = "head" => b[n].i <= h
    BY <1>8
  <2> QED
    BY <1>4, <1>8, <2>1, <2>2, HeadsJoined
<1> HIDE DEF q2
<1> DEFINE it == Item("head", h)
<1>14. it \in QueueItem /\ it.src = "head" /\ it.i = h
  BY DEF Item, QueueItem
<1> HIDE DEF it
<1>15. e = <<it>>
  BY DEF it
<1> HIDE DEF e
<1>16. e \in Seq(QueueItem) /\ \A n \in DOMAIN e : e[n] = it
  BY <1>14, <1>15
<1>17. Fits(q3, core, "core", h, k) /\ Fits(q3, val, "val", h, j)
  <2>1. \A n \in DOMAIN e : e[n].src # "core" /\ e[n].src # "val"
    BY <1>14, <1>16
  <2>2. Fits(q3, core, "core", h, k)
    BY <1>9, <1>10, <1>16, <2>1, OthersFit
  <2>3. Fits(q3, val, "val", h, j)
    BY <1>8, <1>9, <1>16, <2>1, OthersFit
  <2> QED
    BY <2>2, <2>3
<1>18. AfterCore(q3, core, val, k)
  <2>1. \A n \in DOMAIN e : e[n].src = "val" => val[e[n].i].at \in Nat /\ val[e[n].i].at <= h
    BY <1>14, <1>16
  <2>2. DOMAIN core = 1..Len(core)
    BY <1>1
  <2> QED
    BY <1>6, <1>9, <1>10, <1>11, <1>16, <2>1, <2>2, AfterCoreJoined
<1>19. \A n \in DOMAIN q3 : q3[n].src = "head" => q3[n].i <= h
  <2>1. \A n \in DOMAIN e : e[n].src = "head" => e[n].i <= h
    BY <1>14, <1>16
  <2> QED
    BY <1>9, <1>13, <1>16, <2>1, HeadsJoined
<1>20. q3 # <<>> /\ Last(q3) = it
  BY <1>9, <1>14, <1>15, Ended
<1>21. q3 \in Seq(QueueItem)
  BY <1>9, <1>16
<1> HIDE DEF q3
<1> QED
  BY <1>12, <1>17, <1>18, <1>19, <1>20, <1>21 DEF QueueOk, it

LEMMA HeadAndTail ==
    ASSUME NEW q \in Seq(QueueItem), q # <<>>, NEW r, r = Tail(q)
    PROVE  /\ Head(q) \in QueueItem /\ Head(q) = q[1] /\ 1 \in DOMAIN q
           /\ r \in Seq(QueueItem) /\ \A n \in DOMAIN r : n + 1 \in DOMAIN q /\ r[n] = q[n + 1]
           /\ \A n \in DOMAIN q : n = 1 \/ (n - 1 \in DOMAIN r /\ q[n] = r[n - 1])
           /\ \A n \in DOMAIN q : n = 1 \/ 1 < n
           /\ r = <<>> => Last(q) = Head(q)
           /\ r # <<>> => Last(r) = Last(q)
<1>1. /\ Len(q) \in Nat \ {0} /\ DOMAIN q = 1..Len(q) /\ Head(q) = q[1]
      /\ r \in Seq(QueueItem) /\ Len(r) = Len(q) - 1 /\ DOMAIN r = 1..(Len(q) - 1)
      /\ \A i \in 1..(Len(q) - 1) : r[i] = q[i + 1]
  BY HeadTailProperties
<1>2. Head(q) \in QueueItem /\ 1 \in DOMAIN q
  BY <1>1
<1>3. \A n \in DOMAIN r : n + 1 \in DOMAIN q /\ r[n] = q[n + 1]
  BY <1>1
<1>4. \A n \in DOMAIN q : n = 1 \/ (n - 1 \in DOMAIN r /\ q[n] = r[n - 1])
  <2> TAKE n \in DOMAIN q
  <2>1. CASE n # 1
    <3>1. n - 1 \in 1..(Len(q) - 1) /\ (n - 1) + 1 = n
      BY <1>1, <2>1
    <3> QED
      BY <1>1, <3>1
  <2> QED
    BY <2>1
<1>5. \A n \in DOMAIN q : n = 1 \/ 1 < n
  BY <1>1
<1>6. r = <<>> => Last(q) = Head(q)
  <2> HAVE r = <<>>
  <2>1. Len(q) = 1
    BY <1>1
  <2> QED
    BY <1>1, <2>1 DEF Last
<1>7. r # <<>> => Last(r) = Last(q)
  <2> HAVE r # <<>>
  <2>1. Len(r) \in 1..(Len(q) - 1) /\ Len(r) + 1 = Len(q)
    BY <1>1
  <2> QED
    BY <1>1, <2>1 DEF Last
<1> QED
  BY <1>1, <1>2, <1>3, <1>4, <1>5, <1>6, <1>7

LEMMA FitsAfterHead ==
    ASSUME NEW q \in Seq(QueueItem), q # <<>>, NEW r, r = Tail(q),
           NEW log, NEW src, NEW p, NEW k \in Nat, NEW l \in Nat, Fits(q, log, src, p, k), k <= l,
           DOMAIN log = 1..Len(log), Len(log) \in Nat, Head(q).src = src => Head(q).i <= l
    PROVE  Fits(r, log, src, p, l)
<1>1. /\ Head(q) = q[1] /\ r \in Seq(QueueItem)
      /\ \A n \in DOMAIN r : n + 1 \in DOMAIN q /\ r[n] = q[n + 1]
      /\ \A n \in DOMAIN q : n = 1 \/ (n - 1 \in DOMAIN r /\ q[n] = r[n - 1])
  BY HeadAndTail
<1>2. \A n \in DOMAIN r : r[n].src = src => r[n].i \in DOMAIN log /\ log[r[n].i].at <= p
  BY <1>1 DEF Fits
<1>3. ASSUME NEW m \in DOMAIN r, NEW n \in DOMAIN r, m < n, r[m].src = src, r[n].src = src
      PROVE  r[m].i < r[n].i
  <2>1. m \in Nat /\ n \in Nat
    BY <1>1
  <2>2. m + 1 < n + 1
    BY <1>3, <2>1
  <2> QED
    BY <1>1, <1>3, <2>2 DEF Fits
<1>4. ASSUME NEW i \in DOMAIN log, log[i].at <= p
      PROVE  i <= l \/ \E n \in DOMAIN r : r[n] = Item(src, i)
  <2>1. CASE i <= k
    BY <2>1
  <2>2. CASE \E n \in DOMAIN q : q[n] = Item(src, i)
    <3>1. PICK n \in DOMAIN q : q[n] = Item(src, i)
      BY <2>2
    <3>2. CASE n = 1
      BY <1>1, <3>1, <3>2 DEF Item
    <3>3. CASE n - 1 \in DOMAIN r /\ q[n] = r[n - 1]
      BY <3>1, <3>3
    <3> QED
      BY <1>1, <3>2, <3>3
  <2> QED
    BY <1>4, <2>1, <2>2 DEF Fits
<1> QED
  BY <1>2, <1>3, <1>4 DEF Fits

LEMMA AfterCoreTail ==
    ASSUME NEW q \in Seq(QueueItem), q # <<>>, NEW r, r = Tail(q),
           NEW c, NEW v, NEW k \in Nat, NEW l \in Nat, AfterCore(q, c, v, k), k <= l,
           DOMAIN c = 1..Len(c), Len(c) \in Nat, Head(q).src = "core" => Head(q).i <= l
    PROVE  AfterCore(r, c, v, l)
<1>1. /\ Head(q) = q[1] /\ r \in Seq(QueueItem)
      /\ \A n \in DOMAIN r : n + 1 \in DOMAIN q /\ r[n] = q[n + 1]
      /\ \A n \in DOMAIN q : n = 1 \/ (n - 1 \in DOMAIN r /\ q[n] = r[n - 1])
  BY HeadAndTail
<1> SUFFICES ASSUME NEW n \in DOMAIN r, r[n].src = "val",
                    NEW i \in DOMAIN c, c[i].at <= v[r[n].i].at
             PROVE  i <= l \/ \E m \in DOMAIN r : m < n /\ r[m] = Item("core", i)
  BY DEF AfterCore
<1>2. n + 1 \in DOMAIN q /\ q[n + 1] = r[n]
  BY <1>1
<1>3. i <= k \/ \E m \in DOMAIN q : m < n + 1 /\ q[m] = Item("core", i)
  BY <1>2 DEF AfterCore
<1>4. ASSUME NEW m \in DOMAIN q, m < n + 1, q[m] = Item("core", i)
      PROVE  i <= l \/ \E x \in DOMAIN r : x < n /\ r[x] = Item("core", i)
  <2>1. CASE m = 1
    BY <1>1, <1>4, <2>1 DEF Item
  <2>2. CASE m - 1 \in DOMAIN r /\ q[m] = r[m - 1]
    <3>1. m - 1 < n
      <4>1. m \in Nat /\ n \in Nat
        BY <1>1
      <4> QED
        BY <1>4, <4>1
    <3> QED
      BY <1>4, <2>2, <3>1
  <2> QED
    BY <1>1, <2>1, <2>2
<1> QED
  BY <1>3, <1>4

(* The next log in the queue is the next one behind the cursor.            *)
LEMMA FirstIsNext ==
    ASSUME NEW q \in Seq(QueueItem), q # <<>>, NEW log, NEW src, NEW p \in Int, NEW k \in Nat,
           Fits(q, log, src, p, k), Timed(log), DOMAIN log = 1..Len(log), Len(log) \in Nat,
           Head(q).src = src, Head(q).i > k
    PROVE  Head(q).i = k + 1 /\ k < Len(log) /\ k + 1 \in DOMAIN log
<1> DEFINE i == Head(q).i
<1>1. Head(q) = q[1] /\ 1 \in DOMAIN q /\ \A n \in DOMAIN q : n = 1 \/ 1 < n
  BY HeadAndTail
<1>2. i \in DOMAIN log /\ log[i].at <= p
  BY <1>1 DEF Fits
<1> HIDE DEF i
<1>3. i \in Nat /\ i > k
  BY <1>2 DEF i
<1>4. CASE i = k + 1
  BY <1>2, <1>3, <1>4 DEF i
<1>5. CASE i > k + 1
  <2> DEFINE l == k + 1
  <2>1. l \in DOMAIN log /\ l < i /\ ~(l <= k) /\ l \in Nat
    BY <1>2, <1>3, <1>5
  <2> HIDE DEF l
  <2>2. log[l].at <= log[i].at /\ log[l].at \in Nat /\ log[i].at \in Nat
    BY <1>2, <2>1 DEF Timed, Sorted, Before
  <2>3. log[l].at <= p
    BY <1>2, <2>2
  <2>4. PICK n \in DOMAIN q : q[n] = Item(src, l)
    BY <2>1, <2>3 DEF Fits
  <2>5. q[n].src = src /\ q[n].i = l
    BY <2>4 DEF Item
  <2>6. n = 1 \/ q[1].i < q[n].i
    BY <1>1, <2>5 DEF Fits
  <2> QED
    BY <1>1, <1>3, <2>1, <2>5, <2>6 DEF i
<1> QED
  BY <1>3, <1>4, <1>5

LEMMA AnswerIsDue ==
    ASSUME NEW q \in Seq(QueueItem), q # <<>>, NEW c, NEW v, NEW k, AfterCore(q, c, v, k),
           DOMAIN c = 1..Len(c), Head(q).src = "val"
    PROVE  \A i \in DOMAIN c : c[i].at <= v[Head(q).i].at => i <= k
<1>1. Head(q) = q[1] /\ 1 \in DOMAIN q /\ \A n \in DOMAIN q : n = 1 \/ 1 < n
  BY HeadAndTail
<1>2. \A m \in DOMAIN q : ~(m < 1)
  OBVIOUS
<1> QED
  BY <1>1, <1>2 DEF AfterCore

LEMMA QueueAfterHead ==
    ASSUME NEW c, NEW h, CoreShape(c, h), NEW v, ValShape(c, v, h), NEW p, NEW k \in Nat, NEW j \in Nat,
           NEW q, q # <<>>, QueueOk(q, c, v, p, k, j), NEW l \in Nat, k <= l, NEW m \in Nat, j <= m,
           Head(q).src = "core" => Head(q).i <= l, Head(q).src = "val" => Head(q).i <= m
    PROVE  QueueOk(Tail(q), c, v, p, l, m)
<1>1. /\ q \in Seq(QueueItem) /\ Fits(q, c, "core", p, k) /\ Fits(q, v, "val", p, j)
      /\ AfterCore(q, c, v, k) /\ \A n \in DOMAIN q : q[n].src = "head" => q[n].i <= p
  BY DEF QueueOk
<1>2. c \in Seq(CoreEvent) /\ v \in Seq(ValEvent)
  BY LogsTimed
<1>3. /\ DOMAIN c = 1..Len(c) /\ Len(c) \in Nat /\ DOMAIN v = 1..Len(v) /\ Len(v) \in Nat
  BY <1>2
<1> DEFINE r == Tail(q)
<1>4. r \in Seq(QueueItem) /\ \A n \in DOMAIN r : n + 1 \in DOMAIN q /\ r[n] = q[n + 1]
  BY <1>1, HeadAndTail
<1>5. r = Tail(q)
  OBVIOUS
<1> HIDE DEF r
<1>6. Fits(r, c, "core", p, l)
  BY <1>1, <1>3, <1>5, FitsAfterHead
<1>7. Fits(r, v, "val", p, m)
  BY <1>1, <1>3, <1>5, FitsAfterHead
<1>8. AfterCore(r, c, v, l)
  BY <1>1, <1>3, <1>5, AfterCoreTail
<1>9. \A n \in DOMAIN r : r[n].src = "head" => r[n].i <= p
  BY <1>1, <1>4
<1> QED
  BY <1>4, <1>6, <1>7, <1>8, <1>9 DEF QueueOk, r

(* What each kind of step leaves of what the tables keep.                  *)
LEMMA AnsweredLater ==
    ASSUME NEW c, NEW v, NEW k, NEW l, NEW j, k \in Nat, l \in Nat, k <= l,
           c \in Seq(CoreEvent), AnsweredInOrder(c, v, k, j)
    PROVE  AnsweredInOrder(c, v, l, j)
<1>1. \A t : \A i \in Events(c, t) : i \in Nat
  BY DEF Events
<1> QED
  BY <1>1 DEF AnsweredInOrder

\* What may, and what must, become of the bets' rows in the handler of the event
\* after the first k.
MayAdd(b2, b, c, k) == b2 = b \/ (b2 = Append(b, k + 1) /\ k + 1 \in BetsIn(c))
MustAdd(b2, b, c, k) == IF k + 1 \in BetsIn(c) THEN b2 = Append(b, k + 1) ELSE b2 = b

LEMMA BetsOfEvent ==
    ASSUME NEW c, NEW h, CoreShape(c, h), NEW k \in 0..Len(c), k < Len(c),
           NEW d, NEW s, NEW e, e = c[k + 1], NEW d2, NEW i, i = k + 1
    PROVE  /\ Doing(d2, d, s, e, i) => MayAdd(d2.bets, d.bets, c, k)
           /\ Done(d2, d, s, e, i) => MustAdd(d2.bets, d.bets, c, k)
<1>1. k + 1 \in DOMAIN c
  BY NextEvent
<1>2. e.name = "BetPlaced" <=> k + 1 \in BetsIn(c)
  BY <1>1 DEF BetsIn
<1> QED
  BY <1>2 DEF Doing, Done, MayAdd, MustAdd

LEMMA KeptDoing ==
    ASSUME NEW c, NEW h, CoreShape(c, h), NEW k \in 0..Len(c), k < Len(c), NEW v, ValShape(c, v, h),
           NEW j \in 0..Len(v), NEW lost \in Nat, NEW doubled \in Nat,
           NEW d, DbShape(d), Kept(c, v, d, k, j, lost, doubled),
           NEW s, s = SubSeq(c, 1, k), NEW e, e = c[k + 1], NEW d2, NEW i, i = k + 1,
           Doing(d2, d, s, e, i), NEW more, more = doubled + 1
    PROVE  Kept(c, v, d2, k, j, lost, more)
<1>1. /\ AnsweredInOrder(c, v, k, j) /\ BetsOk(c, d.bets, k, lost, doubled)
      /\ lost = 0 => TablesOk(c, v, d, k, j, doubled > 0)
  BY DEF Kept
<1>2. MayAdd(d2.bets, d.bets, c, k)
  BY BetsOfEvent
<1>3. BetsOk(c, d2.bets, k, lost, more)
  <2>1. c \in Seq(CoreEvent) /\ d.bets \in Seq(Nat)
    BY DEF CoreShape, DbShape
  <2> QED
    BY <1>1, <1>2, <2>1, BetsAfterStop DEF MayAdd
<1>4. lost = 0 => TablesOk(c, v, d2, k, j, TRUE)
  BY <1>1, TablesDoing
<1>5. (more > 0) = TRUE
  OBVIOUS
<1> QED
  BY <1>1, <1>3, <1>4, <1>5 DEF Kept

LEMMA KeptDone ==
    ASSUME NEW c, NEW h, CoreShape(c, h), NEW k \in 0..Len(c), k < Len(c), NEW v, ValShape(c, v, h),
           NEW j \in 0..Len(v), NEW lost \in Nat, NEW doubled \in Nat,
           NEW d, DbShape(d), Kept(c, v, d, k, j, lost, doubled),
           NEW s, s = SubSeq(c, 1, k), NEW e, e = c[k + 1], NEW d2, NEW i, i = k + 1,
           Done(d2, d, s, e, i), NEW l, l = k + 1
    PROVE  Kept(c, v, d2, l, j, lost, doubled)
<1>1. /\ AnsweredInOrder(c, v, k, j) /\ BetsOk(c, d.bets, k, lost, doubled)
      /\ lost = 0 => TablesOk(c, v, d, k, j, doubled > 0)
  BY DEF Kept
<1>2. MustAdd(d2.bets, d.bets, c, k)
  BY BetsOfEvent
<1>3. c \in Seq(CoreEvent) /\ d.bets \in Seq(Nat)
  BY DEF CoreShape, DbShape
<1>5. BetsOk(c, d2.bets, l, lost, doubled)
  BY <1>1, <1>2, <1>3, BetsAfterEvent DEF MustAdd
<1>6. lost = 0 => TablesOk(c, v, d2, l, j, doubled > 0)
  BY <1>1, TablesDone
<1>7. AnsweredInOrder(c, v, l, j)
  <2>1. k \in Nat /\ l \in Nat /\ k <= l
    OBVIOUS
  <2> QED
    BY <1>1, <1>3, <2>1, AnsweredLater
<1> QED
  BY <1>5, <1>6, <1>7 DEF Kept

LEMMA KeptLater ==
    ASSUME NEW c, c \in Seq(CoreEvent), NEW k \in 0..Len(c), NEW v, NEW j \in Nat,
           NEW lost \in Nat, NEW doubled \in Nat, NEW d, DbShape(d), Kept(c, v, d, k, j, lost, doubled)
    PROVE  /\ \A more : more = doubled + 1 => Kept(c, v, d, k, j, lost, more)
           /\ \A d2 : SameTables(d2, d) => Kept(c, v, d2, k, j, lost, doubled)
<1>1. /\ AnsweredInOrder(c, v, k, j) /\ BetsOk(c, d.bets, k, lost, doubled)
      /\ lost = 0 => TablesOk(c, v, d, k, j, doubled > 0)
  BY DEF Kept
<1>2. ASSUME NEW more, more = doubled + 1 PROVE Kept(c, v, d, k, j, lost, more)
  <2>1. d.bets \in Seq(Nat)
    BY DEF DbShape
  <2>2. BetsOk(c, d.bets, k, lost, more)
    BY <1>1, <1>2, <2>1, BetsLater
  <2>3. lost = 0 => TablesOk(c, v, d, k, j, TRUE)
    BY <1>1, TablesWeaker
  <2>4. (more > 0) = TRUE
    BY <1>2
  <2> QED
    BY <1>1, <2>2, <2>3, <2>4 DEF Kept
<1>3. ASSUME NEW d2, SameTables(d2, d) PROVE Kept(c, v, d2, k, j, lost, doubled)
  <2>1. d2.bets = d.bets
    BY <1>3 DEF SameTables, SameLists
  <2>2. lost = 0 => TablesOk(c, v, d2, k, j, doubled > 0)
    BY <1>1, <1>3, SameTablesOk
  <2> QED
    BY <1>1, <2>1, <2>2 DEF Kept
<1> QED
  BY <1>2, <1>3

LEMMA KeptLost ==
    ASSUME NEW c, c \in Seq(CoreEvent), NEW k \in 0..Len(c), k < Len(c), NEW v, NEW j \in Nat,
           NEW lost \in Nat, NEW doubled \in Nat, NEW d, DbShape(d), Kept(c, v, d, k, j, lost, doubled),
           NEW l, l = k + 1, NEW more, more = lost + 1
    PROVE  Kept(c, v, d, l, j, more, doubled)
<1>1. AnsweredInOrder(c, v, k, j) /\ BetsOk(c, d.bets, k, lost, doubled)
  BY DEF Kept
<1>2. d.bets \in Seq(Nat)
  BY DEF DbShape
<1>3. BetsOk(c, d.bets, l, more, doubled)
  BY <1>1, <1>2, BetsAfterFault
<1>4. AnsweredInOrder(c, v, l, j)
  <2>1. k \in Nat /\ l \in Nat /\ k <= l
    OBVIOUS
  <2> QED
    BY <1>1, <2>1, AnsweredLater
<1>5. more # 0
  OBVIOUS
<1> QED
  BY <1>3, <1>4, <1>5 DEF Kept

\* The events of the log c that are as old as the answer a are among the first k.
Due(c, a, k) == \A i \in DOMAIN c : c[i].at <= a.at => i <= k

(* What an answer is about is applied before it.                           *)
LEMMA AboutApplied ==
    ASSUME NEW c, NEW h, CoreShape(c, h), NEW k \in 0..Len(c), NEW v, ValShape(c, v, h),
           NEW j \in 0..Len(v), j < Len(v), NEW a, a = v[j + 1], Due(c, a, k)
    PROVE  \E n \in Events(c, a.task) :
               n <= k /\ c[n].name \in {"DeliverySubmitted", "OutcomeResolved"}
<1>1. a \in ValEvent /\ j + 1 \in DOMAIN v
  BY AnswersAre
<1>2. PICK n \in Events(c, a.task) :
          c[n].name \in {"DeliverySubmitted", "OutcomeResolved"} /\ c[n].at < a.at
  BY <1>1 DEF ValShape
<1>3. n \in DOMAIN c /\ c[n].at \in Nat /\ a.at \in Nat
  BY <1>1, LogsTimed DEF Events, Timed, ValEvent
<1> QED
  BY <1>2, <1>3 DEF Due

LEMMA KeptScored ==
    ASSUME NEW c, NEW h, CoreShape(c, h), NEW k \in 0..Len(c), NEW v, ValShape(c, v, h),
           NEW j \in 0..Len(v), j < Len(v), NEW a, a = v[j + 1],
           Due(c, a, k),
           NEW lost \in Nat, NEW doubled \in Nat, NEW d, DbShape(d), Kept(c, v, d, k, j, lost, doubled),
           NEW d2, d2 = SetValidatorScore(d, a), NEW l, l = j + 1
    PROVE  /\ DbShape(d2) /\ RowOnly(d2, d, a.task) /\ a \in ValEvent
           /\ Kept(c, v, d2, k, l, lost, doubled) /\ Kept(c, v, d2, k, j, lost, doubled)
<1>1. /\ AnsweredInOrder(c, v, k, j) /\ BetsOk(c, d.bets, k, lost, doubled)
      /\ lost = 0 => TablesOk(c, v, d, k, j, doubled > 0)
  BY DEF Kept
<1>2. a \in ValEvent /\ l \in DOMAIN v /\ v[l] = a /\ l \in Nat /\ j \in Nat
  BY AnswersAre
<1>3. PICK n \in Events(c, a.task) :
          n <= k /\ c[n].name \in {"DeliverySubmitted", "OutcomeResolved"}
  BY AboutApplied
<1>4. n <= k
  BY <1>3
<1>5. RowOnly(d2, d, a.task) /\ DbShape(d2) /\ d2.bets = d.bets
  BY <1>2, ScoreSet DEF RowOnly, SameLists
<1>6. lost = 0 => TablesOk(c, v, d2, k, l, doubled > 0)
  BY <1>1, <1>3, <1>4, TablesScored
<1>7. lost = 0 => TablesOk(c, v, d2, k, j, doubled > 0)
  <2>1. j <= l
    OBVIOUS
  <2> QED
    BY <1>2, <1>6, <2>1, TablesWeaker
<1>8. AnsweredInOrder(c, v, k, l)
  <2>1. \A m \in 1..l : m \in 1..j \/ m = l
    OBVIOUS
  <2> QED
    BY <1>1, <1>2, <1>3, <1>4, <2>1 DEF AnsweredInOrder
<1> QED
  BY <1>1, <1>2, <1>5, <1>6, <1>7, <1>8 DEF Kept

(* The chain grows: nothing that was kept is touched.                      *)
LEMMA TablesGrown ==
    ASSUME NEW c, NEW h, CoreShape(c, h), NEW k \in 0..Len(c), NEW v, ValShape(c, v, h),
           NEW j \in 0..Len(v), NEW d, NEW torn, TablesOk(c, v, d, k, j, torn),
           NEW r, NEW g, CoreShape(r, g), Longer(r, c, h), NEW w, ValShape(r, w, g), Longer(w, v, h)
    PROVE  TablesOk(r, w, d, k, j, torn)
<1>1. /\ c \in Seq(CoreEvent) /\ r \in Seq(CoreEvent) /\ v \in Seq(ValEvent) /\ w \in Seq(ValEvent)
  BY DEF CoreShape, ValShape
<1>2. /\ SubSeq(r, 1, k) = SubSeq(c, 1, k) /\ \A i \in 1..Len(c) : r[i] = c[i]
      /\ \A m \in 1..Len(v) : w[m] = v[m] /\ m \in DOMAIN w
      /\ k < Len(c) => k < Len(r) /\ r[k + 1] = c[k + 1]
  BY <1>1 DEF Longer
<1>3. RowsOk(r, d, k, torn)
  BY <1>2 DEF TablesOk, RowsOk
<1>4. TrustOk(r, d, k, torn)
  BY <1>2 DEF TablesOk, TrustOk
<1>5. HashesOk(r, d, k)
  <2>1. \A i \in 1..k : r[i] = c[i]
    BY <1>1, <1>2
  <2> QED
    BY <2>1 DEF TablesOk, HashesOk
<1>6. DecidedOk(w, d)
  <2>1. DOMAIN v = 1..Len(v)
    BY <1>1
  <2> QED
    BY <1>2, <2>1 DEF TablesOk, DecidedOk
<1>7. AnswersOk(w, d, j)
  <2>1. \A m \in 1..j : w[m] = v[m]
    BY <1>1, <1>2
  <2> QED
    BY <2>1 DEF TablesOk, AnswersOk
<1> QED
  BY <1>3, <1>4, <1>5, <1>6, <1>7 DEF TablesOk

LEMMA KeptGrown ==
    ASSUME NEW c, NEW h, CoreShape(c, h), NEW k \in 0..Len(c), NEW v, ValShape(c, v, h),
           NEW j \in 0..Len(v), NEW lost \in Nat, NEW doubled \in Nat,
           NEW d, DbShape(d), Kept(c, v, d, k, j, lost, doubled),
           NEW r, NEW g, CoreShape(r, g), Longer(r, c, h), NEW w, ValShape(r, w, g), Longer(w, v, h)
    PROVE  Kept(r, w, d, k, j, lost, doubled)
<1>1. /\ AnsweredInOrder(c, v, k, j) /\ BetsOk(c, d.bets, k, lost, doubled)
      /\ lost = 0 => TablesOk(c, v, d, k, j, doubled > 0)
  BY DEF Kept
<1>2. c \in Seq(CoreEvent) /\ r \in Seq(CoreEvent) /\ d.bets \in Seq(Nat) /\ v \in Seq(ValEvent)
  BY DEF CoreShape, ValShape, DbShape
<1>3. BetsOk(r, d.bets, k, lost, doubled)
  BY <1>1, <1>2, BetsLater
<1>4. lost = 0 => TablesOk(r, w, d, k, j, doubled > 0)
  BY <1>1, TablesGrown
<1>5. AnsweredInOrder(r, w, k, j)
  <2>1. \A i \in 1..Len(c) : r[i] = c[i] /\ i \in DOMAIN r
    BY <1>2 DEF Longer
  <2>2. \A m \in 1..j : w[m] = v[m]
    BY <1>2 DEF Longer
  <2>3. \A t : \A i \in Events(c, t) : i \in Events(r, t) /\ r[i] = c[i]
    BY <1>2, <2>1 DEF Events
  <2> QED
    BY <1>1, <2>2, <2>3 DEF AnsweredInOrder
<1> QED
  BY <1>3, <1>4, <1>5 DEF Kept

LEMMA QueueGrown ==
    ASSUME NEW c, NEW h \in Nat, CoreShape(c, h), NEW v, ValShape(c, v, h), NEW p, p \in 0..h,
           NEW q, NEW k, NEW j, QueueOk(q, c, v, p, k, j),
           NEW r, NEW g, CoreShape(r, g), Longer(r, c, h), NEW w, ValShape(r, w, g), Longer(w, v, h)
    PROVE  QueueOk(q, r, w, p, k, j)
<1>1. /\ q \in Seq(QueueItem) /\ Fits(q, c, "core", p, k) /\ Fits(q, v, "val", p, j)
      /\ AfterCore(q, c, v, k) /\ \A n \in DOMAIN q : q[n].src = "head" => q[n].i <= p
  BY DEF QueueOk
<1>2. /\ c \in Seq(CoreEvent) /\ r \in Seq(CoreEvent) /\ v \in Seq(ValEvent) /\ w \in Seq(ValEvent)
      /\ Timed(r) /\ Timed(w) /\ Timed(c) /\ Timed(v)
  BY LogsTimed
<1>3. /\ \A i \in DOMAIN c : i \in DOMAIN r /\ r[i] = c[i]
      /\ \A i \in DOMAIN r : i \in DOMAIN c \/ r[i].at > h
      /\ \A i \in DOMAIN r : r[i].at \in Nat
  BY <1>2 DEF Longer, Timed
<1>4. /\ \A i \in DOMAIN v : i \in DOMAIN w /\ w[i] = v[i]
      /\ \A i \in DOMAIN w : i \in DOMAIN v \/ w[i].at > h
      /\ \A i \in DOMAIN w : w[i].at \in Nat
  BY <1>2 DEF Longer, Timed
<1>5. Fits(q, r, "core", p, k)
  <2>1. \A i \in DOMAIN r : r[i].at <= p => i \in DOMAIN c
    BY <1>3
  <2> QED
    BY <1>1, <1>3, <2>1 DEF Fits
<1>6. Fits(q, w, "val", p, j)
  <2>1. \A i \in DOMAIN w : w[i].at <= p => i \in DOMAIN v
    BY <1>4
  <2> QED
    BY <1>1, <1>4, <2>1 DEF Fits
<1>7. AfterCore(q, r, w, k)
  <2> SUFFICES ASSUME NEW n \in DOMAIN q, q[n].src = "val",
                      NEW i \in DOMAIN r, r[i].at <= w[q[n].i].at
               PROVE  i <= k \/ \E m \in DOMAIN q : m < n /\ q[m] = Item("core", i)
    BY DEF AfterCore
  <2>1. q[n].i \in DOMAIN v /\ v[q[n].i].at <= p
    BY <1>1 DEF Fits
  <2>2. w[q[n].i] = v[q[n].i] /\ v[q[n].i].at \in Nat
    BY <1>2, <1>4, <2>1 DEF Timed
  <2>3. i \in DOMAIN c /\ c[i].at <= v[q[n].i].at
    BY <1>3, <2>1, <2>2
  <2> QED
    BY <1>1, <2>3 DEF AfterCore
<1> QED
  BY <1>1, <1>5, <1>6, <1>7 DEF QueueOk

(* Where the cursors stand after a step.                                   *)
LEMMA KnownThen ==
    \A src : Known(src)' = Count(IF src = "core" THEN core' ELSE val', db'.cursor[src])
<1>1. \A src : Known(src)' = Cardinality({i \in DOMAIN (IF src = "core" THEN core' ELSE val') : ~IsNew(Item(src, i))'})
  BY DEF Known, Log
<1>2. \A src, i : IsNew(Item(src, i))' <=>
          LET e == (IF src = "core" THEN core' ELSE val')[i]
          IN  e.at > db'.cursor[src].bn \/ (e.at = db'.cursor[src].bn /\ e.li > db'.cursor[src].li)
  BY DEF IsNew, Item, Log
<1>3. \A src : {i \in DOMAIN (IF src = "core" THEN core' ELSE val') : ~IsNew(Item(src, i))'}
                  = Past(IF src = "core" THEN core' ELSE val', db'.cursor[src])
  BY <1>2 DEF Past
<1> QED
  BY <1>1, <1>3 DEF Count

LEMMA KnownKept ==
    ASSUME core' = core, val' = val, db'.cursor = db.cursor
    PROVE  Known("core")' = Known("core") /\ Known("val")' = Known("val")
<1>1. \A src : Known(src) = Count(Log(src), db.cursor[src])
  BY KnownCount
<1>2. Log("core") = core /\ Log("val") = val
  BY DEF Log
<1> QED
  BY <1>1, <1>2, KnownThen

LEMMA KnownMoves ==
    ASSUME CoreShape(core, head), ValShape(core, val, head), core' = core, val' = val,
           NEW src \in {"core", "val"}, NEW k \in 1..Len(Log(src)), NEW e, e = Log(src)[k],
           db'.cursor[src].bn = e.at, db'.cursor[src].li = e.li,
           \A other \in {"core", "val"} : other # src => db'.cursor[other] = db.cursor[other]
    PROVE  /\ Known(src)' = k
           /\ \A other \in {"core", "val"} : other # src => Known(other)' = Known(other)
<1>1. \A s : Known(s) = Count(Log(s), db.cursor[s])
  BY KnownCount
<1>2. Log("core") = core /\ Log("val") = val
  BY DEF Log
<1>3. \A s \in {"core", "val"} : Known(s)' = Count(Log(s), db'.cursor[s])
  BY <1>2, KnownThen
<1>4. core \in Seq(CoreEvent) /\ val \in Seq(ValEvent) /\ Timed(core) /\ Timed(val)
  BY LogsTimed
<1>5. Count(Log(src), db'.cursor[src]) = k
  <2> DEFINE cursor == db'.cursor[src]
             log == Log(src)
  <2>1. k \in 1..Len(log) /\ Timed(log) /\ cursor.bn = log[k].at /\ cursor.li = log[k].li
        /\ (log \in Seq(CoreEvent) \/ log \in Seq(ValEvent))
    BY <1>2, <1>4
  <2> HIDE DEF cursor, log
  <2>2. Count(log, cursor) = k
    BY <2>1, PastMoves
  <2> QED
    BY <2>2 DEF cursor, log
<1> QED
  BY <1>1, <1>3, <1>5

LEMMA KnownStays ==
    ASSUME head \in Nat, CoreShape(core, head), ValShape(core, val, head), DbShape(db),
           \A src \in {"core", "val"} : db.cursor[src].bn <= head,
           NEW g, CoreShape(core', g), ValShape(core', val', g),
           Longer(core', core, head), Longer(val', val, head), db' = db
    PROVE  Known("core")' = Known("core") /\ Known("val")' = Known("val")
<1>1. Known("core") = Count(core, db.cursor["core"]) /\ Known("val") = Count(val, db.cursor["val"])
  BY KnownCount DEF Log
<1>2. Known("core")' = Count(core', db.cursor["core"]) /\ Known("val")' = Count(val', db.cursor["val"])
  BY KnownThen
<1>3. /\ core \in Seq(CoreEvent) /\ val \in Seq(ValEvent) /\ Timed(core) /\ Timed(val)
      /\ core' \in Seq(CoreEvent) /\ val' \in Seq(ValEvent) /\ Timed(core') /\ Timed(val')
  BY LogsTimed
<1>4. /\ \A i \in DOMAIN core' : core'[i].at \in Nat
      /\ \A i \in DOMAIN val' : val'[i].at \in Nat
  BY <1>3 DEF Timed
<1>5. \A src \in {"core", "val"} : db.cursor[src].bn \in Nat /\ db.cursor[src].bn <= head
  BY DEF DbShape, Cursor
<1>6. Count(core', db.cursor["core"]) = Count(core, db.cursor["core"])
  BY <1>3, <1>4, <1>5, PastStays
<1>7. Count(val', db.cursor["val"]) = Count(val, db.cursor["val"])
  BY <1>3, <1>4, <1>5, PastStays
<1> QED
  BY <1>1, <1>2, <1>6, <1>7

(* The steps.  The invariant before one, and what is at the queue's head.  *)
LEMMA Now ==
    ASSUME IndexInv
    PROVE  /\ head \in Nat /\ CoreShape(core, head) /\ ValShape(core, val, head) /\ DbShape(db)
           /\ stops \in Nat /\ faults \in Nat /\ chains \in Nat
           /\ Known("core") \in 0..Len(core) /\ Known("val") \in 0..Len(val)
           /\ Known("core") \in Nat /\ Known("val") \in Nat /\ Len(core) \in Nat /\ Len(val) \in Nat
           /\ DOMAIN core = 1..Len(core) /\ DOMAIN val = 1..Len(val)
           /\ Log("core") = core /\ Log("val") = val
<1>1. head \in Nat /\ CoreShape(core, head) /\ ValShape(core, val, head) /\ DbShape(db)
  BY IndexAssumption DEF IndexInv
<1>2. stops \in Nat /\ faults \in Nat /\ chains \in Nat
  BY IndexAssumption DEF IndexInv
<1>3. Log("core") = core /\ Log("val") = val
  BY DEF Log
<1>4. /\ Known("core") \in 0..Len(core) /\ DOMAIN core = 1..Len(core) /\ Len(core) \in Nat
      /\ Known("val") \in 0..Len(val) /\ DOMAIN val = 1..Len(val) /\ Len(val) \in Nat
  BY <1>1, <1>3, KnownIs
<1>5. Known("core") \in Nat /\ Known("val") \in Nat
  BY <1>4
<1> QED
  BY <1>1, <1>2, <1>3, <1>4, <1>5

LEMMA NowServes ==
    ASSUME IndexInv, queue # <<>> \/ Running
    PROVE  Running /\ Serves /\ Follows
BY DEF IndexInv, Running

LEMMA NowKept ==
    ASSUME Serves
    PROVE  Kept(core, val, db, Known("core"), Known("val"), faults, stops)
BY DEF Serves

LEMMA HeadIs ==
    ASSUME IndexInv, NextIs({"core", "val"}), NEW src, src = Head(queue).src, NEW i, i = Head(queue).i
    PROVE  /\ src \in {"core", "val"} /\ Head(queue) = Item(src, i) /\ i \in DOMAIN Log(src)
           /\ Running /\ Serves /\ Follows /\ queue # <<>>
           /\ ~IsNew(Head(queue)) => i <= Known(src)
           /\ IsNew(Head(queue)) => i = Known(src) + 1 /\ Known(src) < Len(Log(src))
<1>1. queue # <<>> /\ src \in {"core", "val"}
  BY DEF NextIs
<1>2. Running /\ Serves /\ Follows
  BY <1>1, NowServes
<1>3. polled \in Int /\ QueueOk(queue, core, val, polled, Known("core"), Known("val"))
  BY <1>2 DEF Follows
<1>4. queue \in Seq(QueueItem) /\ Fits(queue, Log(src), src, polled, Known(src))
  BY <1>1, <1>3 DEF QueueOk, Log
<1>5. Head(queue) \in QueueItem /\ Head(queue) = queue[1] /\ 1 \in DOMAIN queue
  BY <1>1, <1>4, HeadAndTail
<1>6. Head(queue) = Item(src, i)
  BY <1>5 DEF QueueItem, Item
<1>7. i \in DOMAIN Log(src)
  BY <1>4, <1>5 DEF Fits
<1>8. head \in Nat /\ CoreShape(core, head) /\ ValShape(core, val, head) /\ DbShape(db)
  BY Now
<1>9. /\ Known(src) \in 0..Len(Log(src)) /\ DOMAIN Log(src) = 1..Len(Log(src)) /\ Len(Log(src)) \in Nat
      /\ IsNew(Head(queue)) <=> i > Known(src)
  BY <1>1, <1>6, <1>7, <1>8, KnownIs
<1>10. IsNew(Head(queue)) => i = Known(src) + 1 /\ Known(src) < Len(Log(src))
  <2> HAVE IsNew(Head(queue))
  <2>1. Timed(Log(src))
    BY <1>1, <1>8, LogsTimed DEF Log
  <2>2. Known(src) \in Nat /\ Head(queue).i > Known(src)
    BY <1>9
  <2>3. Head(queue).i = Known(src) + 1 /\ Known(src) < Len(Log(src))
    BY <1>1, <1>3, <1>4, <1>9, <2>1, <2>2, FirstIsNext
  <2> QED
    BY <2>3
<1>11. ~IsNew(Head(queue)) => i <= Known(src)
  BY <1>7, <1>9
<1> QED
  BY <1>1, <1>2, <1>6, <1>7, <1>10, <1>11

LEMMA Dequeued ==
    ASSUME IndexInv, NextIs({"core", "val"}), queue' = Tail(queue),
           UNCHANGED chainVars, proc' = proc, polled' = polled,
           NEW l \in Nat, l = Known("core")', NEW m \in Nat, m = Known("val")',
           Known("core") <= l, Known("val") <= m,
           Head(queue).src = "core" => Head(queue).i <= l,
           Head(queue).src = "val" => Head(queue).i <= m
    PROVE  Running /\ Running' /\ Follows'
<1>1. queue # <<>> /\ Head(queue).src \in {"core", "val"}
  BY DEF NextIs
<1>2. Running /\ Follows
  BY <1>1, NowServes
<1>3. /\ polled \in 0..head /\ QueueOk(queue, core, val, polled, Known("core"), Known("val"))
      /\ Last(queue) = Item("head", polled)
  BY <1>1, <1>2 DEF Follows
<1>4. /\ head \in Nat /\ CoreShape(core, head) /\ ValShape(core, val, head)
      /\ Known("core") \in Nat /\ Known("val") \in Nat
  BY Now
<1>5. QueueOk(Tail(queue), core, val, polled, l, m)
  BY <1>1, <1>3, <1>4, QueueAfterHead
<1>6. queue \in Seq(QueueItem)
  BY <1>3 DEF QueueOk
<1>7. /\ Tail(queue) = <<>> => Last(queue) = Head(queue)
      /\ Tail(queue) # <<>> => Last(Tail(queue)) = Last(queue)
  BY <1>1, <1>6, HeadAndTail
<1>8. Last(queue) # Head(queue)
  BY <1>1, <1>3 DEF Item
<1>9. core' = core /\ val' = val /\ head' = head
  BY DEF chainVars
<1>10. Follows'
  BY <1>3, <1>5, <1>7, <1>8, <1>9 DEF Follows
<1> QED
  BY <1>2, <1>10 DEF Running

LEMMA StepKeeps ==
    ASSUME IndexInv, Serves, UNCHANGED chainVars, DbShape(db'), db'.deployment = db.deployment,
           db'.lastBlock <= head, \A src \in {"core", "val"} : db'.cursor[src].bn <= head,
           faults' \in Nat, stops' \in Nat,
           Kept(core, val, db', Known("core")', Known("val")', faults', stops'),
           proc' \in {"down", "catchup", "live"}, IF Running' THEN Follows' ELSE queue' = <<>>
    PROVE  IndexInv'
<1>1. core' = core /\ val' = val /\ head' = head /\ chains' = chains
  BY DEF chainVars
<1>2. Serves'
  BY <1>1 DEF Serves
<1>3. /\ head \in 0..MaxBlock /\ chains \in 0..MaxChains
      /\ CoreShape(core, head) /\ ValShape(core, val, head) /\ db.deployment \in 0..chains
  BY DEF IndexInv
<1>4. \A src \in {"core", "val"} : db'.cursor[src].bn <= MaxBlock
  <2>1. \A src \in {"core", "val"} : db'.cursor[src].bn \in Nat
    BY DEF DbShape, Cursor
  <2> QED
    BY <1>3, <2>1, IndexAssumption
<1> QED
  BY <1>1, <1>2, <1>3, <1>4 DEF IndexInv

\* The cursor of src has moved to e.
Moved(d2, d, e, src) ==
    /\ DbShape(d2) /\ SameTables(d2, d) /\ d2.cursor[src].bn = e.at /\ d2.cursor[src].li = e.li
    /\ \A other \in {"core", "val"} : other # src => d2.cursor[other] = d.cursor[other]
    /\ d2.lastBlock \in {d.lastBlock, e.at}

LEMMA CursorMoves ==
    ASSUME NEW d, DbShape(d), NEW e, e.at \in Nat, e.li \in Nat, NEW src \in {"core", "val"}
    PROVE  /\ Moved(SetCursor(d, e, src), d, e, src)
           /\ Moved(SetLastBlock(SetCursor(d, e, src), e), d, e, src)
<1> DEFINE d1 == SetCursor(d, e, src)
           d2 == SetLastBlock(d1, e)
<1>1. /\ DbShape(d1) /\ SameTables(d1, d) /\ d1.lastBlock = d.lastBlock
      /\ d1.cursor[src].bn = e.at /\ d1.cursor[src].li = e.li
      /\ \A other \in {"core", "val"} : other # src => d1.cursor[other] = d.cursor[other]
  BY CursorSet
<1> HIDE DEF d1
<1>2. DbShape(d2) /\ SameTables(d2, d1) /\ d2.lastBlock = e.at /\ d2.cursor = d1.cursor
  BY <1>1, BlockNoted DEF SetLastBlock
<1> HIDE DEF d2
<1>3. SameTables(d2, d)
  BY <1>1, <1>2 DEF SameTables, SameLists
<1>4. Moved(d1, d, e, src)
  BY <1>1 DEF Moved
<1>5. Moved(d2, d, e, src)
  BY <1>1, <1>2, <1>3 DEF Moved
<1> QED
  BY <1>4, <1>5 DEF d1, d2

(* The cursor of src moves past its next log, and the tables are those of  *)
(* x, which kept what the logs behind it say.                              *)
LEMMA CursorKeeps ==
    ASSUME IndexInv, Serves, UNCHANGED chainVars, NEW src \in {"core", "val"},
           NEW i, i = Known(src) + 1, Known(src) < Len(Log(src)), NEW e, e = Log(src)[i],
           NEW x, DbShape(x), x.cursor = db.cursor, x.lastBlock = db.lastBlock,
           x.deployment = db.deployment, Moved(db', x, e, src),
           faults' \in Nat, stops' \in Nat,
           NEW k, NEW j, Kept(core, val, x, k, j, faults', stops'),
           src = "core" => k = i /\ j = Known("val"), src = "val" => k = Known("core") /\ j = i
    PROVE  /\ Known("core")' = k /\ Known("val")' = j
           /\ DbShape(db') /\ db'.deployment = db.deployment /\ db'.lastBlock <= head
           /\ \A s \in {"core", "val"} : db'.cursor[s].bn <= head
           /\ Kept(core, val, db', k, j, faults', stops')
<1>1. /\ head \in Nat /\ CoreShape(core, head) /\ ValShape(core, val, head)
      /\ Known("core") \in 0..Len(core) /\ Known("val") \in 0..Len(val)
      /\ Log("core") = core /\ Log("val") = val
      /\ DOMAIN core = 1..Len(core) /\ DOMAIN val = 1..Len(val) /\ Len(core) \in Nat /\ Len(val) \in Nat
  BY Now
<1>2. core' = core /\ val' = val
  BY DEF chainVars
<1>3. i \in 1..Len(Log(src))
  BY <1>1
<1>4. e.at \in 1..head
  BY <1>1, <1>3 DEF CoreShape, ValShape
<1>5. /\ DbShape(db') /\ SameTables(db', x) /\ db'.cursor[src].bn = e.at /\ db'.cursor[src].li = e.li
      /\ \A other \in {"core", "val"} : other # src => db'.cursor[other] = db.cursor[other]
      /\ db'.lastBlock \in {db.lastBlock, e.at}
  BY DEF Moved
<1>6. Known(src)' = i /\ \A other \in {"core", "val"} : other # src => Known(other)' = Known(other)
  BY <1>1, <1>2, <1>3, <1>5, KnownMoves
<1>7. Known("core")' = k /\ Known("val")' = j
  BY <1>6
<1>8. k \in 0..Len(core) /\ j \in Nat /\ core \in Seq(CoreEvent)
  BY <1>1, <1>3 DEF CoreShape
<1>9. Kept(core, val, db', k, j, faults', stops')
  BY <1>5, <1>8, KeptLater
<1>10. db'.deployment = db.deployment
  BY <1>5 DEF SameTables
<1>11. db'.lastBlock <= head /\ \A s \in {"core", "val"} : db'.cursor[s].bn <= head
  BY <1>4, <1>5 DEF Serves
<1> QED
  BY <1>5, <1>7, <1>9, <1>10, <1>11

\* The core's next event e is number i, the log s is applied; there were more stops.
Turn(k, j, s, e, i, more) ==
    /\ k = Known("core") /\ k < Len(core) /\ j = Known("val")
    /\ s = SubSeq(core, 1, k) /\ e = core[k + 1] /\ i = k + 1 /\ more = stops + 1

(* What the statements of a handler do to the tables: of a core event, and *)
(* of an answer.                                                           *)
LEMMA EventRuns ==
    ASSUME IndexInv, NextIs({"core", "val"}), IsNew(Head(queue)), Head(queue).src = "core",
           NEW k, NEW j, NEW s, NEW e, NEW i, NEW more, Turn(k, j, s, e, i, more),
           NEW n \in 1..Len(Script),
           NEW d, d = After(db, SubSeq(Script, 1, n), "core", i)
    PROVE  /\ n < Len(Script) => Underway(d, db, s, e, i)
           /\ n = Len(Script) => Finished(d, db, s, e, i)
<1> USE DEF Turn
<1>1. Head(queue).i = i /\ k < Len(core)
  BY HeadIs DEF Log
<1>2. CoreShape(core, head) /\ DbShape(db) /\ k \in 0..Len(core)
  BY Now
<1>3. e \in CoreEvent /\ e.task \in Tasks /\ Legal(s, e)
  BY <1>1, <1>2, NextEvent
<1>4. s \in Seq(CoreEvent) /\ Told(s, e.task)
  BY <1>2, <1>3, Prefix
<1>5. Script = Handler("core", i)
  BY <1>1 DEF Script
<1>6. i \in Nat
  BY <1>2
<1> QED
  BY <1>2, <1>3, <1>4, <1>5, <1>6, CoreHandled

\* A handler is made of the statements there are.
LEMMA WordsOf ==
    ASSUME NEW i
    PROVE  Statements("core", i) \in Seq(Words)
<1>1. /\ "insertTask" \in Words /\ "markAccepted" \in Words /\ "updatePools" \in Words
      /\ "ensurePCutoff" \in Words /\ "setExecuting" \in Words /\ "markDelivered" \in Words
      /\ "markSettled" \in Words /\ "markCancelled" \in Words /\ "insertBet" \in Words
      /\ "firstSnapshot" \in Words /\ "insertSnapshot" \in Words /\ "reqhash" \in Words
      /\ "recomputeTrust" \in Words
  BY DEF Words
<1>2. <<"insertTask">> \in Seq(Words)
  BY <1>1
<1>3. <<"markAccepted", "firstSnapshot">> \in Seq(Words)
  BY <1>1
<1>4. <<"updatePools", "insertBet", "insertSnapshot">> \in Seq(Words)
  BY <1>1
<1>5. <<"ensurePCutoff", "setExecuting">> \in Seq(Words)
  BY <1>1
<1>6. <<"ensurePCutoff", "markDelivered", "reqhash">> \in Seq(Words)
  BY <1>1
<1>7. <<"ensurePCutoff", "markSettled", "recomputeTrust">> \in Seq(Words)
  BY <1>1
<1>8. <<"markCancelled">> \in Seq(Words)
  BY <1>1
<1>9. \/ Statements("core", i) = <<"insertTask">>
      \/ Statements("core", i) = <<"markAccepted", "firstSnapshot">>
      \/ Statements("core", i) = <<"updatePools", "insertBet", "insertSnapshot">>
      \/ Statements("core", i) = <<"ensurePCutoff", "setExecuting">>
      \/ Statements("core", i) = <<"ensurePCutoff", "markDelivered", "reqhash">>
      \/ Statements("core", i) = <<"ensurePCutoff", "markSettled", "recomputeTrust">>
      \/ Statements("core", i) = <<"markCancelled">>
  BY DEF Statements
<1> QED
  BY <1>2, <1>3, <1>4, <1>5, <1>6, <1>7, <1>8, <1>9

LEMMA ScriptWhole ==
    ASSUME Head(queue).src = "core"
    PROVE  Len(Script) \in 1..Len(Script) /\ SubSeq(Script, 1, Len(Script)) = Script
<1>1. PICK i : i = Head(queue).i
  OBVIOUS
<1>2. PICK st \in Seq(Words) : Statements("core", i) = st
  BY WordsOf
<1> DEFINE g == Handler("core", i)
<1>3. g \in Seq(Words) /\ Len(g) = Len(st) + 2 /\ SubSeq(g, 1, Len(g)) = g
  BY <1>2, HandlerParts
<1>4. Script = g
  BY <1>1 DEF Script
<1> HIDE DEF g
<1>5. Len(g) \in 1..Len(g)
  BY <1>3
<1> QED
  BY <1>3, <1>4, <1>5

LEMMA EventStops ==
    ASSUME IndexInv, Serves, NEW k, NEW j, NEW s, NEW e, NEW i, NEW more,
           Turn(k, j, s, e, i, more), NEW d, Doing(d, db, s, e, i)
    PROVE  /\ Kept(core, val, d, k, j, faults, more)
           /\ DbShape(d) /\ d.cursor = db.cursor
           /\ d.lastBlock = db.lastBlock /\ d.deployment = db.deployment
<1> USE DEF Turn
<1>1. /\ CoreShape(core, head) /\ ValShape(core, val, head) /\ DbShape(db)
      /\ k \in 0..Len(core) /\ j \in 0..Len(val) /\ stops \in Nat /\ faults \in Nat
  BY Now
<1>2. Kept(core, val, db, k, j, faults, stops)
  BY <1>1, NowKept
<1>3. Kept(core, val, d, k, j, faults, more)
  BY <1>1, <1>2, KeptDoing
<1> QED
  BY <1>3 DEF Doing, Touches

LEMMA EventEnds ==
    ASSUME IndexInv, Serves, NEW k, NEW j, NEW s, NEW e, NEW i, NEW more,
           Turn(k, j, s, e, i, more), NEW d, Done(d, db, s, e, i)
    PROVE  /\ Kept(core, val, d, i, j, faults, stops) /\ Kept(core, val, d, i, j, faults, more)
           /\ DbShape(d) /\ d.cursor = db.cursor
           /\ d.lastBlock = db.lastBlock /\ d.deployment = db.deployment
<1> USE DEF Turn
<1>1. /\ CoreShape(core, head) /\ ValShape(core, val, head) /\ DbShape(db)
      /\ k \in 0..Len(core) /\ j \in 0..Len(val) /\ stops \in Nat /\ faults \in Nat
      /\ core \in Seq(CoreEvent) /\ j \in Nat
  BY Now DEF CoreShape
<1>2. Kept(core, val, db, k, j, faults, stops)
  BY <1>1, NowKept
<1>3. Kept(core, val, d, i, j, faults, stops)
  BY <1>1, <1>2, KeptDone
<1>4. /\ DbShape(d) /\ d.cursor = db.cursor
      /\ d.lastBlock = db.lastBlock /\ d.deployment = db.deployment
  BY DEF Done, Doing, Touches
<1>5. Kept(core, val, d, i, j, faults, more)
  <2>1. i \in 0..Len(core)
    BY <1>1
  <2> QED
    BY <1>1, <1>3, <1>4, <2>1, KeptLater
<1> QED
  BY <1>3, <1>4, <1>5

LEMMA HandlerOfAnswer ==
    ASSUME NEW i, NEW h, h = Handler("val", i)
    PROVE  /\ h \in Seq(Words) /\ Len(h) = 3 /\ SubSeq(h, 1, 3) = h
           /\ h[1] = "setValidatorScore" /\ h[2] = "cursor" /\ h[3] = "lastBlock"
<1>1. PICK st \in Seq(Words) : Statements("val", i) = st /\ Len(st) = 1 /\ st[1] = "setValidatorScore"
  <2>1. <<"setValidatorScore">> \in Seq(Words)
    <3>1. "setValidatorScore" \in Words
      BY DEF Words
    <3> QED
      BY <3>1
  <2>2. Len(<<"setValidatorScore">>) = 1 /\ <<"setValidatorScore">>[1] = "setValidatorScore"
    OBVIOUS
  <2>3. Statements("val", i) = <<"setValidatorScore">>
    BY DEF Statements
  <2> QED
    BY <2>1, <2>2, <2>3
<1>2. /\ h \in Seq(Words) /\ Len(h) = 3 /\ SubSeq(h, 1, 3) = h
      /\ h[1] = st[1] /\ h[2] = "cursor" /\ h[3] = "lastBlock"
  <2>0. Statements("val", i) = st
    BY <1>1
  <2> DEFINE g == Handler("val", i)
  <2>2. /\ g \in Seq(Words) /\ Len(g) = Len(st) + 2
        /\ \A k \in 1..Len(st) : g[k] = st[k]
        /\ g[Len(st) + 1] = "cursor" /\ g[Len(st) + 2] = "lastBlock"
        /\ SubSeq(g, 1, Len(g)) = g
    BY <2>0, HandlerParts
  <2>1. /\ h \in Seq(Words) /\ Len(h) = Len(st) + 2 /\ SubSeq(h, 1, Len(h)) = h
        /\ \A k \in 1..Len(st) : h[k] = st[k]
        /\ h[Len(st) + 1] = "cursor" /\ h[Len(st) + 2] = "lastBlock"
    BY <2>2
  <2> QED
    BY <1>1, <2>1
<1> QED
  BY <1>1, <1>2

LEMMA AnswerRuns ==
    ASSUME NEW db0, NEW i, NEW a, a = Log("val")[i], NEW h, h = Handler("val", i),
           NEW n \in 1..Len(h), NEW d, d = After(db0, SubSeq(h, 1, n), "val", i),
           NEW x, x = SetValidatorScore(db0, a)
    PROVE  /\ n = 1 => d = x
           /\ n = 2 => d = SetCursor(x, a, "val")
           /\ n = 3 => d = SetLastBlock(SetCursor(x, a, "val"), a)
<1>3. /\ h \in Seq(Words) /\ Len(h) = 3
      /\ h[1] = "setValidatorScore" /\ h[2] = "cursor" /\ h[3] = "lastBlock"
  BY HandlerOfAnswer
<1> DEFINE d1 == Exec(db0, h[1], "val", i, a)
           d2 == Exec(d1, h[2], "val", i, a)
           d3 == Exec(d2, h[3], "val", i, a)
           d4 == Exec(d3, h[4], "val", i, a)
           d5 == Exec(d4, h[5], "val", i, a)
           r == After(db0, SubSeq(h, 1, n), "val", i)
<1>a. h \in Seq(Words) /\ Len(h) <= 5
  <2>1. h \in Seq(Words) /\ Len(h) = 3
    BY <1>3
  <2>2. \A m : m = 3 => m <= 5
    OBVIOUS
  <2> QED
    BY <2>1, <2>2, Zenon
<1>b. /\ n = 1 => r = d1
      /\ n = 2 => r = d2
      /\ n = 3 => r = d3
      /\ n = 4 => r = d4
      /\ n = 5 => r = d5
  BY <1>a, PrefixRuns
<1>4. /\ n = 1 => d = d1
      /\ n = 2 => d = d2
      /\ n = 3 => d = d3
  BY <1>b
<1>5. d1 = x
  BY <1>3, ExecIs
<1> HIDE DEF d1
<1>6. d2 = SetCursor(d1, a, "val")
  BY <1>3, ExecIs
<1> HIDE DEF d2
<1>7. d3 = SetLastBlock(d2, a)
  BY <1>3, ExecIs
<1> QED
  BY <1>3, <1>4, <1>5, <1>6, <1>7

LEMMA JustAdvances ==
    ASSUME NEW d, NEW i, NEW e, e = Log("core")[i]
    PROVE  After(d, Advance, "core", i) = SetLastBlock(SetCursor(d, e, "core"), e)
<1>1. PICK st \in Seq(Words) : st = Advance /\ Len(st) = 2 /\ st[1] = "cursor" /\ st[2] = "lastBlock"
  <2>1. "cursor" \in Words /\ "lastBlock" \in Words
    BY DEF Words
  <2>2. <<"cursor", "lastBlock">> \in Seq(Words)
    BY <2>1
  <2>3. /\ Len(<<"cursor", "lastBlock">>) = 2 /\ <<"cursor", "lastBlock">>[1] = "cursor"
        /\ <<"cursor", "lastBlock">>[2] = "lastBlock"
    OBVIOUS
  <2> QED
    BY <2>2, <2>3 DEF Advance
<1> DEFINE d1 == Exec(d, st[1], "core", i, e)
           d2 == Exec(d1, st[2], "core", i, e)
           d3 == Exec(d2, st[3], "core", i, e)
           d4 == Exec(d3, st[4], "core", i, e)
           d5 == Exec(d4, st[5], "core", i, e)
           r == After(d, st, "core", i)
<1>2. Len(st) <= 5
  BY <1>1
<1>3. /\ Len(st) = 1 => r = d1
      /\ Len(st) = 2 => r = d2
      /\ Len(st) = 3 => r = d3
      /\ Len(st) = 4 => r = d4
      /\ Len(st) = 5 => r = d5
  BY <1>2, AfterIs
<1>4. d1 = SetCursor(d, e, "core")
  BY <1>1, ExecIs
<1> HIDE DEF d1
<1>5. d2 = SetLastBlock(d1, e)
  BY <1>1, ExecIs
<1> QED
  BY <1>1, <1>3, <1>4, <1>5

\* The registry's next answer a is number i; there were more stops; x has the score.
AnswerTurn(j, a, i, more, x) ==
    /\ j = Known("val") /\ a = val[j + 1] /\ i = j + 1 /\ more = stops + 1
    /\ x = SetValidatorScore(db, a)

LEMMA AnswerIsTurn ==
    ASSUME IndexInv, NextIs({"core", "val"}), IsNew(Head(queue)), Head(queue).src = "val",
           NEW j, NEW a, NEW i, NEW more, NEW x, AnswerTurn(j, a, i, more, x)
    PROVE  Due(core, a, Known("core"))
<1> USE DEF AnswerTurn
<1>1. Head(queue).i = i /\ j < Len(val) /\ Follows /\ queue # <<>>
  BY HeadIs DEF Log
<1>2. DOMAIN core = 1..Len(core)
  BY Now
<1>3. queue \in Seq(QueueItem) /\ AfterCore(queue, core, val, Known("core"))
  BY <1>1 DEF Follows, QueueOk
<1>4. \A n \in DOMAIN core : core[n].at <= a.at => n <= Known("core")
  BY <1>1, <1>2, <1>3, AnswerIsDue
<1> QED
  BY <1>4 DEF Due

LEMMA AnswerKept ==
    ASSUME IndexInv, NextIs({"core", "val"}), IsNew(Head(queue)), Head(queue).src = "val",
           NEW j, NEW a, NEW i, NEW more, NEW x, AnswerTurn(j, a, i, more, x)
    PROVE  /\ DbShape(x) /\ x.cursor = db.cursor /\ x.lastBlock = db.lastBlock /\ x.deployment = db.deployment
           /\ Kept(core, val, x, Known("core"), i, faults, stops)
           /\ Kept(core, val, x, Known("core"), i, faults, more)
           /\ Kept(core, val, x, Known("core"), j, faults, more)
           /\ a.at \in Nat /\ a.li \in Nat
<1> USE DEF AnswerTurn
<1>1. Head(queue).i = i /\ j < Len(val) /\ Serves /\ Follows /\ queue # <<>>
  BY HeadIs DEF Log
<1>2. /\ CoreShape(core, head) /\ ValShape(core, val, head) /\ DbShape(db)
      /\ Known("core") \in 0..Len(core) /\ j \in 0..Len(val) /\ stops \in Nat /\ faults \in Nat
      /\ core \in Seq(CoreEvent) /\ DOMAIN core = 1..Len(core) /\ j \in Nat /\ i \in Nat
  BY Now DEF CoreShape
<1>3. Due(core, a, Known("core"))
  BY AnswerIsTurn
<1>4. Kept(core, val, db, Known("core"), j, faults, stops)
  BY <1>1, NowKept
<1>a. PICK k : k = Known("core")
  OBVIOUS
<1>b. k \in 0..Len(core) /\ Kept(core, val, db, k, j, faults, stops)
  BY <1>2, <1>4, <1>a
<1>c. Due(core, a, k)
  BY <1>3, <1>a
<1>d. j < Len(val)
  BY <1>1
<1>5. /\ DbShape(x) /\ RowOnly(x, db, a.task) /\ a \in ValEvent
      /\ Kept(core, val, x, k, i, faults, stops) /\ Kept(core, val, x, k, j, faults, stops)
  BY <1>2, <1>b, <1>c, <1>d, KeptScored
<1>6. /\ Kept(core, val, x, Known("core"), i, faults, more)
      /\ Kept(core, val, x, Known("core"), j, faults, more)
  BY <1>2, <1>5, <1>a, KeptLater
<1> QED
  BY <1>5, <1>6, <1>a DEF RowOnly, Touches, ValEvent

(* Each action keeps the invariant.                                        *)
LEMMA SkipsOk ==
    ASSUME IndexInv, Skips
    PROVE  IndexInv'
<1>1. /\ NextIs({"core", "val"}) /\ ~IsNew(Head(queue)) /\ queue' = Tail(queue)
      /\ UNCHANGED chainVars /\ db' = db /\ proc' = proc /\ polled' = polled
      /\ stops' = stops /\ faults' = faults
  BY DEF Skips
<1>2. PICK src, i : src = Head(queue).src /\ i = Head(queue).i
  OBVIOUS
<1>3. Serves /\ i <= Known(src) /\ Running /\ src \in {"core", "val"}
  BY <1>1, <1>2, HeadIs
<1>4. core' = core /\ val' = val /\ db'.cursor = db.cursor
  BY <1>1 DEF chainVars
<1>5. Known("core")' = Known("core") /\ Known("val")' = Known("val")
  BY <1>4, KnownKept
<1>6. /\ Known("core") \in Nat /\ Known("val") \in Nat /\ DbShape(db)
      /\ stops \in Nat /\ faults \in Nat
  BY Now
<1>7. Running' /\ Follows'
  <2>1. PICK l, m : l = Known("core")' /\ m = Known("val")'
    OBVIOUS
  <2>2. /\ l \in Nat /\ m \in Nat /\ Known("core") <= l /\ Known("val") <= m
        /\ Head(queue).src = "core" => Head(queue).i <= l
        /\ Head(queue).src = "val" => Head(queue).i <= m
    BY <1>2, <1>3, <1>5, <1>6, <2>1
  <2> QED
    BY <1>1, <2>1, <2>2, Dequeued
<1>8. Kept(core, val, db', Known("core")', Known("val")', faults', stops')
  BY <1>1, <1>3, <1>5, NowKept
<1>9. db.lastBlock <= head /\ \A s \in {"core", "val"} : db.cursor[s].bn <= head
  BY <1>3 DEF Serves
<1>10. proc' \in {"down", "catchup", "live"}
  BY <1>1, <1>3 DEF Running
<1> QED
  BY <1>1, <1>3, <1>6, <1>7, <1>8, <1>9, <1>10, StepKeeps

(* A whole handler of one of the core's events.                            *)
LEMMA EventHandled ==
    ASSUME IndexInv, Handles, Head(queue).src = "core",
           NEW k, NEW j, NEW s, NEW e, NEW i, NEW more, Turn(k, j, s, e, i, more)
    PROVE  /\ Known("core")' = i /\ Known("val")' = j /\ Head(queue).i = i
           /\ DbShape(db') /\ db'.deployment = db.deployment /\ db'.lastBlock <= head
           /\ \A src \in {"core", "val"} : db'.cursor[src].bn <= head
           /\ Kept(core, val, db', i, j, faults', stops')
           /\ \E x : Done(x, db, s, e, i) /\ SameTables(db', x)
<1>1. /\ NextIs({"core", "val"}) /\ IsNew(Head(queue))
      /\ db' = After(db, Script, "core", Head(queue).i)
      /\ UNCHANGED chainVars /\ stops' = stops /\ faults' = faults
  BY DEF Handles, Runs
<1>3. Serves /\ Head(queue).i = i /\ k < Len(core)
  BY <1>1, HeadIs DEF Log, Turn
<1>4. /\ k \in Nat /\ j \in Nat /\ DbShape(db) /\ CoreShape(core, head) /\ Log("core") = core
      /\ k \in 0..Len(core) /\ stops \in Nat /\ faults \in Nat
  BY Now DEF Turn
<1>5. e.at \in Nat /\ e.li \in Nat
  <2>1. e \in CoreEvent
    BY <1>3, <1>4, NextEvent DEF Turn
  <2> QED
    BY <2>1 DEF CoreEvent
<1>6. Finished(db', db, s, e, i)
  <2>1. Len(Script) \in 1..Len(Script) /\ SubSeq(Script, 1, Len(Script)) = Script
    BY ScriptWhole
  <2>2. PICK n : n = Len(Script)
    OBVIOUS
  <2>3. n \in 1..Len(Script) /\ db' = After(db, SubSeq(Script, 1, n), "core", i)
    BY <1>1, <1>3, <2>1, <2>2
  <2> QED
    BY <1>1, <2>2, <2>3, EventRuns
<1>7. PICK x : Done(x, db, s, e, i) /\ db' = SetLastBlock(SetCursor(x, e, "core"), e)
  BY <1>6 DEF Finished
<1>8. /\ Kept(core, val, x, i, j, faults, stops)
      /\ DbShape(x) /\ x.cursor = db.cursor /\ x.lastBlock = db.lastBlock /\ x.deployment = db.deployment
  BY <1>3, <1>7, EventEnds
<1>9. Moved(db', x, e, "core")
  BY <1>5, <1>7, <1>8, CursorMoves
<1>10. /\ i = Known("core") + 1 /\ Known("core") < Len(Log("core")) /\ e = Log("core")[i]
       /\ faults' \in Nat /\ stops' \in Nat /\ Kept(core, val, x, i, j, faults', stops')
  BY <1>1, <1>3, <1>4, <1>8 DEF Turn
<1>11. /\ Known("core")' = i /\ Known("val")' = j
       /\ DbShape(db') /\ db'.deployment = db.deployment /\ db'.lastBlock <= head
       /\ \A src \in {"core", "val"} : db'.cursor[src].bn <= head
       /\ Kept(core, val, db', i, j, faults', stops')
  BY <1>1, <1>3, <1>8, <1>9, <1>10, CursorKeeps DEF Turn
<1>12. SameTables(db', x)
  BY <1>9 DEF Moved
<1> QED
  BY <1>3, <1>7, <1>11, <1>12

LEMMA TurnNow ==
    ASSUME IndexInv, NextIs({"core", "val"}), IsNew(Head(queue)), Head(queue).src = "core"
    PROVE  \E k, j, s, e, i, more : Turn(k, j, s, e, i, more)
<1>1. Known("core") < Len(core)
  BY HeadIs DEF Log
<1> QED
  BY <1>1 DEF Turn

LEMMA HandlesCoreOk ==
    ASSUME IndexInv, Handles, Head(queue).src = "core"
    PROVE  IndexInv'
<1>1. /\ NextIs({"core", "val"}) /\ IsNew(Head(queue)) /\ queue' = Tail(queue)
      /\ UNCHANGED chainVars /\ proc' = proc /\ polled' = polled
      /\ stops' = stops /\ faults' = faults
  BY DEF Handles, Runs
<1>2. PICK k, j, s, e, i, more : Turn(k, j, s, e, i, more)
  BY <1>1, TurnNow
<1>3. Serves /\ Running
  BY <1>1, HeadIs
<1>4. k \in Nat /\ j \in Nat /\ stops \in Nat /\ faults \in Nat
  BY <1>2, Now DEF Turn
<1>5. /\ Known("core")' = i /\ Known("val")' = j /\ Head(queue).i = i
      /\ DbShape(db') /\ db'.deployment = db.deployment /\ db'.lastBlock <= head
      /\ \A src \in {"core", "val"} : db'.cursor[src].bn <= head
      /\ Kept(core, val, db', i, j, faults', stops')
  BY <1>2, EventHandled
<1>6. Running' /\ Follows'
  <2>1. i \in Nat /\ Known("core") <= i /\ Known("val") <= j /\ Head(queue).i <= i
    BY <1>2, <1>4, <1>5 DEF Turn
  <2> QED
    BY <1>1, <1>2, <1>4, <1>5, <2>1, Dequeued DEF Turn
<1>7. proc' \in {"down", "catchup", "live"} /\ faults' \in Nat /\ stops' \in Nat
  BY <1>1, <1>3, <1>4 DEF Running
<1> QED
  BY <1>1, <1>3, <1>5, <1>6, <1>7, StepKeeps

(* The handler of an answer.                                               *)
LEMMA AnswerHandled ==
    ASSUME IndexInv, Handles, Head(queue).src = "val",
           NEW j, NEW a, NEW i, NEW more, NEW x, AnswerTurn(j, a, i, more, x)
    PROVE  /\ Known("core")' = Known("core") /\ Known("val")' = i /\ Head(queue).i = i
           /\ DbShape(db') /\ db'.deployment = db.deployment /\ db'.lastBlock <= head
           /\ \A src \in {"core", "val"} : db'.cursor[src].bn <= head
           /\ Kept(core, val, db', Known("core"), i, faults', stops')
           /\ SameTables(db', x) /\ j < Len(val)
<1>1. /\ NextIs({"core", "val"}) /\ IsNew(Head(queue))
      /\ db' = After(db, Script, "val", Head(queue).i)
      /\ UNCHANGED chainVars /\ stops' = stops /\ faults' = faults
  BY DEF Handles, Runs
<1>3. Serves /\ Head(queue).i = i /\ j < Len(val)
  BY <1>1, HeadIs DEF Log, AnswerTurn
<1>4. /\ Known("core") \in Nat /\ j \in Nat /\ i \in Nat /\ stops \in Nat /\ faults \in Nat
  BY Now DEF AnswerTurn
<1>5. /\ DbShape(x) /\ x.cursor = db.cursor /\ x.lastBlock = db.lastBlock /\ x.deployment = db.deployment
      /\ Kept(core, val, x, Known("core"), i, faults, stops) /\ a.at \in Nat /\ a.li \in Nat
  BY <1>1, AnswerKept
<1>6. db' = SetLastBlock(SetCursor(x, a, "val"), a)
  <2>1. PICK h, n : h = Handler("val", i) /\ n = 3
    OBVIOUS
  <2>2. a = Log("val")[i] /\ x = SetValidatorScore(db, a)
    BY DEF AnswerTurn, Log
  <2>3. Len(h) = 3 /\ SubSeq(h, 1, 3) = h
    BY <2>1, HandlerOfAnswer
  <2>4. n \in 1..Len(h)
    <3>1. 3 \in 1..3
      OBVIOUS
    <3> QED
      BY <2>1, <2>3, <3>1, Zenon
  <2>5. db' = After(db, SubSeq(h, 1, n), "val", i)
    BY <1>1, <1>3, <2>1, <2>3 DEF Script
  <2> QED
    BY <2>1, <2>2, <2>4, <2>5, AnswerRuns
<1>7. Moved(db', x, a, "val")
  BY <1>5, <1>6, CursorMoves
<1>8. /\ i = Known("val") + 1 /\ Known("val") < Len(Log("val")) /\ a = Log("val")[i]
      /\ faults' \in Nat /\ stops' \in Nat /\ Kept(core, val, x, Known("core"), i, faults', stops')
  BY <1>1, <1>3, <1>4, <1>5 DEF AnswerTurn, Log
<1>9. /\ Known("core")' = Known("core") /\ Known("val")' = i
      /\ DbShape(db') /\ db'.deployment = db.deployment /\ db'.lastBlock <= head
      /\ \A src \in {"core", "val"} : db'.cursor[src].bn <= head
      /\ Kept(core, val, db', Known("core"), i, faults', stops')
  BY <1>1, <1>3, <1>5, <1>7, <1>8, CursorKeeps
<1>10. SameTables(db', x)
  BY <1>7 DEF Moved
<1> QED
  BY <1>3, <1>9, <1>10

LEMMA HandlesValOk ==
    ASSUME IndexInv, Handles, Head(queue).src = "val"
    PROVE  IndexInv'
<1>1. /\ NextIs({"core", "val"}) /\ IsNew(Head(queue)) /\ queue' = Tail(queue)
      /\ UNCHANGED chainVars /\ proc' = proc /\ polled' = polled
      /\ stops' = stops /\ faults' = faults
  BY DEF Handles, Runs
<1>2. PICK j, a, i, more, x : AnswerTurn(j, a, i, more, x)
  BY DEF AnswerTurn
<1>3. Serves /\ Running
  BY <1>1, HeadIs
<1>4. /\ Known("core") \in Nat /\ j \in Nat /\ i \in Nat /\ stops \in Nat /\ faults \in Nat
  BY <1>2, Now DEF AnswerTurn
<1>5. /\ Known("core")' = Known("core") /\ Known("val")' = i /\ Head(queue).i = i
      /\ DbShape(db') /\ db'.deployment = db.deployment /\ db'.lastBlock <= head
      /\ \A src \in {"core", "val"} : db'.cursor[src].bn <= head
      /\ Kept(core, val, db', Known("core"), i, faults', stops')
  BY <1>2, AnswerHandled
<1>6. Running' /\ Follows'
  <2>1. Known("val") <= i /\ Known("core") <= Known("core") /\ Head(queue).i <= i
    BY <1>2, <1>4, <1>5 DEF AnswerTurn
  <2> QED
    BY <1>1, <1>4, <1>5, <2>1, Dequeued
<1>7. proc' \in {"down", "catchup", "live"} /\ faults' \in Nat /\ stops' \in Nat
  BY <1>1, <1>3, <1>4 DEF Running
<1>8. Kept(core, val, db', Known("core")', Known("val")', faults', stops')
  BY <1>5
<1> QED
  BY <1>1, <1>3, <1>5, <1>6, <1>7, <1>8, StepKeeps

LEMMA HandlesOk ==
    ASSUME IndexInv, Handles
    PROVE  IndexInv'
<1>1. Head(queue).src = "core" \/ Head(queue).src = "val"
  BY DEF Handles, NextIs
<1> QED
  BY <1>1, HandlesCoreOk, HandlesValOk

(* A failed handler moves the cursor past an event it has not applied.     *)
LEMMA FailsOk ==
    ASSUME IndexInv, HandlerFails
    PROVE  IndexInv'
<1>1. /\ NextIs({"core", "val"}) /\ IsNew(Head(queue)) /\ queue' = Tail(queue) /\ Head(queue).src = "core"
      /\ db' = After(db, Advance, "core", Head(queue).i)
      /\ UNCHANGED chainVars /\ proc' = proc /\ polled' = polled
      /\ stops' = stops /\ faults' = faults + 1
  BY DEF HandlerFails, Runs, NextIs
<1>2. PICK k, j, s, e, i, more : Turn(k, j, s, e, i, more)
  <2>1. Known("core") < Len(core)
    BY <1>1, HeadIs DEF Log
  <2> QED
    BY <2>1 DEF Turn
<1>3. Serves /\ Running /\ Head(queue).i = i /\ k < Len(core)
  BY <1>1, <1>2, HeadIs DEF Log, Turn
<1>4. /\ k \in Nat /\ j \in Nat /\ DbShape(db) /\ CoreShape(core, head) /\ Log("core") = core
      /\ k \in 0..Len(core) /\ stops \in Nat /\ faults \in Nat
  BY <1>2, Now DEF Turn
<1>5. e.at \in Nat /\ e.li \in Nat
  <2>1. e \in CoreEvent
    BY <1>2, <1>3, <1>4, NextEvent DEF Turn
  <2> QED
    BY <2>1 DEF CoreEvent
<1>6. db' = SetLastBlock(SetCursor(db, e, "core"), e)
  <2>1. e = Log("core")[i]
    BY <1>2, <1>4 DEF Turn
  <2>2. After(db, Advance, "core", i) = SetLastBlock(SetCursor(db, e, "core"), e)
    BY <2>1, JustAdvances
  <2> QED
    BY <1>1, <1>3, <2>2
<1>7. Kept(core, val, db, i, j, faults', stops')
  <2>1. Kept(core, val, db, k, j, faults, stops) /\ core \in Seq(CoreEvent)
    BY <1>2, <1>3, <1>4, NowKept DEF Turn, CoreShape
  <2>2. i = k + 1
    BY <1>2 DEF Turn
  <2> QED
    BY <1>1, <1>3, <1>4, <2>1, <2>2, KeptLost
<1>8. Moved(db', db, e, "core")
  BY <1>4, <1>5, <1>6, CursorMoves
<1>9. /\ Known("core")' = i /\ Known("val")' = j
      /\ DbShape(db') /\ db'.deployment = db.deployment /\ db'.lastBlock <= head
      /\ \A src \in {"core", "val"} : db'.cursor[src].bn <= head
      /\ Kept(core, val, db', i, j, faults', stops')
  <2>1. /\ i = Known("core") + 1 /\ Known("core") < Len(Log("core")) /\ e = Log("core")[i]
        /\ faults' \in Nat /\ stops' \in Nat /\ j = Known("val")
    BY <1>1, <1>2, <1>3, <1>4 DEF Turn
  <2> QED
    BY <1>1, <1>3, <1>4, <1>7, <1>8, <2>1, CursorKeeps
<1>10. Running' /\ Follows'
  <2>1. i \in Nat /\ Known("core") <= i /\ Known("val") <= j /\ Head(queue).i <= i
    BY <1>2, <1>3, <1>4 DEF Turn
  <2> QED
    BY <1>1, <1>2, <1>4, <1>9, <2>1, Dequeued DEF Turn
<1>11. proc' \in {"down", "catchup", "live"} /\ faults' \in Nat /\ stops' \in Nat
  BY <1>1, <1>3, <1>4 DEF Running
<1> QED
  BY <1>1, <1>3, <1>9, <1>10, <1>11, StepKeeps

(* The end of a scan is noted.                                             *)
LEMMA NotesOk ==
    ASSUME IndexInv, NotesHead
    PROVE  IndexInv'
<1>1. /\ queue # <<>> /\ Head(queue).src = "head" /\ queue' = Tail(queue)
      /\ db' = [db EXCEPT !.lastBlock = Head(queue).i]
      /\ UNCHANGED chainVars /\ proc' = proc /\ polled' = polled
      /\ stops' = stops /\ faults' = faults
  BY DEF NotesHead, NextIs
<1>2. Running /\ Serves /\ Follows
  BY <1>1, NowServes
<1>3. /\ polled \in 0..head /\ QueueOk(queue, core, val, polled, Known("core"), Known("val"))
      /\ Last(queue) = Item("head", polled)
  BY <1>1, <1>2 DEF Follows
<1>4. /\ CoreShape(core, head) /\ ValShape(core, val, head) /\ DbShape(db) /\ head \in Nat
      /\ Known("core") \in Nat /\ Known("val") \in Nat /\ stops \in Nat /\ faults \in Nat
      /\ Known("core") \in 0..Len(core) /\ core \in Seq(CoreEvent)
  BY Now DEF CoreShape
<1>5. PICK n : n = Head(queue).i
  OBVIOUS
<1>6. queue \in Seq(QueueItem) /\ \A m \in DOMAIN queue : queue[m].src = "head" => queue[m].i <= polled
  BY <1>3 DEF QueueOk
<1>7. PICK r : r = Tail(queue)
  OBVIOUS
<1>8. /\ Head(queue) \in QueueItem /\ Head(queue) = queue[1] /\ 1 \in DOMAIN queue
      /\ r = <<>> => Last(queue) = Head(queue)
      /\ r # <<>> => Last(r) = Last(queue)
  BY <1>1, <1>6, <1>7, HeadAndTail
<1>9. n \in Nat /\ n <= polled /\ n <= head
  <2>1. n \in Nat
    BY <1>5, <1>8 DEF QueueItem
  <2>2. n <= polled
    BY <1>1, <1>5, <1>6, <1>8
  <2> QED
    BY <1>3, <1>4, <2>1, <2>2
<1>10. /\ DbShape(db') /\ SameTables(db', db) /\ db'.lastBlock = n /\ db'.cursor = db.cursor
  BY <1>1, <1>4, <1>5, <1>9, BlockNoted
<1>11. core' = core /\ val' = val /\ head' = head
  BY <1>1 DEF chainVars
<1>12. Known("core")' = Known("core") /\ Known("val")' = Known("val")
  BY <1>10, <1>11, KnownKept
<1>13. QueueOk(r, core, val, polled, Known("core"), Known("val"))
  <2>1. /\ Known("core") <= Known("core") /\ Known("val") <= Known("val")
        /\ Head(queue).src = "core" => Head(queue).i <= Known("core")
        /\ Head(queue).src = "val" => Head(queue).i <= Known("val")
    BY <1>1, <1>4
  <2> QED
    BY <1>1, <1>3, <1>4, <1>7, <2>1, QueueAfterHead
<1>14. r = <<>> => n = polled
  BY <1>3, <1>5, <1>8 DEF Item
<1>15. Running' /\ Follows'
  BY <1>1, <1>2, <1>3, <1>7, <1>8, <1>10, <1>11, <1>12, <1>13, <1>14 DEF Follows, Running
<1>16. Kept(core, val, db', Known("core")', Known("val")', faults', stops')
  <2>1. Kept(core, val, db, Known("core"), Known("val"), faults, stops)
    BY <1>2, NowKept
  <2>2. Kept(core, val, db', Known("core"), Known("val"), faults, stops)
    BY <1>4, <1>10, <2>1, KeptLater
  <2> QED
    BY <1>1, <1>12, <2>2
<1>17. db'.deployment = db.deployment /\ db'.lastBlock <= head
  BY <1>9, <1>10 DEF SameTables
<1>18. \A src \in {"core", "val"} : db'.cursor[src].bn <= head
  BY <1>2, <1>10 DEF Serves
<1>19. proc' \in {"down", "catchup", "live"} /\ faults' \in Nat /\ stops' \in Nat
  BY <1>1, <1>2, <1>4 DEF Running
<1> QED
  BY <1>1, <1>2, <1>10, <1>15, <1>16, <1>17, <1>18, <1>19, StepKeeps

(* Steps that leave the tables and the chain alone.                        *)
LEMMA SameDbOk ==
    ASSUME IndexInv, UNCHANGED chainVars, db' = db, faults' = faults, Serves,
           stops' = stops \/ stops' = stops + 1,
           proc' \in {"down", "catchup", "live"}, IF Running' THEN Follows' ELSE queue' = <<>>
    PROVE  IndexInv'
<1>1. core' = core /\ val' = val
  BY DEF chainVars
<1>2. Known("core")' = Known("core") /\ Known("val")' = Known("val")
  BY <1>1, KnownKept
<1>3. /\ DbShape(db) /\ stops \in Nat /\ faults \in Nat /\ core \in Seq(CoreEvent)
      /\ Known("core") \in 0..Len(core) /\ Known("val") \in Nat
  BY Now DEF CoreShape
<1>4. Kept(core, val, db, Known("core"), Known("val"), faults, stops)
  BY NowKept
<1>5. Kept(core, val, db, Known("core"), Known("val"), faults, stops')
  <2>1. PICK more : more = stops + 1
    OBVIOUS
  <2>2. Kept(core, val, db, Known("core"), Known("val"), faults, more)
    BY <1>3, <1>4, <2>1, KeptLater
  <2> QED
    BY <1>4, <2>1, <2>2
<1>6. Kept(core, val, db', Known("core")', Known("val")', faults', stops')
  BY <1>2, <1>5
<1>7. DbShape(db') /\ db'.deployment = db.deployment /\ stops' \in Nat /\ faults' \in Nat
  BY <1>3
<1>8. db'.lastBlock <= head /\ \A src \in {"core", "val"} : db'.cursor[src].bn <= head
  BY DEF Serves
<1> QED
  BY <1>6, <1>7, <1>8, StepKeeps

LEMMA ListensOk ==
    ASSUME IndexInv, Listens
    PROVE  IndexInv'
<1>1. /\ proc = "catchup" /\ proc' = "live" /\ UNCHANGED chainVars /\ db' = db
      /\ polled' = polled /\ queue' = queue /\ stops' = stops /\ faults' = faults
  BY DEF Listens
<1>2. Running /\ Serves /\ Follows
  BY <1>1, NowServes DEF Running
<1>3. core' = core /\ val' = val /\ head' = head
  BY <1>1 DEF chainVars
<1>4. Known("core")' = Known("core") /\ Known("val")' = Known("val")
  BY <1>1, <1>3, KnownKept
<1>5. Follows'
  BY <1>1, <1>2, <1>3, <1>4 DEF Follows
<1>6. Running' /\ proc' \in {"down", "catchup", "live"}
  BY <1>1 DEF Running
<1> QED
  BY <1>1, <1>2, <1>5, <1>6, SameDbOk

LEMMA PollsOk ==
    ASSUME IndexInv, Polls
    PROVE  IndexInv'
<1>1. /\ proc = "live" /\ proc' = "live" /\ head > polled /\ polled' = head
      /\ queue' = queue \o Scan(polled + 1, head) /\ UNCHANGED chainVars /\ db' = db
      /\ stops' = stops /\ faults' = faults
  BY DEF Polls
<1>2. Running /\ Serves /\ Follows
  BY <1>1, NowServes DEF Running
<1>3. core' = core /\ val' = val /\ head' = head
  BY <1>1 DEF chainVars
<1>4. Known("core")' = Known("core") /\ Known("val")' = Known("val")
  BY <1>1, <1>3, KnownKept
<1>5. polled \in 0..head /\ QueueOk(queue, core, val, polled, Known("core"), Known("val"))
  BY <1>2 DEF Follows
<1>6. CoreShape(core, head) /\ ValShape(core, val, head) /\ head \in Nat
  BY Now
<1>7. PICK from, r : from = polled + 1 /\ r = queue \o Scan(from, head)
  OBVIOUS
<1>8. QueueOk(r, core, val, head, Known("core"), Known("val")) /\ r # <<>> /\ Last(r) = Item("head", head)
  <2>1. polled \in Int /\ polled <= head /\ from - 1 = polled
    BY <1>5, <1>6, <1>7
  <2> QED
    BY <1>5, <1>6, <1>7, <2>1, Enqueued
<1>9. head \in 0..head
  BY <1>6
<1>10. Follows'
  BY <1>1, <1>3, <1>4, <1>7, <1>8, <1>9 DEF Follows
<1>11. Running' /\ proc' \in {"down", "catchup", "live"}
  BY <1>1 DEF Running
<1> QED
  BY <1>1, <1>2, <1>10, <1>11, SameDbOk

LEMMA StopsOk ==
    ASSUME IndexInv, Stops
    PROVE  IndexInv'
<1>1. /\ Running /\ proc' = "down" /\ queue' = <<>> /\ UNCHANGED chainVars /\ db' = db
      /\ stops' = stops + 1 /\ faults' = faults
  BY DEF Stops, Dies, Running
<1>2. Serves
  BY <1>1, NowServes
<1>3. ~Running'
  BY <1>1 DEF Running
<1> QED
  BY <1>1, <1>2, <1>3, SameDbOk

(* The process dies inside a handler.                                      *)
LEMMA MidwayCoreOk ==
    ASSUME IndexInv, StopsMidway, Head(queue).src = "core"
    PROVE  IndexInv'
<1>1. /\ NextIs({"core", "val"}) /\ IsNew(Head(queue)) /\ queue' = <<>> /\ proc' = "down"
      /\ UNCHANGED chainVars /\ stops' = stops + 1 /\ faults' = faults
  BY DEF StopsMidway, Dies
<1>2. PICK n \in 1..(Len(Script) - 1) : db' = After(db, SubSeq(Script, 1, n), "core", Head(queue).i)
  BY DEF StopsMidway
<1>3. PICK k, j, s, e, i, more : Turn(k, j, s, e, i, more)
  <2>1. Known("core") < Len(core)
    BY <1>1, HeadIs DEF Log
  <2> QED
    BY <2>1 DEF Turn
<1>4. Serves /\ Head(queue).i = i /\ k < Len(core)
  BY <1>1, <1>3, HeadIs DEF Log, Turn
<1>5. /\ k \in Nat /\ j \in Nat /\ DbShape(db) /\ CoreShape(core, head) /\ Log("core") = core
      /\ k \in 0..Len(core) /\ stops \in Nat /\ faults \in Nat
  BY <1>3, Now DEF Turn
<1>6. e.at \in Nat /\ e.li \in Nat
  <2>1. e \in CoreEvent
    BY <1>3, <1>4, <1>5, NextEvent DEF Turn
  <2> QED
    BY <2>1 DEF CoreEvent
<1>7. Underway(db', db, s, e, i)
  <2>1. Len(Script) \in 1..Len(Script)
    BY ScriptWhole
  <2>2. n \in 1..Len(Script) /\ n < Len(Script)
    BY <2>1
  <2>3. db' = After(db, SubSeq(Script, 1, n), "core", i)
    BY <1>2, <1>4
  <2> QED
    BY <1>1, <1>3, <2>2, <2>3, EventRuns
<1>8. /\ ~Running' /\ proc' \in {"down", "catchup", "live"} /\ faults' \in Nat /\ stops' \in Nat
      /\ stops' = more /\ faults' = faults
  BY <1>1, <1>3, <1>5 DEF Running, Turn
<1>9. CASE Doing(db', db, s, e, i)
  <2>1. /\ Kept(core, val, db', k, j, faults, more)
        /\ DbShape(db') /\ db'.cursor = db.cursor
        /\ db'.lastBlock = db.lastBlock /\ db'.deployment = db.deployment
    BY <1>3, <1>4, <1>9, EventStops
  <2>2. Known("core")' = Known("core") /\ Known("val")' = Known("val")
    BY <1>1, <2>1, KnownKept DEF chainVars
  <2>3. Kept(core, val, db', Known("core")', Known("val")', faults', stops')
    BY <1>3, <1>8, <2>1, <2>2 DEF Turn
  <2>4. db'.lastBlock <= head /\ \A src \in {"core", "val"} : db'.cursor[src].bn <= head
    BY <1>4, <2>1 DEF Serves
  <2> QED
    BY <1>1, <1>4, <1>8, <2>1, <2>3, <2>4, StepKeeps
<1>10. ASSUME NEW x, Done(x, db, s, e, i), db' = SetCursor(x, e, "core")
       PROVE  IndexInv'
  <2>1. /\ Kept(core, val, x, i, j, faults, more)
        /\ DbShape(x) /\ x.cursor = db.cursor /\ x.lastBlock = db.lastBlock /\ x.deployment = db.deployment
    BY <1>3, <1>4, <1>10, EventEnds
  <2>2. Moved(db', x, e, "core")
    BY <1>6, <1>10, <2>1, CursorMoves
  <2>3. /\ i = Known("core") + 1 /\ Known("core") < Len(Log("core")) /\ e = Log("core")[i]
        /\ j = Known("val")
    BY <1>3, <1>4, <1>5 DEF Turn
  <2>4. Kept(core, val, x, i, j, faults', stops')
    BY <1>8, <2>1
  <2>5. /\ Known("core")' = i /\ Known("val")' = j
        /\ DbShape(db') /\ db'.deployment = db.deployment /\ db'.lastBlock <= head
        /\ \A src \in {"core", "val"} : db'.cursor[src].bn <= head
        /\ Kept(core, val, db', i, j, faults', stops')
    BY <1>1, <1>4, <1>8, <2>1, <2>2, <2>3, <2>4, CursorKeeps
  <2> QED
    BY <1>1, <1>4, <1>8, <2>5, StepKeeps
<1> QED
  BY <1>7, <1>9, <1>10 DEF Underway

LEMMA MidwayValOk ==
    ASSUME IndexInv, StopsMidway, Head(queue).src = "val"
    PROVE  IndexInv'
<1>1. /\ NextIs({"core", "val"}) /\ IsNew(Head(queue)) /\ queue' = <<>> /\ proc' = "down"
      /\ UNCHANGED chainVars /\ stops' = stops + 1 /\ faults' = faults
  BY DEF StopsMidway, Dies
<1>2. PICK n \in 1..(Len(Script) - 1) : db' = After(db, SubSeq(Script, 1, n), "val", Head(queue).i)
  BY DEF StopsMidway
<1>3. PICK j, a, i, more, x : AnswerTurn(j, a, i, more, x)
  BY DEF AnswerTurn
<1>4. Serves /\ Head(queue).i = i /\ j < Len(val)
  BY <1>1, <1>3, HeadIs DEF Log, AnswerTurn
<1>5. /\ Known("core") \in Nat /\ j \in Nat /\ i \in Nat /\ stops \in Nat /\ faults \in Nat
  BY <1>3, Now DEF AnswerTurn
<1>6. /\ DbShape(x) /\ x.cursor = db.cursor /\ x.lastBlock = db.lastBlock /\ x.deployment = db.deployment
      /\ Kept(core, val, x, Known("core"), i, faults, more)
      /\ Kept(core, val, x, Known("core"), j, faults, more) /\ a.at \in Nat /\ a.li \in Nat
  BY <1>1, <1>3, AnswerKept
<1>7. db' = x \/ db' = SetCursor(x, a, "val")
  <2>1. PICK h : h = Handler("val", i)
    OBVIOUS
  <2>2. a = Log("val")[i] /\ x = SetValidatorScore(db, a)
    BY <1>3 DEF AnswerTurn, Log
  <2>3. Len(h) = 3 /\ Script = h
    BY <1>4, <2>1, HandlerOfAnswer DEF Script
  <2>4. n \in 1..Len(h) /\ (n = 1 \/ n = 2)
    <3>1. n \in 1..(3 - 1)
      BY <2>3, Zenon
    <3>2. (n = 1 \/ n = 2) /\ n \in 1..3
      BY <3>1
    <3> QED
      BY <2>3, <3>2, Zenon
  <2>5. db' = After(db, SubSeq(h, 1, n), "val", i)
    BY <1>2, <1>4, <2>3
  <2> QED
    BY <2>1, <2>2, <2>4, <2>5, AnswerRuns
<1>8. /\ ~Running' /\ proc' \in {"down", "catchup", "live"} /\ faults' \in Nat /\ stops' \in Nat
      /\ stops' = more /\ faults' = faults
  BY <1>1, <1>3, <1>5 DEF Running, AnswerTurn
<1>9. CASE db' = x
  <2>2. Known("core")' = Known("core") /\ Known("val")' = Known("val")
    BY <1>1, <1>6, <1>9, KnownKept DEF chainVars
  <2>3. Kept(core, val, db', Known("core")', Known("val")', faults', stops')
    BY <1>3, <1>6, <1>8, <1>9, <2>2 DEF AnswerTurn
  <2>4. db'.lastBlock <= head /\ \A src \in {"core", "val"} : db'.cursor[src].bn <= head
    BY <1>4, <1>6, <1>9 DEF Serves
  <2> QED
    BY <1>1, <1>4, <1>6, <1>8, <1>9, <2>3, <2>4, StepKeeps
<1>10. CASE db' = SetCursor(x, a, "val")
  <2>2. Moved(db', x, a, "val")
    BY <1>6, <1>10, CursorMoves
  <2>3. i = Known("val") + 1 /\ Known("val") < Len(Log("val")) /\ a = Log("val")[i]
    BY <1>3, <1>4, <1>5 DEF AnswerTurn, Log
  <2>4. Kept(core, val, x, Known("core"), i, faults', stops')
    BY <1>6, <1>8
  <2>5. /\ Known("core")' = Known("core") /\ Known("val")' = i
        /\ DbShape(db') /\ db'.deployment = db.deployment /\ db'.lastBlock <= head
        /\ \A src \in {"core", "val"} : db'.cursor[src].bn <= head
        /\ Kept(core, val, db', Known("core"), i, faults', stops')
    BY <1>1, <1>4, <1>6, <1>8, <2>2, <2>3, <2>4, CursorKeeps
  <2>6. Kept(core, val, db', Known("core")', Known("val")', faults', stops')
    BY <2>5
  <2> QED
    BY <1>1, <1>4, <1>8, <2>5, <2>6, StepKeeps
<1> QED
  BY <1>7, <1>9, <1>10

LEMMA MidwayOk ==
    ASSUME IndexInv, StopsMidway
    PROVE  IndexInv'
<1>1. Head(queue).src = "core" \/ Head(queue).src = "val"
  BY DEF StopsMidway, NextIs
<1> QED
  BY <1>1, MidwayCoreOk, MidwayValOk

(* The chain moves on.                                                     *)
LEMMA ChainOk ==
    ASSUME IndexInv, ChainStep
    PROVE  IndexInv'
<1>1. /\ CoreShape(core, head) /\ ValShape(core, val, head) /\ DbShape(db) /\ head \in Nat
      /\ Known("core") \in 0..Len(core) /\ Known("val") \in 0..Len(val) /\ stops \in Nat /\ faults \in Nat
  BY Now
<1>2. head \in 0..MaxBlock
  BY DEF IndexInv
<1>3. /\ head' \in 0..MaxBlock /\ head <= head'
      /\ CoreShape(core', head') /\ ValShape(core', val', head')
      /\ Longer(core', core, head) /\ Longer(val', val, head)
      /\ proc # "booting" /\ UNCHANGED <<chains, db, procVars, stops, faults>>
  BY <1>1, <1>2, ChainGrows
<1>4. proc' = proc /\ queue' = queue /\ polled' = polled /\ db' = db /\ chains' = chains
      /\ stops' = stops /\ faults' = faults
  BY <1>3 DEF procVars
<1>5. Serves
  BY <1>3 DEF IndexInv
<1>6. \A src \in {"core", "val"} : db.cursor[src].bn <= head
  BY <1>5 DEF Serves
<1>7. PICK g, r, w : g = head' /\ r = core' /\ w = val'
  OBVIOUS
<1>8. Known("core")' = Known("core") /\ Known("val")' = Known("val")
  BY <1>1, <1>3, <1>4, <1>6, KnownStays
<1>9. /\ CoreShape(r, g) /\ ValShape(r, w, g) /\ Longer(r, core, head) /\ Longer(w, val, head)
  BY <1>3, <1>7
<1>10. Kept(r, w, db, Known("core"), Known("val"), faults, stops)
  <2>1. Kept(core, val, db, Known("core"), Known("val"), faults, stops)
    BY <1>5, NowKept
  <2> QED
    BY <1>1, <1>9, <2>1, KeptGrown
<1>11. Serves'
  <2>1. Kept(core', val', db', Known("core")', Known("val")', faults', stops')
    BY <1>4, <1>7, <1>8, <1>10
  <2>2. db'.deployment = chains' /\ db'.lastBlock <= head'
    <3>1. db.lastBlock \in Nat
      BY <1>1 DEF DbShape
    <3> QED
      BY <1>1, <1>2, <1>3, <1>4, <1>5, <3>1 DEF Serves
  <2>3. \A src \in {"core", "val"} : db'.cursor[src].bn <= head'
    <3>1. \A src \in {"core", "val"} : db.cursor[src].bn \in Nat
      BY <1>1 DEF DbShape, Cursor
    <3> QED
      BY <1>1, <1>2, <1>3, <1>4, <1>6, <3>1
  <2> QED
    BY <2>1, <2>2, <2>3 DEF Serves
<1>12. ASSUME Running PROVE Follows'
  <2>1. Follows
    BY <1>12, NowServes
  <2>2. polled \in 0..head /\ QueueOk(queue, core, val, polled, Known("core"), Known("val"))
    BY <2>1 DEF Follows
  <2>3. QueueOk(queue, r, w, polled, Known("core"), Known("val"))
    BY <1>1, <1>9, <2>2, QueueGrown
  <2>4. polled' \in 0..head'
    BY <1>1, <1>2, <1>3, <1>4, <2>2
  <2> QED
    BY <1>4, <1>7, <1>8, <2>1, <2>3, <2>4 DEF Follows
<1>13. IF Running' THEN Follows' ELSE queue' = <<>>
  BY <1>4, <1>12 DEF IndexInv, Running
<1> QED
  BY <1>3, <1>4, <1>11, <1>13 DEF IndexInv

\* Before anything has happened.
LEMMA EmptyChain ==
    /\ CoreShape(<<>>, 0) /\ ValShape(<<>>, <<>>, 0)
<1>1. \A t \in Tasks : Told(<<>>, t)
  <2> TAKE t \in Tasks
  <2>1. Events(<<>>, t) = {}
    BY DEF Events
  <2>2. StateOn(<<>>, t) = "none" /\ ~Taken(<<>>, t)
    BY <2>1 DEF StateOn, Taken
  <2> QED
    BY <2>1, <2>2 DEF Told
<1>2. \A k \in 0..Len(<<>>) : SubSeq(<<>>, 1, k) = <<>>
  OBVIOUS
<1>3. CoreShape(<<>>, 0)
  <2>1. <<>> \in Seq(CoreEvent) /\ DOMAIN <<>> = {} /\ 1..Len(<<>>) = {}
    OBVIOUS
  <2> QED
    BY <1>1, <1>2, <2>1 DEF CoreShape, Sorted
<1>4. ValShape(<<>>, <<>>, 0)
  <2>1. <<>> \in Seq(ValEvent) /\ DOMAIN <<>> = {}
    OBVIOUS
  <2> QED
    BY <2>1 DEF ValShape, Sorted
<1> QED
  BY <1>3, <1>4

LEMMA FreshOk ==
    ASSUME IndexInv, FreshChain
    PROVE  IndexInv'
<1>1. /\ proc = "down" /\ proc' = "booting" /\ chains < MaxChains /\ chains' = chains + 1
      /\ core' = <<>> /\ val' = <<>> /\ head' = 0 /\ db' = db /\ queue' = queue
      /\ stops' = stops /\ faults' = faults
  BY DEF FreshChain
<1>2. /\ chains \in 0..MaxChains /\ stops \in Nat /\ faults \in Nat /\ DbShape(db)
      /\ \A src \in {"core", "val"} : db.cursor[src].bn <= MaxBlock
      /\ db.deployment \in 0..chains /\ queue = <<>>
  BY <1>1 DEF IndexInv, Running
<1>3. chains' \in 0..MaxChains /\ db'.deployment \in 0..chains' /\ db'.deployment # chains'
  BY <1>1, <1>2, IndexAssumption
<1>4. CoreShape(core', head') /\ ValShape(core', val', head')
  BY <1>1, EmptyChain
<1>5. head' \in 0..MaxBlock
  BY <1>1, IndexAssumption
<1>6. ~Running'
  BY <1>1 DEF Running
<1>7. DbShape(db') /\ \A src \in {"core", "val"} : db'.cursor[src].bn <= MaxBlock
  BY <1>1, <1>2
<1> QED
  BY <1>1, <1>2, <1>3, <1>4, <1>5, <1>6, <1>7 DEF IndexInv

(* The tables before anything is applied.                                  *)
LEMMA EmptySum == ASSUME NEW f, DOMAIN f = {} PROVE SumFunction(f) = 0
<1> DEFINE g == [s \in {{}} |-> 0]
<1>1. \A h : h = [s \in SUBSET {} |-> IF s = {} THEN 0 ELSE LET x == CHOOSE x \in s : TRUE IN f[x] + h[s \ {x}]] => h[{}] = 0
  OBVIOUS
<1>2. g = [s \in SUBSET {} |-> IF s = {} THEN 0 ELSE LET x == CHOOSE x \in s : TRUE IN f[x] + g[s \ {x}]]
  OBVIOUS
<1> HIDE DEF g
<1> QED
  BY <1>1, <1>2 DEF SumFunction, SumFunctionOnSet, FoldFunctionOnSet, MapThenFoldSet

LEMMA NothingScored ==
    ASSUME NEW rows, DOMAIN rows = {}
    PROVE  TrustCore(rows) = NoTrust
<1> DEFINE failed == {r \in DOMAIN rows : rows[r].outcome = "No"}
           p(r) == IF rows[r].p = NULL THEN 10000 ELSE rows[r].p
           miss(r) == IF r \in failed THEN p(r) ELSE 10000 - p(r)
           misses == [r \in DOMAIN rows |-> miss(r) * miss(r)]
           stakes == [r \in DOMAIN rows |-> rows[r].stake]
           lost == [r \in failed |-> rows[r].stake]
<1>1. failed = {} /\ DOMAIN rows \ failed = {}
  OBVIOUS
<1>2. SumFunction(misses) = 0 /\ SumFunction(stakes) = 0 /\ SumFunction(lost) = 0
  <2>1. DOMAIN misses = {} /\ DOMAIN stakes = {} /\ DOMAIN lost = {}
    OBVIOUS
  <2> HIDE DEF misses, stakes, lost
  <2> QED
    BY <2>1, EmptySum
<1>3. TrustCore(rows) = [n |-> Cardinality(DOMAIN rows), wins |-> Cardinality(DOMAIN rows \ failed),
                         brier |-> SumFunction(misses), staked |-> SumFunction(stakes),
                         forfeited |-> SumFunction(lost)]
  BY DEF TrustCore
<1> HIDE DEF failed, misses, stakes, lost
<1>4. Cardinality(DOMAIN rows) = 0 /\ Cardinality(DOMAIN rows \ failed) = 0
  BY <1>1, FS_EmptySet
<1> QED
  BY <1>2, <1>3, <1>4 DEF NoTrust

LEMMA EmptyTables ==
    ASSUME NEW d, d = EmptyDb, Fingerprint \in Nat, NEW lost \in Nat, NEW doubled \in Nat
    PROVE  /\ DbShape(d) /\ d.cursor.core.bn = 0 /\ d.cursor.val.bn = 0 /\ d.lastBlock = 0
           /\ d.deployment = Fingerprint
           /\ Kept(<<>>, <<>>, d, 0, 0, lost, doubled)
<1>1. /\ d.tasks = [t \in Tasks |-> NoRow] /\ d.bets = <<>> /\ d.odds = [t \in Tasks |-> <<>>]
      /\ d.trust = [w \in Workers |-> NoTrust] /\ d.reqhash = {}
      /\ d.cursor = [core |-> NoCursor, val |-> NoCursor] /\ d.lastBlock = 0
      /\ d.deployment = Fingerprint
      /\ d = [tasks |-> d.tasks, bets |-> d.bets, odds |-> d.odds, trust |-> d.trust,
              reqhash |-> d.reqhash, cursor |-> d.cursor, lastBlock |-> d.lastBlock,
              deployment |-> d.deployment]
  BY DEF EmptyDb
<1>2. d.cursor \in [core : Cursor, val : Cursor] /\ d.cursor.core.bn = 0 /\ d.cursor.val.bn = 0
  BY <1>1 DEF Cursor, NoCursor
<1>3. DbShape(d)
  <2>1. d.tasks \in [Tasks -> TaskRow \cup {NoRow}] /\ d.odds \in [Tasks -> Seq(Point)]
    BY <1>1
  <2>2. d.bets \in Seq(Nat) /\ d.trust = [w \in Workers |-> d.trust[w]] /\ d.reqhash \in SUBSET Tasks
    BY <1>1
  <2> QED
    BY <1>1, <1>2, <2>1, <2>2 DEF DbShape
<1>4. \A t \in Tasks : d.tasks[t] = NoRow /\ d.odds[t] = <<>> /\ NoRow.state = "none"
  BY <1>1 DEF NoRow
<1>5. RowsOk(<<>>, d, 0, doubled > 0)
  <2>1. SubSeq(<<>>, 1, 0) = <<>>
    OBVIOUS
  <2>2. ASSUME NEW t \in Tasks PROVE RowIs(d.tasks[t], d.odds[t], <<>>, t)
    <3>1. Events(<<>>, t) = {}
      BY DEF Events
    <3>2. StateOn(<<>>, t) = "none" /\ ~Taken(<<>>, t) /\ ~Over(<<>>, t)
      BY <3>1 DEF StateOn, Taken, Over
    <3> QED
      BY <1>4, <3>2 DEF RowIs
  <2> QED
    BY <2>1, <2>2 DEF RowsOk
<1>6. TrustOk(<<>>, d, 0, doubled > 0)
  <2>1. ASSUME NEW w \in Workers PROVE d.trust[w] = TrustCore(SettledInputsFor(d, w))
    <3>1. SettledForWorker(d, w) = {}
      BY <1>4 DEF SettledForWorker
    <3>2. DOMAIN SettledInputsFor(d, w) = {}
      BY <3>1 DEF SettledInputsFor
    <3>3. TrustCore(SettledInputsFor(d, w)) = NoTrust
      BY <3>2, NothingScored
    <3> QED
      BY <1>1, <3>3
  <2> QED
    BY <2>1 DEF TrustOk
<1>7. 1..0 = {}
  OBVIOUS
<1>8. TablesOk(<<>>, <<>>, d, 0, 0, doubled > 0)
  <2>1. HashesOk(<<>>, d, 0) /\ AnswersOk(<<>>, d, 0)
    BY <1>7 DEF HashesOk, AnswersOk
  <2>2. DecidedOk(<<>>, d)
    BY <1>4 DEF DecidedOk
  <2> QED
    BY <1>5, <1>6, <2>1, <2>2 DEF TablesOk
<1>9. AnsweredInOrder(<<>>, <<>>, 0, 0)
  BY <1>7 DEF AnsweredInOrder
<1>10. BetsOk(<<>>, d.bets, 0, lost, doubled)
  <2>1. ToSet(d.bets) = {} /\ BetsIn(<<>>) = {} /\ Len(d.bets) = 0
    BY <1>1 DEF ToSet, BetsIn
  <2>2. (BetsIn(<<>>) \cap (1..0)) \ ToSet(d.bets) = {} /\ Cardinality({}) = 0
    BY <2>1, FS_EmptySet
  <2>3. 0 <= lost /\ 0 + 0 <= 0 + doubled
    OBVIOUS
  <2> QED
    BY <2>1, <2>2, <2>3 DEF BetsOk
<1> QED
  BY <1>1, <1>2, <1>3, <1>8, <1>9, <1>10 DEF Kept

(* The scan of a boot.                                                     *)
LEMMA ScanIsQueue ==
    ASSUME NEW h \in Nat, CoreShape(core, h), ValShape(core, val, h)
    PROVE  Scan(0, h) \in Seq(QueueItem)
<1> DEFINE a == GetLogs("core", 0, h)
           b == GetLogs("val", 0, h)
<1>1. /\ core \in Seq(CoreEvent) /\ val \in Seq(ValEvent) /\ Timed(core) /\ Timed(val)
      /\ Log("core") = core /\ Log("val") = val
  BY LogsTimed DEF Log
<1>2. PICK p \in Int : p = -1
  OBVIOUS
<1>3. PICK from : from = 0
  OBVIOUS
<1>4. p <= h /\ from - 1 = p
  BY <1>2, <1>3
<1>5. PICK x, y : x = GetLogs("core", from, h) /\ y = GetLogs("val", from, h)
  OBVIOUS
<1>6. x \in Seq(QueueItem) /\ y \in Seq(QueueItem)
  BY <1>1, <1>4, <1>5, LogsGot
<1>7. <<Item("head", h)>> \in Seq(QueueItem)
  BY DEF Item, QueueItem
<1> QED
  BY <1>3, <1>5, <1>6, <1>7 DEF Scan

LEMMA Rescanned ==
    ASSUME NEW h \in Nat, CoreShape(core, h), ValShape(core, val, h), NEW k, NEW j,
           NEW r, r = Scan(0, h)
    PROVE  QueueOk(r, core, val, h, k, j) /\ r # <<>> /\ Last(r) = Item("head", h)
<1>1. PICK q, from, p : q = <<>> /\ from = 0 /\ p = -1
  OBVIOUS
<1>2. p \in Int /\ p <= h /\ from - 1 = p
  BY <1>1
<1>3. r = q \o Scan(from, h)
  <2>1. r \in Seq(QueueItem)
    BY ScanIsQueue
  <2> QED
    BY <1>1, <2>1, ConcatEmptySeq
<1>4. QueueOk(q, core, val, p, k, j)
  <2>1. q \in Seq(QueueItem) /\ DOMAIN q = {}
    BY <1>1
  <2>2. \A i \in DOMAIN core : ~(core[i].at <= p)
    <3>1. \A i \in DOMAIN core : core[i].at \in 1..h
      BY DEF CoreShape
    <3> QED
      BY <1>1, <3>1
  <2>3. \A i \in DOMAIN val : ~(val[i].at <= p)
    <3>1. \A i \in DOMAIN val : val[i].at \in 1..h
      BY DEF ValShape
    <3> QED
      BY <1>1, <3>1
  <2>4. Fits(q, core, "core", p, k) /\ Fits(q, val, "val", p, j)
    BY <2>1, <2>2, <2>3 DEF Fits
  <2>5. AfterCore(q, core, val, k)
    BY <2>1 DEF AfterCore
  <2> QED
    BY <2>1, <2>4, <2>5 DEF QueueOk
<1> QED
  BY <1>2, <1>3, <1>4, Enqueued

LEMMA NothingKnown ==
    ASSUME core' = <<>>, val' = <<>>
    PROVE  Known("core")' = 0 /\ Known("val")' = 0
<1>1. \A cursor : Count(<<>>, cursor) = 0
  <2>1. \A cursor : Past(<<>>, cursor) = {}
    BY DEF Past
  <2> QED
    BY <2>1, FS_EmptySet DEF Count
<1> QED
  BY <1>1, KnownThen

LEMMA OwnFingerprint ==
    ASSUME AddressesDiffer, chains \in 0..MaxChains
    PROVE  Fingerprint = chains
<1> QED
  BY DEF AddressesDiffer, Fingerprint

(* The tables of another chain are dropped, and this chain's are kept.     *)
LEMMA BootsOk ==
    ASSUME AddressesDiffer, IndexInv, Boots
    PROVE  IndexInv'
<1>1. /\ proc \in {"down", "booting"} /\ proc' = "catchup" /\ polled' = head
      /\ queue' = Scan(0, head) /\ db' = ResetIfDeploymentChanged(db)
      /\ UNCHANGED chainVars /\ stops' = stops /\ faults' = faults
  BY DEF Boots
<1>2. /\ CoreShape(core, head) /\ ValShape(core, val, head) /\ DbShape(db) /\ head \in Nat
      /\ stops \in Nat /\ faults \in Nat
  BY Now
<1>3. /\ head \in 0..MaxBlock /\ chains \in 0..MaxChains /\ db.deployment \in 0..chains
      /\ \A src \in {"core", "val"} : db.cursor[src].bn <= MaxBlock
  BY DEF IndexInv
<1>4. core' = core /\ val' = val /\ head' = head /\ chains' = chains
  BY <1>1 DEF chainVars
<1>5. Fingerprint = chains /\ chains \in Nat
  BY <1>3, OwnFingerprint
<1>6. /\ DbShape(db') /\ db'.deployment = chains /\ db'.lastBlock <= head
      /\ \A src \in {"core", "val"} : db'.cursor[src].bn <= head
      /\ Kept(core, val, db', Known("core")', Known("val")', faults, stops)
  <2>1. CASE proc = "down"
    <3>1. Serves
      BY <2>1 DEF IndexInv
    <3>2. db' = db
      BY <1>1, <1>5, <3>1 DEF Serves, ResetIfDeploymentChanged
    <3>3. Known("core")' = Known("core") /\ Known("val")' = Known("val")
      BY <1>4, <3>2, KnownKept
    <3>4. Kept(core, val, db, Known("core"), Known("val"), faults, stops)
      BY <3>1, NowKept
    <3> QED
      BY <1>2, <3>1, <3>2, <3>3, <3>4 DEF Serves
  <2>2. CASE proc = "booting"
    <3>1. db.deployment # chains /\ core = <<>> /\ val = <<>>
      BY <2>2 DEF IndexInv
    <3>2. db' = EmptyDb
      BY <1>1, <1>5, <3>1 DEF ResetIfDeploymentChanged
    <3>3. /\ DbShape(db') /\ db'.cursor.core.bn = 0 /\ db'.cursor.val.bn = 0 /\ db'.lastBlock = 0
          /\ db'.deployment = Fingerprint /\ Kept(<<>>, <<>>, db', 0, 0, faults, stops)
      BY <1>2, <1>5, <3>2, EmptyTables
    <3>4. Known("core")' = 0 /\ Known("val")' = 0
      BY <1>4, <3>1, NothingKnown
    <3>5. \A src \in {"core", "val"} : db'.cursor[src].bn <= head
      <4>1. \A src \in {"core", "val"} : db'.cursor[src].bn = 0
        BY <3>3
      <4> QED
        BY <1>2, <4>1
    <3> QED
      BY <1>2, <1>5, <3>1, <3>3, <3>4, <3>5
  <2> QED
    BY <1>1, <2>1, <2>2
<1>7. Serves'
  BY <1>1, <1>4, <1>6 DEF Serves
<1>8. Running' /\ Follows'
  <2>1. PICK k, j, r : k = Known("core")' /\ j = Known("val")' /\ r = Scan(0, head)
    OBVIOUS
  <2>2. QueueOk(r, core, val, head, k, j) /\ r # <<>> /\ Last(r) = Item("head", head)
    BY <1>2, <2>1, Rescanned
  <2>3. head \in 0..head
    BY <1>2
  <2> QED
    BY <1>1, <1>4, <2>1, <2>2, <2>3 DEF Follows, Running
<1>9. \A src \in {"core", "val"} : db'.cursor[src].bn <= MaxBlock
  <2>1. \A src \in {"core", "val"} : db'.cursor[src].bn \in Nat
    BY <1>6 DEF DbShape, Cursor
  <2> QED
    BY <1>3, <1>6, <2>1, IndexAssumption
<1>10. db'.deployment \in 0..chains'
  BY <1>4, <1>5, <1>6
<1> QED
  BY <1>1, <1>2, <1>3, <1>4, <1>6, <1>7, <1>8, <1>9, <1>10 DEF IndexInv

LEMMA StartsOk ==
    ASSUME AddressesDiffer, Init
    PROVE  IndexInv
<1>1. /\ core = <<>> /\ val = <<>> /\ head = 0 /\ chains = 0 /\ db = EmptyDb
      /\ proc = "down" /\ queue = <<>> /\ stops = 0 /\ faults = 0
  BY DEF Init
<1>2. head \in 0..MaxBlock /\ chains \in 0..MaxChains /\ stops \in Nat /\ faults \in Nat
  BY <1>1, IndexAssumption
<1>3. Fingerprint = 0
  BY <1>1, <1>2, OwnFingerprint
<1>4. /\ DbShape(db) /\ db.cursor.core.bn = 0 /\ db.cursor.val.bn = 0 /\ db.lastBlock = 0
      /\ db.deployment = 0 /\ Kept(<<>>, <<>>, db, 0, 0, faults, stops)
  BY <1>1, <1>2, <1>3, EmptyTables
<1>5. Known("core") = 0 /\ Known("val") = 0
  <2>1. Log("core") = <<>> /\ Log("val") = <<>>
    BY <1>1 DEF Log
  <2> QED
    BY <2>1, FS_EmptySet DEF Known
<1>6. \A src \in {"core", "val"} : db.cursor[src].bn = 0
  BY <1>4
<1>7. Serves
  BY <1>1, <1>4, <1>5, <1>6 DEF Serves
<1>8. CoreShape(core, head) /\ ValShape(core, val, head)
  BY <1>1, EmptyChain
<1>9. ~Running
  BY <1>1 DEF Running
<1>10. \A src \in {"core", "val"} : db.cursor[src].bn <= MaxBlock
  BY <1>6, IndexAssumption
<1> QED
  BY <1>1, <1>2, <1>4, <1>7, <1>8, <1>9, <1>10 DEF IndexInv

LEMMA StaysOk ==
    ASSUME IndexInv, UNCHANGED vars
    PROVE  IndexInv'
<1>1. /\ core' = core /\ val' = val /\ head' = head /\ chains' = chains /\ db' = db
      /\ proc' = proc /\ polled' = polled /\ queue' = queue /\ stops' = stops /\ faults' = faults
  BY DEF vars, chainVars, procVars
<1>2. Known("core")' = Known("core") /\ Known("val")' = Known("val")
  BY <1>1, KnownKept
<1>3. Serves' <=> Serves
  BY <1>1, <1>2 DEF Serves
<1>4. (Follows' <=> Follows) /\ (Running' <=> Running)
  BY <1>1, <1>2 DEF Follows, Running
<1> QED
  BY <1>1, <1>3, <1>4 DEF IndexInv

LEMMA NextOk ==
    ASSUME AddressesDiffer, IndexInv, [Next]_vars
    PROVE  IndexInv'
<1>1. \/ ChainStep \/ FreshChain \/ Boots \/ Listens \/ Polls \/ Skips \/ Handles \/ NotesHead
      \/ HandlerFails \/ Stops \/ StopsMidway \/ UNCHANGED vars
  BY DEF Next, IndexerStep
<1> QED
  BY <1>1, ChainOk, FreshOk, BootsOk, ListensOk, PollsOk, SkipsOk, HandlesOk, NotesOk,
     FailsOk, StopsOk, MidwayOk, StaysOk

(* The invariant holds for every number of tasks, workers, blocks, bets,   *)
(* stops and failures, whatever the stakes and the scores.                 *)
THEOREM IndexInvariant ==
    ASSUME AddressesDiffer
    PROVE  Spec => []IndexInv
<1>1. Init => IndexInv
  BY StartsOk
<1>2. IndexInv /\ [Next]_vars => IndexInv'
  BY NextOk
<1> QED
  BY <1>1, <1>2, PTL DEF Spec

(* The tables of a running server.  What a stop has left in part is one of *)
(* the events still queued: as long as there is none behind, the tables    *)
(* are whole.                                                              *)
Ahead == Known("core") < Len(core) /\ core[Known("core") + 1].at <= polled
NoneBeyond == \A n \in DOMAIN core : n <= Known("core") => core[n].at <= polled
Complete == TablesOk(core, val, db, Known("core"), Known("val"), FALSE)
Whole == Running => NoneBeyond /\ (faults = 0 => Ahead \/ Complete)

LEMMA WholeKept ==
    ASSUME IndexInv, Whole, Running, UNCHANGED chainVars, Known("core")' = Known("core"),
           polled <= polled', polled' \in Nat, polled \in Nat, faults' = faults,
           Complete => TablesOk(core, val, db', Known("core"), Known("val")', FALSE)
    PROVE  Whole'
<1>1. core' = core /\ val' = val
  BY DEF chainVars
<1>2. /\ Known("core") \in 0..Len(core) /\ DOMAIN core = 1..Len(core) /\ Len(core) \in Nat
      /\ \A n \in DOMAIN core : core[n].at \in Nat
  BY Now DEF CoreShape
<1>3. NoneBeyond'
  BY <1>1, <1>2 DEF Whole, NoneBeyond
<1>4. Ahead => Ahead'
  BY <1>1, <1>2 DEF Ahead
<1>5. Complete => Complete'
  BY <1>1 DEF Complete
<1> QED
  BY <1>3, <1>4, <1>5 DEF Whole

(* The next event, and one whose handler failed and that is passed over.   *)
LEMMA NextScanned ==
    ASSUME IndexInv, NextIs({"core", "val"}), IsNew(Head(queue)), Head(queue).src = "core",
           NEW k, NEW j, NEW s, NEW e, NEW i, NEW more, Turn(k, j, s, e, i, more)
    PROVE  Head(queue).i = i /\ core[i].at <= polled
<1>1. Head(queue).i = i /\ Follows /\ queue # <<>>
  BY HeadIs DEF Turn, Log
<1>2. queue \in Seq(QueueItem) /\ Fits(queue, core, "core", polled, Known("core"))
  BY <1>1 DEF Follows, QueueOk
<1>3. Head(queue) = queue[1] /\ 1 \in DOMAIN queue
  BY <1>1, <1>2, HeadAndTail
<1> QED
  BY <1>1, <1>2, <1>3 DEF Fits

LEMMA PassedOver ==
    ASSUME IndexInv, NextIs({"core", "val"}), IsNew(Head(queue)), Head(queue).src = "core",
           db' = After(db, Advance, "core", Head(queue).i), UNCHANGED chainVars,
           NEW k, NEW j, NEW s, NEW e, NEW i, NEW more, Turn(k, j, s, e, i, more)
    PROVE  Known("core")' = k + 1 /\ k + 1 \in DOMAIN core /\ core[k + 1].at <= polled
<1>1. Head(queue).i = i /\ core[i].at <= polled
  BY NextScanned
<1>2. /\ k \in 0..Len(core) /\ k < Len(core) /\ Len(core) \in Nat /\ DOMAIN core = 1..Len(core)
      /\ e = core[i] /\ i = k + 1 /\ Log("core") = core
      /\ CoreShape(core, head) /\ ValShape(core, val, head) /\ DbShape(db)
  BY Now DEF Turn
<1>3. e.at \in Nat /\ e.li \in Nat
  <2>1. e \in CoreEvent
    BY <1>2, NextEvent
  <2> QED
    BY <2>1 DEF CoreEvent
<1>4. db' = SetLastBlock(SetCursor(db, e, "core"), e)
  BY <1>1, <1>2, JustAdvances
<1>5. Moved(db', db, e, "core")
  BY <1>2, <1>3, <1>4, CursorMoves
<1>6. core' = core /\ val' = val /\ i \in 1..Len(Log("core"))
  BY <1>2 DEF chainVars
<1>7. Known("core")' = i
  BY <1>2, <1>5, <1>6, KnownMoves DEF Moved
<1> QED
  BY <1>1, <1>2, <1>7

(* A whole handler repairs what a stop has left of its event.              *)
LEMMA WholeEvent ==
    ASSUME IndexInv, Whole, Handles, Head(queue).src = "core"
    PROVE  Whole'
<1>1. /\ NextIs({"core", "val"}) /\ IsNew(Head(queue)) /\ UNCHANGED chainVars
      /\ polled' = polled /\ faults' = faults
  BY DEF Handles, Runs
<1>2. PICK k, j, s, e, i, more : Turn(k, j, s, e, i, more)
  BY <1>1, TurnNow
<1>3. PICK x : /\ Known("core")' = i /\ Known("val")' = j /\ Head(queue).i = i
               /\ Done(x, db, s, e, i) /\ SameTables(db', x)
  BY <1>2, EventHandled
<1>4. /\ CoreShape(core, head) /\ ValShape(core, val, head) /\ k \in 0..Len(core) /\ k < Len(core)
      /\ j \in 0..Len(val) /\ s = SubSeq(core, 1, k) /\ e = core[k + 1] /\ i = k + 1
      /\ DOMAIN core = 1..Len(core) /\ k = Known("core") /\ j = Known("val")
  BY <1>2, Now DEF Turn
<1>5. Running /\ Follows /\ queue # <<>> /\ Serves
  BY <1>1, HeadIs
<1>6. core' = core /\ val' = val
  BY <1>1 DEF chainVars
<1>7. core[i].at <= polled
  BY <1>1, <1>2, NextScanned
<1>8. NoneBeyond'
  <2>1. \A n \in DOMAIN core : n <= i => n <= k \/ n = i
    BY <1>4
  <2>2. \A n \in DOMAIN core : n <= k => core[n].at <= polled
    BY <1>4, <1>5 DEF Whole, NoneBeyond
  <2> QED
    BY <1>1, <1>3, <1>6, <1>7, <2>1, <2>2 DEF NoneBeyond
<1>9. ASSUME faults = 0 PROVE Complete'
  <2>1. Kept(core, val, db, k, j, faults, stops)
    BY <1>4, <1>5, NowKept
  <2>2. PICK torn : AnsweredInOrder(core, val, k, j) /\ TablesOk(core, val, db, k, j, torn)
    BY <1>9, <2>1 DEF Kept
  <2>3. TablesOk(core, val, x, i, j, FALSE)
    BY <1>3, <1>4, <2>2, TablesDone
  <2>4. TablesOk(core, val, db', i, j, FALSE)
    BY <1>3, <2>3, SameTablesOk
  <2> QED
    BY <1>3, <1>6, <2>4 DEF Complete
<1> QED
  BY <1>1, <1>8, <1>9 DEF Whole

LEMMA WholeAnswer ==
    ASSUME IndexInv, Whole, Handles, Head(queue).src = "val"
    PROVE  Whole'
<1>1. /\ NextIs({"core", "val"}) /\ IsNew(Head(queue)) /\ UNCHANGED chainVars
      /\ polled' = polled /\ faults' = faults
  BY DEF Handles, Runs
<1>2. PICK j, a, i, more, x : AnswerTurn(j, a, i, more, x)
  BY DEF AnswerTurn
<1>3. /\ Known("core")' = Known("core") /\ Known("val")' = i /\ SameTables(db', x) /\ j < Len(val)
  BY <1>2, AnswerHandled
<1>4. /\ CoreShape(core, head) /\ ValShape(core, val, head) /\ Known("core") \in 0..Len(core)
      /\ j \in 0..Len(val) /\ DbShape(db) /\ head \in Nat
  BY <1>2, Now DEF AnswerTurn
<1>5. j = Known("val") /\ a = val[j + 1] /\ i = j + 1 /\ x = SetValidatorScore(db, a)
  BY <1>2 DEF AnswerTurn
<1>6. Running /\ polled \in 0..head
  BY <1>1, HeadIs DEF Follows
<1>7. Complete => TablesOk(core, val, db', Known("core"), Known("val")', FALSE)
  <2> HAVE Complete
  <2>1. TablesOk(core, val, db, Known("core"), j, FALSE)
    BY <1>5 DEF Complete
  <2>2. PICK k \in 0..Len(core) : k = Known("core")
    BY <1>4
  <2>3. Due(core, a, k)
    BY <1>1, <1>2, <2>2, AnswerIsTurn
  <2>4. PICK n \in Events(core, a.task) :
            n <= k /\ core[n].name \in {"DeliverySubmitted", "OutcomeResolved"}
    BY <1>3, <1>4, <1>5, <2>3, AboutApplied
  <2>5. TablesOk(core, val, x, k, i, FALSE)
    BY <1>3, <1>4, <1>5, <2>1, <2>2, <2>4, TablesScored
  <2>6. TablesOk(core, val, db', k, i, FALSE)
    BY <1>3, <2>5, SameTablesOk
  <2> QED
    BY <1>3, <2>2, <2>6
<1>8. polled <= polled' /\ polled \in Nat /\ polled' \in Nat
  BY <1>1, <1>4, <1>6
<1> QED
  BY <1>1, <1>3, <1>6, <1>7, <1>8, WholeKept

(* Steps that change no table, or one block number.                        *)
LEMMA WholeStays ==
    ASSUME IndexInv, Whole, Running, UNCHANGED chainVars, SameTables(db', db),
           db'.cursor = db.cursor, polled' = polled \/ polled' = head, faults' = faults
    PROVE  Whole'
<1>1. core' = core /\ val' = val
  BY DEF chainVars
<1>2. Known("core")' = Known("core") /\ Known("val")' = Known("val")
  BY <1>1, KnownKept
<1>3. head \in Nat /\ polled \in 0..head
  BY Now, NowServes DEF Follows
<1>4. polled <= polled' /\ polled \in Nat /\ polled' \in Nat
  BY <1>3
<1>5. Complete => TablesOk(core, val, db', Known("core"), Known("val")', FALSE)
  BY <1>2, SameTablesOk DEF Complete
<1> QED
  BY <1>2, <1>4, <1>5, WholeKept

(* The chain grows after the last block scanned.                           *)
LEMMA WholeGrown ==
    ASSUME IndexInv, Whole, Running, ChainStep
    PROVE  Whole'
<1>1. /\ CoreShape(core, head) /\ ValShape(core, val, head) /\ DbShape(db) /\ head \in Nat
      /\ Known("core") \in 0..Len(core) /\ Known("val") \in 0..Len(val)
      /\ DOMAIN core = 1..Len(core) /\ Len(core) \in Nat
  BY Now
<1>2. head \in 0..MaxBlock
  BY DEF IndexInv
<1>3. /\ CoreShape(core', head') /\ ValShape(core', val', head')
      /\ Longer(core', core, head) /\ Longer(val', val, head)
      /\ UNCHANGED <<chains, db, procVars, stops, faults>>
  BY <1>1, <1>2, ChainGrows
<1>4. proc' = proc /\ polled' = polled /\ db' = db /\ faults' = faults
  BY <1>3 DEF procVars
<1>5. \A src \in {"core", "val"} : db.cursor[src].bn <= head
  BY NowServes DEF Serves
<1>6. Known("core")' = Known("core") /\ Known("val")' = Known("val")
  BY <1>1, <1>3, <1>4, <1>5, KnownStays
<1>7. PICK g, r, w : g = head' /\ r = core' /\ w = val'
  OBVIOUS
<1>8. r \in Seq(CoreEvent) /\ Len(core) <= Len(r) /\ Len(r) \in Nat /\ \A n \in 1..Len(core) : r[n] = core[n]
  BY <1>3, <1>7 DEF CoreShape, Longer
<1>9. NoneBeyond'
  <2>1. \A n \in DOMAIN r : n <= Known("core") => n \in DOMAIN core /\ r[n] = core[n]
    BY <1>1, <1>8
  <2> QED
    BY <1>4, <1>6, <1>7, <2>1 DEF Whole, NoneBeyond
<1>10. Ahead => Ahead'
  <2> HAVE Ahead
  <2>1. Known("core") < Len(r) /\ r[Known("core") + 1] = core[Known("core") + 1]
    BY <1>1, <1>8 DEF Ahead
  <2> QED
    BY <1>4, <1>6, <1>7, <2>1 DEF Ahead
<1>11. Complete => Complete'
  <2> HAVE Complete
  <2>1. CoreShape(r, g) /\ ValShape(r, w, g) /\ Longer(r, core, head) /\ Longer(w, val, head)
    BY <1>3, <1>7
  <2>2. TablesOk(r, w, db, Known("core"), Known("val"), FALSE)
    BY <1>1, <2>1, TablesGrown DEF Complete
  <2> QED
    BY <1>4, <1>6, <1>7, <2>2 DEF Complete
<1> QED
  BY <1>4, <1>9, <1>10, <1>11 DEF Whole, Running

(* A boot scans every block there is: what a stop has left is queued.      *)
LEMMA WholeBoot ==
    ASSUME AddressesDiffer, IndexInv, Boots
    PROVE  Whole'
<1>1. IndexInv'
  BY BootsOk
<1>2. proc' = "catchup" /\ polled' = head /\ UNCHANGED chainVars
  BY DEF Boots
<1>3. core' = core /\ val' = val /\ head' = head
  BY <1>2 DEF chainVars
<1>4. PICK k, j, d, l, n : /\ k = Known("core")' /\ j = Known("val")' /\ d = db'
                           /\ l = faults' /\ n = stops'
  OBVIOUS
<1>5. Kept(core, val, d, k, j, l, n)
  BY <1>1, <1>2, <1>3, <1>4 DEF IndexInv, Serves
<1>6. k \in 0..Len(core)
  <2>1. k = Count(core, d.cursor["core"])
    BY <1>3, <1>4, KnownThen
  <2>2. core \in Seq(CoreEvent) /\ Timed(core)
    BY Now, LogsTimed
  <2>3. DbShape(d)
    BY <1>1, <1>4 DEF IndexInv
  <2>4. d.cursor["core"].bn \in Nat /\ d.cursor["core"].li \in Nat
    BY <2>3 DEF DbShape, Cursor
  <2> QED
    BY <2>1, <2>2, <2>4, PastIs
<1>7. CoreShape(core, head) /\ DOMAIN core = 1..Len(core) /\ head \in Nat /\ Len(core) \in Nat
  BY Now
<1>8. \A m \in DOMAIN core : core[m].at <= head
  BY <1>7 DEF CoreShape
<1>9. NoneBeyond'
  BY <1>2, <1>3, <1>8 DEF NoneBeyond
<1>10. l = 0 => k < Len(core) \/ TablesOk(core, val, d, k, j, FALSE)
  <2> HAVE l = 0
  <2>1. TablesOk(core, val, d, k, j, n > 0)
    BY <1>5 DEF Kept
  <2> QED
    BY <2>1 DEF TablesOk, RowsOk, TrustOk
<1>11. k < Len(core) => Ahead'
  <2>1. k < Len(core) => k + 1 \in DOMAIN core
    BY <1>6, <1>7
  <2> QED
    BY <1>2, <1>3, <1>4, <1>8, <2>1 DEF Ahead
<1>12. TablesOk(core, val, d, k, j, FALSE) => Complete'
  BY <1>3, <1>4 DEF Complete
<1> QED
  BY <1>4, <1>9, <1>10, <1>11, <1>12 DEF Whole

LEMMA WholeNext ==
    ASSUME AddressesDiffer, IndexInv, Whole, [Next]_vars
    PROVE  Whole'
<1>1. CASE ~Running'
  BY <1>1 DEF Whole
<1>2. CASE Boots
  BY <1>2, WholeBoot
<1>3. ASSUME Running', ~Boots PROVE Running
  BY <1>3 DEF Next, IndexerStep, ChainStep, Creates, Accepts, Bets, Delivers, Resolves, Cancels,
     Answers, EmptyBlock, Emits, procVars, FreshChain, Listens, Polls, Skips, Handles, NotesHead,
     HandlerFails, Runs, Stops, StopsMidway, Dies, Running, vars
<1>4. CASE Running /\ ChainStep
  BY <1>4, WholeGrown
<1>5. CASE Running /\ Handles
  <2>1. Head(queue).src = "core" \/ Head(queue).src = "val"
    BY <1>5 DEF Handles, NextIs
  <2> QED
    BY <1>5, <2>1, WholeEvent, WholeAnswer
<1>6. CASE Running /\ (Listens \/ Polls \/ Skips \/ UNCHANGED vars)
  <2>1. UNCHANGED chainVars /\ db' = db /\ (polled' = polled \/ polled' = head) /\ faults' = faults
    BY <1>6 DEF Listens, Polls, Skips, vars, procVars
  <2>2. SameTables(db', db)
    BY <2>1 DEF SameTables, SameLists
  <2> QED
    BY <1>6, <2>1, <2>2, WholeStays
<1>7. CASE Running /\ NotesHead
  <2>1. /\ UNCHANGED chainVars /\ polled' = polled /\ faults' = faults
        /\ queue # <<>> /\ Head(queue).src = "head"
        /\ db' = [db EXCEPT !.lastBlock = Head(queue).i]
    BY <1>7 DEF NotesHead, NextIs
  <2>2. SameTables(db', db) /\ db'.cursor = db.cursor
    <3>1. DbShape(db)
      BY Now
    <3> QED
      BY <2>1, <3>1 DEF SameTables, SameLists, DbShape
  <2> QED
    BY <1>7, <2>1, <2>2, WholeStays
<1>8. CASE Running /\ HandlerFails
  <2>1. /\ NextIs({"core", "val"}) /\ IsNew(Head(queue)) /\ Head(queue).src = "core"
        /\ db' = After(db, Advance, "core", Head(queue).i)
        /\ UNCHANGED chainVars /\ polled' = polled /\ faults' = faults + 1
    BY <1>8 DEF HandlerFails, Runs, NextIs
  <2>2. faults' # 0
    BY <2>1, Now
  <2>3. PICK k, j, s, e, i, more : Turn(k, j, s, e, i, more)
    BY <2>1, TurnNow
  <2>4. Known("core")' = k + 1 /\ k + 1 \in DOMAIN core /\ core[k + 1].at <= polled
    BY <2>1, <2>3, PassedOver
  <2>5. NoneBeyond'
    <3>1. core' = core /\ k = Known("core") /\ k \in Nat /\ DOMAIN core \subseteq Nat
      BY <2>1, <2>3, Now DEF chainVars, Turn
    <3>2. \A n \in DOMAIN core : n <= k + 1 => n <= k \/ n = k + 1
      BY <3>1
    <3>3. \A n \in DOMAIN core : n <= k => core[n].at <= polled
      BY <1>8, <3>1 DEF Whole, NoneBeyond
    <3> QED
      BY <2>1, <2>4, <3>1, <3>2, <3>3 DEF NoneBeyond
  <2> QED
    BY <2>2, <2>5 DEF Whole
<1>9. CASE Running /\ (FreshChain \/ Stops \/ StopsMidway)
  BY <1>1, <1>9 DEF FreshChain, Stops, StopsMidway, Dies, Running
<1> QED
  BY <1>1, <1>2, <1>3, <1>4, <1>5, <1>6, <1>7, <1>8, <1>9 DEF Next, IndexerStep

(* In every reachable state of a running server the tables are whole, or   *)
(* the event that a stop has left in part is still queued.                 *)
LEMMA WholeInvariant ==
    ASSUME AddressesDiffer
    PROVE  Spec => [](IndexInv /\ Whole)
<1>1. Init => IndexInv /\ Whole
  BY StartsOk DEF Init, Whole, Running
<1>2. IndexInv /\ Whole /\ [Next]_vars => IndexInv' /\ Whole'
  BY NextOk, WholeNext
<1> QED
  BY <1>1, <1>2, PTL DEF Spec

-----------------------------------------------------------------------------
LEMMA InvServes ==
    ASSUME IndexInv, Running
    PROVE  /\ Serves /\ Follows
           /\ Kept(core, val, db, Known("core"), Known("val"), faults, stops)
           /\ faults = 0 => TablesOk(core, val, db, Known("core"), Known("val"), stops > 0)
<1>1. Serves /\ Follows
  BY NowServes
<1>2. Kept(core, val, db, Known("core"), Known("val"), faults, stops)
  BY <1>1, NowKept
<1> QED
  BY <1>1, <1>2 DEF Kept

(* With the queue drained, every log of the scanned blocks is behind its   *)
(* cursor.                                                                 *)
LEMMA PassedAll ==
    ASSUME IndexInv, CaughtUp
    PROVE  /\ Running /\ db.lastBlock = polled /\ polled \in Nat
           /\ \A i \in DOMAIN core : core[i].at <= polled => i <= Known("core")
           /\ \A i \in DOMAIN val : val[i].at <= polled => i <= Known("val")
<1>1. Running /\ queue = <<>>
  BY DEF CaughtUp, Running
<1>2. Follows /\ head \in Nat
  BY <1>1, InvServes, Now
<1>3. /\ db.lastBlock = polled /\ DOMAIN queue = {} /\ polled \in Nat
      /\ Fits(queue, core, "core", polled, Known("core")) /\ Fits(queue, val, "val", polled, Known("val"))
  BY <1>1, <1>2 DEF Follows, QueueOk
<1> QED
  BY <1>1, <1>3 DEF Fits

LEMMA InvType ==
    ASSUME IndexInv
    PROVE  IndexTypeOK
<1>1. DbShape(db) /\ head \in Nat
  BY Now
<1>2. db.cursor.core.bn \in 0..MaxBlock /\ db.cursor.val.bn \in 0..MaxBlock
  <2>1. \A src \in {"core", "val"} : db.cursor[src].bn <= MaxBlock /\ db.cursor[src].bn \in Nat
    BY <1>1 DEF IndexInv, DbShape, Cursor
  <2> QED
    BY <2>1, IndexAssumption
<1>3. proc = "live" => db.lastBlock \in 0..head /\ polled \in 0..head
  <2> HAVE proc = "live"
  <2>1. Serves /\ Follows
    BY InvServes DEF Running
  <2>2. db.lastBlock \in Nat
    BY <1>1 DEF DbShape
  <2> QED
    BY <1>1, <2>1, <2>2 DEF Serves, Follows
<1>4. db.reqhash \subseteq Tasks
  BY <1>1 DEF DbShape
<1>5. \A t \in Tasks : db.tasks[t] = NoRow \/ db.tasks[t].worker \in Workers \cup {NoWorker}
  BY <1>1 DEF DbShape, TaskRow
<1>6. proc \in {"down", "booting", "catchup", "live"}
  BY DEF IndexInv
<1>7. \A i \in DOMAIN queue : queue[i].src \in {"core", "val", "head"}
  <2>1. queue = <<>> \/ queue \in Seq(QueueItem)
    BY DEF IndexInv, Follows, QueueOk
  <2>2. CASE queue = <<>>
    BY <2>2
  <2>3. CASE queue \in Seq(QueueItem)
    <3>1. \A i \in DOMAIN queue : queue[i] \in QueueItem
      BY <2>3
    <3> QED
      BY <3>1 DEF QueueItem
  <2> QED
    BY <2>1, <2>2, <2>3
<1> QED
  BY <1>2, <1>3, <1>4, <1>5, <1>6, <1>7 DEF IndexTypeOK

LEMMA RowAgrees ==
    ASSUME NEW row, NEW points, NEW s, NEW t, RowIs(row, points, s, t)
    PROVE  Agrees(row, points, s, t)
<1> QED
  BY DEF RowIs, Agrees, Traded, Placed, Pooled, Charted, Price

LEMMA InvRows ==
    ASSUME IndexInv
    PROVE  RowsFollowTheLog
<1> SUFFICES ASSUME Running, faults = 0, NEW t \in Tasks
             PROVE  Agrees(db.tasks[t], db.odds[t], Applied, t) \/ Pending(t)
  BY DEF RowsFollowTheLog
<1>1. RowsOk(core, db, Known("core"), stops > 0)
  BY InvServes DEF TablesOk
<1> QED
  BY <1>1, RowAgrees DEF RowsOk, Applied, Pending, Upcoming

LEMMA InvBets ==
    ASSUME IndexInv
    PROVE  BetRowsAccountedFor
<1> SUFFICES ASSUME Running PROVE BetRowsAccountedFor
  BY DEF BetRowsAccountedFor
<1>1. /\ core \in Seq(CoreEvent) /\ db.bets \in Seq(Nat) /\ Known("core") \in 0..Len(core)
      /\ faults \in Nat /\ stops \in Nat
  BY Now DEF CoreShape, DbShape
<1>2. BetsOk(core, db.bets, Known("core"), faults, stops)
  BY InvServes DEF Kept
<1>3. PICK bets, k : bets = db.bets /\ k = Known("core")
  OBVIOUS
<1>4. /\ Cardinality((BetsIn(core) \cap (1..k)) \ ToSet(bets)) <= faults
      /\ ToSet(bets) \subseteq BetsIn(core) \cap (1..(k + 1))
      /\ Len(bets) <= Cardinality(ToSet(bets)) + stops
  BY <1>1, <1>2, <1>3, BetsParts
<1>5. BetsOn = BetsIn(core)
  BY DEF BetsOn, BetsIn
<1> QED
  BY <1>3, <1>4, <1>5 DEF BetRowsAccountedFor

LEMMA InvAnswers ==
    ASSUME IndexInv
    PROVE  AnswersShown
<1> SUFFICES ASSUME Running, faults = 0, NEW t \in Tasks, NEW a \in ToSet(val), a.task = t,
                    \/ CaughtUp /\ a.at <= polled /\ db.tasks[t].state = "Delivered"
                    \/ db.tasks[t].state = "Settled" /\ db.tasks[t].rule \in {2, 3}
             PROVE  db.tasks[t].score = a.score
  BY DEF AnswersShown
<1>1. PICK i \in DOMAIN val : a = val[i]
  BY DEF ToSet
<1>2. DecidedOk(val, db) /\ AnswersOk(val, db, Known("val"))
  BY InvServes DEF TablesOk
<1>3. ValShape(core, val, head) /\ DOMAIN val = 1..Len(val) /\ Known("val") \in 0..Len(val)
  BY Now
<1>4. CASE CaughtUp /\ a.at <= polled /\ db.tasks[t].state = "Delivered"
  <2>1. i <= Known("val")
    BY <1>1, <1>4, PassedAll
  <2>2. i \in 1..Known("val")
    BY <1>3, <2>1
  <2> QED
    BY <1>1, <1>2, <1>4, <2>2 DEF AnswersOk, Answered
<1>5. CASE db.tasks[t].state = "Settled" /\ db.tasks[t].rule \in {2, 3}
  <2>1. PICK m \in DOMAIN val : val[m].task = t /\ db.tasks[t].score = val[m].score
    BY <1>2, <1>5 DEF DecidedOk
  <2>2. m = i
    BY <1>1, <1>3, <2>1 DEF ValShape
  <2> QED
    BY <1>1, <2>1, <2>2
<1> QED
  BY <1>4, <1>5

(* The events up to the block that is reported are those applied.          *)
LEMMA ReportedIsApplied ==
    ASSUME IndexInv, Whole, CaughtUp
    PROVE  Reported = Applied
<1>1. /\ Running /\ db.lastBlock = polled /\ polled \in Nat
      /\ \A i \in DOMAIN core : core[i].at <= polled => i <= Known("core")
  BY PassedAll
<1>2. /\ Known("core") \in 0..Len(core) /\ DOMAIN core = 1..Len(core) /\ Len(core) \in Nat
      /\ Log("core") = core /\ core \in Seq(CoreEvent) /\ Timed(core)
  BY Now, LogsTimed
<1>3. PICK u : u = UpTo("core", polled)
  OBVIOUS
<1>4. u \in 0..Len(core) /\ \A i \in DOMAIN core : core[i].at <= polled <=> i <= u
  BY <1>1, <1>2, <1>3, UpToIs
<1>5. \A i \in DOMAIN core : i <= u <=> i <= Known("core")
  BY <1>1, <1>4 DEF Whole, NoneBeyond
<1>6. u = Known("core")
  <2>1. u < Known("core") => Known("core") \in DOMAIN core
    BY <1>2, <1>4
  <2>2. Known("core") < u => u \in DOMAIN core
    BY <1>2, <1>4
  <2> QED
    BY <1>2, <1>4, <1>5, <2>1, <2>2
<1> QED
  BY <1>1, <1>3, <1>6 DEF Reported, Applied

LEMMA InvHealthz ==
    ASSUME IndexInv, Whole
    PROVE  HealthzIsHonest
<1> SUFFICES ASSUME CaughtUp
             PROVE  /\ db.lastBlock = polled
                    /\ Cardinality({i \in BetsOn : core[i].at <= db.lastBlock} \ ToSet(db.bets)) <= faults
                    /\ faults = 0 => \A t \in Tasks :
                          /\ Agrees(db.tasks[t], db.odds[t], Reported, t)
                          /\ \A a \in ToSet(val) :
                                a.task = t /\ a.at <= db.lastBlock /\ db.tasks[t].state = "Delivered"
                                    => db.tasks[t].score = a.score
  BY DEF HealthzIsHonest
<1>1. /\ Running /\ db.lastBlock = polled /\ polled \in Nat
      /\ \A i \in DOMAIN core : core[i].at <= polled => i <= Known("core")
  BY PassedAll
<1>2. /\ Known("core") \in 0..Len(core) /\ DOMAIN core = 1..Len(core) /\ Len(core) \in Nat
      /\ faults \in Nat
  BY Now
<1>3. Cardinality({i \in BetsOn : core[i].at <= db.lastBlock} \ ToSet(db.bets)) <= faults
  <2>1. PICK S : S = {i \in BetsOn : core[i].at <= polled} \ ToSet(db.bets)
    OBVIOUS
  <2>2. PICK R : R = (BetsOn \cap (1..Known("core"))) \ ToSet(db.bets)
    OBVIOUS
  <2>3. S \subseteq R
    BY <1>1, <1>2, <2>1, <2>2 DEF BetsOn
  <2>4. IsFiniteSet(R)
    <3>1. PICK k \in Nat : k = Known("core")
      BY <1>2
    <3>2. IsFiniteSet(1..k)
      BY FS_Interval
    <3>3. R \in SUBSET (1..k)
      BY <2>2, <3>1
    <3> QED
      BY <3>2, <3>3, FS_Subset
  <2>5. Cardinality(R) <= faults
    BY <1>1, <2>2, InvBets DEF BetRowsAccountedFor
  <2>6. Cardinality(S) <= Cardinality(R) /\ Cardinality(S) \in Nat /\ Cardinality(R) \in Nat
    BY <2>3, <2>4, FS_Subset, FS_CardinalityType
  <2>7. Cardinality(S) <= faults
    BY <1>2, <2>5, <2>6
  <2> QED
    BY <1>1, <2>1, <2>7
<1>4. ASSUME faults = 0, NEW t \in Tasks
      PROVE  Agrees(db.tasks[t], db.odds[t], Reported, t)
  <2>1. ~Ahead
    <3>1. Known("core") < Len(core) => Known("core") + 1 \in DOMAIN core
      BY <1>2
    <3> QED
      BY <1>1, <1>2, <3>1 DEF Ahead
  <2>2. RowsOk(core, db, Known("core"), FALSE)
    BY <1>1, <1>4, <2>1 DEF Whole, Complete, TablesOk
  <2>3. RowIs(db.tasks[t], db.odds[t], Applied, t)
    BY <2>2 DEF RowsOk, Applied
  <2>4. Reported = Applied
    BY ReportedIsApplied
  <2> QED
    BY <2>3, <2>4, RowAgrees
<1>5. ASSUME faults = 0, NEW t \in Tasks, NEW a \in ToSet(val), a.task = t,
             a.at <= db.lastBlock, db.tasks[t].state = "Delivered"
      PROVE  db.tasks[t].score = a.score
  BY <1>1, <1>5, InvAnswers DEF AnswersShown
<1> QED
  BY <1>1, <1>3, <1>4, <1>5

(* Whenever /healthz answers with the queue drained, the block it reports  *)
(* is the last one polled and the tables hold what the chain did up to it: *)
(* every bet but one at most per failed block-time read, and where none    *)
(* failed every row, odds series and answer; a stop inside a handler has   *)
(* left nothing in part (indexer.ts processBatch, advance and the poll).   *)
THEOREM HealthzTells ==
    ASSUME AddressesDiffer
    PROVE  Spec => []HealthzIsHonest
<1>1. IndexInv /\ Whole => HealthzIsHonest
  BY InvHealthz
<1> QED
  BY <1>1, WholeInvariant, PTL

(* Every row, price series, bet and answer the cursors have passed is in   *)
(* the tables as the logs have it, whatever stopped and wherever: a stop   *)
(* inside a handler leaves at most the next event's task in part and one   *)
(* bet doubled, a failed block read one event unapplied (indexer.ts        *)
(* handlers and processBatch, db.ts).                                      *)
THEOREM TablesTell ==
    ASSUME AddressesDiffer
    PROVE  Spec => []TablesFollowTheLog
<1>1. IndexInv => TablesFollowTheLog
  BY InvType, InvRows, InvBets, InvAnswers DEF TablesFollowTheLog
<1> QED
  BY <1>1, IndexInvariant, PTL

LEMMA SquareOf ==
    ASSUME NEW a \in Int
    PROVE  (0 - a) * (0 - a) = a * a
<1> QED
  OBVIOUS

LEMMA InvTrust ==
    ASSUME IndexInv
    PROVE  TrustFollowsTheLog
<1> SUFFICES ASSUME Running, faults = 0, NEW w \in Workers,
                    ~\E t \in Tasks : Pending(t) /\ db.tasks[t] # NoRow /\ db.tasks[t].worker = w,
                    NEW sold, sold = BuildTrustTuple(db, w)
             PROVE  /\ sold.core.n = Cardinality(SettledBy(w))
                    /\ sold.core.wins = Cardinality(SettledBy(w) \ LostBy(w))
                    /\ sold.core.brier = SumFunction([t \in SettledBy(w) |-> Miss(t) * Miss(t)])
                    /\ sold.core.forfeited = SumFunction([t \in LostBy(w) |-> Taker(Applied, t).stake])
                    /\ \A t \in DOMAIN sold.pLive : sold.pLive[t] = Last(db.odds[t]).p
                    /\ db.trust[w] = sold.core
  BY DEF TrustFollowsTheLog
<1>1. /\ CoreShape(core, head) /\ Known("core") \in 0..Len(core) /\ DbShape(db)
  BY Now
<1>2. /\ RowsOk(core, db, Known("core"), stops > 0) /\ TrustOk(core, db, Known("core"), stops > 0)
  BY InvServes DEF TablesOk
<1>3. PICK s, k : k = Known("core") /\ s = Applied
  OBVIOUS
<1>4. s \in Seq(CoreEvent) /\ \A t \in Tasks : Told(s, t)
  BY <1>1, <1>3, Prefix DEF Applied
<1>5. \A t \in Tasks : \/ RowIs(db.tasks[t], db.odds[t], s, t)
                       \/ /\ StateOn(s, t) # "Settled"
                          /\ db.tasks[t] = NoRow \/ db.tasks[t].worker # w
  <2> SUFFICES ASSUME NEW t \in Tasks, ~RowIs(db.tasks[t], db.odds[t], s, t)
               PROVE  /\ StateOn(s, t) # "Settled"
                      /\ db.tasks[t] = NoRow \/ db.tasks[t].worker # w
    OBVIOUS
  <2>1. PICK e : e = core[k + 1]
    OBVIOUS
  <2>2. /\ stops > 0 /\ k < Len(core) /\ e.task = t /\ Partial(db.tasks[t], db.odds[t], s, e)
    BY <1>2, <1>3, <2>1 DEF RowsOk, Applied
  <2>3. Pending(t)
    BY <1>3, <2>1, <2>2 DEF Pending, Upcoming
  <2>4. e \in CoreEvent /\ Legal(s, e)
    BY <1>1, <1>3, <2>1, <2>2, NextEvent DEF Applied
  <2>5. StateOn(s, t) # "Settled"
    BY <1>4, <2>2, <2>4, PartialParts
  <2> QED
    BY <2>3, <2>5
<1>6. \A t \in SettledBy(w) :
          LET row == db.tasks[t] IN
          /\ row.p = Price(s, t) /\ Price(s, t) \in Nat /\ row.stake = Taker(s, t).stake
          /\ row.outcome = Ending(s, t).outcome /\ Ending(s, t).outcome \in {"Yes", "No"}
  <2> TAKE t \in SettledBy(w)
  <2>1. t \in Tasks /\ StateOn(s, t) = "Settled"
    BY <1>3 DEF SettledBy
  <2>2. RowIs(db.tasks[t], db.odds[t], s, t) /\ Told(s, t)
    BY <1>4, <1>5, <2>1
  <2>3. /\ Taken(s, t) /\ Market(s, t).yes \in Nat /\ Market(s, t).no \in Nat
        /\ Ending(s, t).outcome \in {"Yes", "No"}
    BY <2>1, <2>2 DEF Told
  <2>4. Price(s, t) \in Nat
    BY <2>3, PriceNat DEF Price
  <2>5. Over(s, t)
    BY <2>1 DEF Over
  <2> QED
    BY <2>1, <2>2, <2>3, <2>4, <2>5 DEF RowIs, Traded, Placed
<1>7. SettledForWorker(db, w) = SettledBy(w)
  <2>1. ASSUME NEW t \in Tasks
        PROVE  t \in SettledForWorker(db, w) <=> t \in SettledBy(w)
    <3>1. CASE RowIs(db.tasks[t], db.odds[t], s, t)
      <4>1. db.tasks[t].state = StateOn(s, t) /\ (db.tasks[t] = NoRow <=> StateOn(s, t) = "none")
        BY <3>1 DEF RowIs
      <4>2. StateOn(s, t) = "Settled" => db.tasks[t].worker = Taker(s, t).worker
        <5>1. StateOn(s, t) = "Settled" => Taken(s, t)
          BY <1>4 DEF Told
        <5> QED
          BY <3>1, <5>1 DEF RowIs, Traded, Placed
      <4> QED
        BY <1>3, <4>1, <4>2 DEF SettledForWorker, SettledBy
    <3>2. CASE /\ StateOn(s, t) # "Settled"
               /\ db.tasks[t] = NoRow \/ db.tasks[t].worker # w
      BY <1>3, <3>2 DEF SettledForWorker, SettledBy
    <3> QED
      BY <1>5, <3>1, <3>2
  <2> QED
    BY <2>1 DEF SettledForWorker, SettledBy
<1> DEFINE rows == SettledInputsFor(db, w)
           failed == {r \in DOMAIN rows : rows[r].outcome = "No"}
           p(r) == IF rows[r].p = NULL THEN 10000 ELSE rows[r].p
           miss(r) == IF r \in failed THEN p(r) ELSE 10000 - p(r)
<1>8. DOMAIN rows = SettledBy(w) /\ \A t \in SettledBy(w) : rows[t] = db.tasks[t]
  BY <1>7 DEF SettledInputsFor
<1>9. sold.core = TrustCore(rows) /\ sold.pLive = [t \in OpenForWorker(db, w) |-> PBps(db.tasks[t].yes, db.tasks[t].no)]
  BY DEF BuildTrustTuple
<1>10. TrustCore(rows) = [n |-> Cardinality(DOMAIN rows), wins |-> Cardinality(DOMAIN rows \ failed),
         brier |-> SumFunction([r \in DOMAIN rows |-> miss(r) * miss(r)]),
         staked |-> SumFunction([r \in DOMAIN rows |-> rows[r].stake]),
         forfeited |-> SumFunction([r \in failed |-> rows[r].stake])]
  BY DEF TrustCore
<1> HIDE DEF rows
<1>11. failed = LostBy(w)
  BY <1>3, <1>6, <1>8 DEF LostBy
<1>12. \A t \in SettledBy(w) : miss(t) * miss(t) = Miss(t) * Miss(t)
  <2> TAKE t \in SettledBy(w)
  <2>1. PICK a \in Nat : a = Price(s, t)
    BY <1>6
  <2>2. p(t) = a
    <3>1. rows[t].p = a
      BY <1>6, <1>8, <2>1
    <3> QED
      BY <3>1 DEF NULL
  <2>3. Miss(t) = (IF Ending(s, t).outcome = "Yes" THEN 10000 ELSE 0) - a
    BY <1>3, <2>1 DEF Miss, Price
  <2>4. CASE Ending(s, t).outcome = "Yes"
    <3>1. t \notin failed
      BY <1>6, <1>8, <2>4
    <3> QED
      BY <2>2, <2>3, <2>4, <3>1
  <2>5. CASE Ending(s, t).outcome = "No"
    <3>1. t \in failed
      BY <1>6, <1>8, <2>5
    <3>2. miss(t) = a
      BY <2>2, <3>1
    <3>3. Miss(t) = 0 - a
      BY <2>3, <2>5
    <3>4. (0 - a) * (0 - a) = a * a
      BY SquareOf
    <3> QED
      BY <3>2, <3>3, <3>4
  <2> QED
    BY <1>6, <2>4, <2>5
<1>13. [r \in DOMAIN rows |-> miss(r) * miss(r)] = [t \in SettledBy(w) |-> Miss(t) * Miss(t)]
  <2> HIDE DEF miss
  <2> QED
    BY <1>8, <1>12
<1>14. [r \in failed |-> rows[r].stake] = [t \in LostBy(w) |-> Taker(Applied, t).stake]
  <2>1. \A t \in LostBy(w) : rows[t].stake = Taker(Applied, t).stake
    BY <1>3, <1>6, <1>8 DEF LostBy
  <2> HIDE DEF failed
  <2> QED
    BY <1>11, <2>1
<1>15. \A t \in DOMAIN sold.pLive : sold.pLive[t] = Last(db.odds[t]).p
  <2> TAKE t \in DOMAIN sold.pLive
  <2>1. t \in OpenForWorker(db, w) /\ sold.pLive[t] = PBps(db.tasks[t].yes, db.tasks[t].no)
    BY <1>9
  <2>2. /\ t \in Tasks /\ db.tasks[t] # NoRow /\ db.tasks[t].state \in {"Open", "Executing"}
        /\ db.tasks[t].worker = w
    BY <2>1 DEF OpenForWorker
  <2>3. RowIs(db.tasks[t], db.odds[t], s, t) /\ Told(s, t)
    BY <1>4, <1>5, <2>2
  <2>4. Taken(s, t)
    BY <2>2, <2>3 DEF RowIs, Told
  <2> QED
    BY <2>1, <2>3, <2>4 DEF RowIs, Traded, Pooled, Charted, Price
<1>16. db.trust[w] = TrustCore(rows)
  <2>1. db.trust[w] = TrustCore(SettledInputsFor(db, w))
        \/ /\ stops > 0 /\ k < Len(core)
           /\ db.tasks[core[k + 1].task] # NoRow /\ db.tasks[core[k + 1].task].worker = w
    BY <1>2, <1>3 DEF TrustOk
  <2>2. k < Len(core) => core[k + 1].task \in Tasks
    BY <1>1, <1>3, NextEvent
  <2>3. stops > 0 /\ k < Len(core) => Pending(core[k + 1].task)
    BY <1>3 DEF Pending, Upcoming
  <2> QED
    BY <2>1, <2>2, <2>3 DEF rows
<1>17. /\ sold.core.n = Cardinality(DOMAIN rows) /\ sold.core.wins = Cardinality(DOMAIN rows \ failed)
       /\ sold.core.brier = SumFunction([r \in DOMAIN rows |-> miss(r) * miss(r)])
       /\ sold.core.forfeited = SumFunction([r \in failed |-> rows[r].stake])
  <2> HIDE DEF miss, failed
  <2> QED
    BY <1>9, <1>10
<1> HIDE DEF miss, failed
<1> QED
  BY <1>8, <1>9, <1>11, <1>13, <1>14, <1>15, <1>16, <1>17

(* The trust tuple that is sold, and the one that is stored, score exactly *)
(* the settled tasks the cursor has passed, by their last odds before the  *)
(* cutoff; only the next event's task may be missing for its worker after  *)
(* a stop inside its handler (trust.ts buildTrustTuple, indexer.ts         *)
(* recomputeTrust).                                                        *)
THEOREM TrustTells ==
    ASSUME AddressesDiffer
    PROVE  Spec => []TrustFollowsTheLog
<1>1. IndexInv => TrustFollowsTheLog
  BY InvTrust
<1> QED
  BY <1>1, IndexInvariant, PTL
=============================================================================
