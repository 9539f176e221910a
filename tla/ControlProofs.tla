---------------------------- MODULE ControlProofs ---------------------------
(***************************************************************************)
(* What a request relies on was approved, an error is free, and a success  *)
(* is what the reply says but for the races named: for any number of       *)
(* requests of both kinds, tasks of others, and lost receipts.             *)
(***************************************************************************)
EXTENDS ControlSafety, DataProofs

Names == Builtins \cup Questions \cup {"none", "custom"}
Asks == [pay : Nat, window : Nat, deadline : Nat, task : Nat, side : Sides,
         template : Names, spec : Names]
Txs == [request : Requests, kind : {"approve", "call"}]
ChainTasks == [by : Requests \cup {"other"}, spec : Names \cup {"other"},
               deadline : Nat, posted : Nat, cutoff : Nat, state : {"Created", "Open", "Settled"},
               barred : SUBSET Sides, pools : [Sides -> 0..CAP]]

Types ==
    /\ at \in [Requests -> {"idle", "start", "approving", "ready", "simulated",
                            "sending approval", "waiting approval", "sending", "waiting",
                            "done", "error"}]
    /\ ask \in [Requests -> Asks] /\ guess \in [Requests -> Nat \X Names]
    /\ seen \in [Requests -> Nat] /\ paused \in BOOLEAN /\ controls \in BOOLEAN
    /\ approved \in [Wallets -> BOOLEAN] /\ allowance \in [Wallets -> BOOLEAN]
    /\ funds \in [Wallets -> 0..Funds] /\ sent \in [Wallets -> Nat]
    /\ pool \in [Wallets -> Seq(Txs)] /\ tasks \in Seq(ChainTasks)
    /\ files \subseteq Questions /\ now \in Nat

\* What a wallet has out, and the counters that are compared.
Pending(w) == Elements(pool[w])
Counts ==
    /\ \A w \in Wallets : sent[w] >= Len(pool[w])
    /\ \A r \in Requests : guess[r][1] <= Len(tasks) + 1 /\ seen[r] <= sent[WalletOf(r)]

\* A request has at most one transaction out, which it waits for unless it lost the
\* receipt; and a call that is out has had no effect yet.
AwaitedOrDoubted(r, place) == at[r] = place \/ (at[r] = "error" /\ r \in doubted)
IsOut(w, tx) ==
    /\ tx \in Txs /\ w = WalletOf(tx.request)
    /\ tx.kind = "approve" => AwaitedOrDoubted(tx.request, "waiting approval")
    /\ tx.kind = "call" => /\ AwaitedOrDoubted(tx.request, "waiting")
                           /\ Mine(tx.request) = {} /\ tx.request \notin bets
OneOut ==
    /\ \A w \in Wallets : Distinct(pool[w])
    /\ \A w \in Wallets : \A tx \in Pending(w) : IsOut(w, tx)
    /\ \A w \in Wallets : \A a, b \in Pending(w) : a.request = b.request => a = b
    /\ \A r \in Requests : Mine(r) # {} \/ r \in bets =>
           AwaitedOrDoubted(r, "waiting") \/ at[r] = "done"

\* The allowance is there once its receipt is, and before anything is simulated.
Allowances ==
    /\ FlagFollowsAllowance
    /\ \A r \in Requests :
          /\ at[r] = "waiting approval" => allowance[WalletOf(r)] \/ Waits(r)
          /\ at[r] \in {"ready", "simulated", "sending", "waiting", "done"} => allowance[WalletOf(r)]

\* What a request asks for is within the contract's limits.
AskedWithinLimits ==
    /\ \A r \in Markets : at[r] # "idle" =>
          /\ ask[r].pay >= MinReward /\ ask[r].window >= BETTING_WINDOW + MARGIN
          /\ \/ ask[r].template = "none" /\ ask[r].spec \in Questions
             \/ /\ ask[r].template = TemplateOf(ask[r].spec)
                /\ ask[r].spec \in Builtins \/ ask[r].spec \in files
    /\ \A r \in Bets : at[r] # "idle" => ask[r].task \in DOMAIN tasks
    /\ \A r \in Bets : at[r] \notin {"idle", "error"} => ask[r].pay >= MinBet

Committed == {"simulated", "sending", "waiting", "done"}

SpecFor(a, spec) == spec = a.spec \/ (a.template = "custom" /\ Cardinality(files) > 1)
Guessed ==
    /\ \A r \in Markets : guess[r][1] # 0 =>
          at[r] \notin {"idle", "start"} /\ SpecFor(ask[r], guess[r][2])
    /\ \A r \in Markets : at[r] \in Committed => guess[r][1] # 0
    /\ \A w \in Wallets : \A tx \in Pending(w) :
          tx.kind = "call" /\ tx.request \in Markets => guess[tx.request][1] # 0
    /\ \A i \in DOMAIN tasks : tasks[i].by \in Markets =>
          /\ guess[tasks[i].by][1] \in 1..i
          /\ tasks[i].spec = guess[tasks[i].by][2]
          /\ \A j \in DOMAIN tasks : tasks[j].by = tasks[i].by => j = i

\* While a call is undecided, each of the contract's checks that its simulation
\* passed still holds, or what broke it is noted.
Stands(r) ==
    LET a == ask[r]
        t == tasks[a.task]
    IN  /\ funds[WalletOf(r)] >= a.pay \/ "spent" \in met[r]
        /\ ~paused \/ "paused" \in met[r]
        /\ r \in Markets => a.deadline > now + BETTING_WINDOW \/ "late" \in met[r]
        /\ r \in Bets =>
              /\ t.state # "Created" /\ a.side \notin t.barred
              /\ t.state = "Open" \/ "settled" \in met[r]
              /\ now < t.cutoff \/ "late" \in met[r]
              /\ controls \/ "sold" \in met[r]
              /\ t.pools[a.side] + a.pay <= CAP \/ "filled" \in met[r]
SimulationStands == \A r \in Requests : Undecided(r) => Stands(r)

\* Why a call that has been mined, and did nothing, did nothing.
Caused(r) ==
    /\ r \in Markets /\ Mine(r) = {} => met[r] \cap {"paused", "spent", "late"} # {}
    /\ r \in Bets \ bets => met[r] \cap {"paused", "sold", "spent", "filled", "settled", "late"} # {}
NothingForACause == \A r \in Requests : at[r] \in {"waiting", "done"} /\ ~Waits(r) => Caused(r)

CtlInv == /\ Types /\ Counts /\ OneOut /\ Allowances /\ AskedWithinLimits
          /\ SimulationStands /\ Guessed /\ NothingForACause

-----------------------------------------------------------------------------
(* Steps.                                                                  *)

LEMMA RequestFacts ==
    ASSUME NEW r \in Requests
    PROVE  /\ WalletOf(r) \in Wallets /\ r # "other"
           /\ r \in Markets <=> r \notin Bets
BY ControlAssumption DEF Requests, WalletOf, Wallets

LEMMA Waiting ==
    ASSUME NEW r \in Requests
    PROVE  Waits(r) <=> \E tx \in Pending(WalletOf(r)) : tx.request = r
BY DEF Waits, Pending, Elements

LEMMA WaitingAfter ==
    ASSUME NEW r \in Requests
    PROVE  Waits(r)' <=> \E tx \in Elements(pool'[WalletOf(r)]) : tx.request = r
BY DEF Waits, Elements, WalletOf

LEMMA StepCases ==
    ASSUME [Next]_vars
    PROVE  \/ \E r \in Requests :
                 \/ PostsTask(r) \/ PostsBet(r) \/ Rejects(r) \/ ReadsAllowance(r)
                 \/ Simulates(r) \/ Prepares(r) \/ Sends(r) \/ HearsReceipt(r)
                 \/ LosesReceipt(r)
           \/ \E w \in Wallets : Mines(w)
           \/ Others \/ UNCHANGED vars
BY DEF Next, Handles

(* A wallet's node takes a transaction, or refuses its nonce.              *)
LEMMA SendStep ==
    ASSUME Types, NEW r \in Requests, Sends(r)
    PROVE  \/ /\ at[r] \in {"sending approval", "sending"} /\ at' = Set(at, r, "error")
              /\ UNCHANGED <<pool, sent>>
           \/ \E tx \in Txs :
                 /\ tx.request = r
                 /\ \/ /\ tx.kind = "call" /\ at[r] = "sending" /\ at' = Set(at, r, "waiting")
                    \/ /\ tx.kind = "approve" /\ at[r] = "sending approval"
                       /\ at' = Set(at, r, "waiting approval")
                 /\ pool' = Set(pool, WalletOf(r), Append(pool[WalletOf(r)], tx))
                 /\ sent' = Set(sent, WalletOf(r), sent[WalletOf(r)] + 1)
<1>1. CASE seen[r] # sent[WalletOf(r)]
  BY <1>1 DEF Sends
<1>2. CASE seen[r] = sent[WalletOf(r)]
  <2> DEFINE call == [request |-> r, kind |-> "call"]
             approve == [request |-> r, kind |-> "approve"]
  <2>1. call \in Txs /\ approve \in Txs
    BY DEF Txs
  <2>2. CASE at[r] = "sending"
    <3>1. pool' = Set(pool, WalletOf(r), Append(pool[WalletOf(r)], call)) /\ at' = Set(at, r, "waiting")
      BY <1>2, <2>2 DEF Sends, Goes
    <3> QED
      BY <1>2, <2>1, <2>2, <3>1 DEF Sends
  <2>3. CASE at[r] = "sending approval"
    <3>1. /\ pool' = Set(pool, WalletOf(r), Append(pool[WalletOf(r)], approve))
          /\ at' = Set(at, r, "waiting approval")
      BY <1>2, <2>3 DEF Sends, Goes
    <3> QED
      BY <1>2, <2>1, <2>3, <3>1 DEF Sends
  <2> QED
    BY <1>2, <2>2, <2>3 DEF Sends, Goes
<1> QED
  BY <1>1, <1>2

\* What a mined transaction does.
Decides(w, tx) ==
    LET r == tx.request
        a == ask[r]
        left == funds[w] - a.pay
    IN
    \/ /\ tx.kind = "approve" /\ allowance' = Set(allowance, w, TRUE)
       /\ UNCHANGED <<funds, tasks, bets, met>>
    \/ /\ tx.kind = "call" /\ Passes(r) /\ UNCHANGED allowance
       /\ funds' = Set(funds, w, left)
       /\ \/ /\ r \in Markets /\ UNCHANGED bets
             /\ tasks' = Append(tasks, Task(r, a.deadline, guess[r][2], {}))
             /\ MeetBoth(Poorer(w, left) \ {r}, {})
          \/ /\ r \in Bets /\ bets' = bets \cup {r}
             /\ tasks' = Raised(a.task, a.side, a.pay)
             /\ MeetBoth(Poorer(w, left) \ {r},
                         Fuller(a.task, a.side, tasks'[a.task].pools[a.side]) \ {r})
    \/ /\ tx.kind = "call" /\ ~Passes(r)
       /\ UNCHANGED <<funds, allowance, tasks, bets, met>>

(* A block takes the head off a wallet's queue and decides it.             *)
LEMMA BlockStep ==
    ASSUME Types, \A v \in Wallets : Distinct(pool[v]), NEW w \in Wallets, Mines(w)
    PROVE  \E tx \in Txs :
              /\ tx \in Pending(w) /\ Elements(pool'[w]) = Pending(w) \ {tx}
              /\ \A v \in Wallets \ {w} : pool'[v] = pool[v]
              /\ pool' \in [Wallets -> Seq(Txs)] /\ Distinct(pool'[w])
              /\ Len(pool'[w]) = Len(pool[w]) - 1
              /\ Decides(w, tx)
<1> DEFINE tx == Head(pool[w])
<1>1. pool[w] \in Seq(Txs) /\ pool[w] # <<>> /\ pool' = [pool EXCEPT ![w] = Tail(pool[w])]
  BY DEF Types, Mines, Set
<1>2. /\ tx \in Elements(pool[w]) /\ Elements(Tail(pool[w])) = Elements(pool[w]) \ {tx}
      /\ tx \in Txs /\ Tail(pool[w]) \in Seq(Txs) /\ Distinct(Tail(pool[w]))
      /\ Len(Tail(pool[w])) = Len(pool[w]) - 1
  BY <1>1, QueueTail
<1>3. pool \in [Wallets -> Seq(Txs)]
  BY DEF Types
<1>4. /\ pool'[w] = Tail(pool[w]) /\ \A v \in Wallets \ {w} : pool'[v] = pool[v]
      /\ pool' \in [Wallets -> Seq(Txs)]
  BY <1>1, <1>2, <1>3
<1>5. Pending(w) = Elements(pool[w])
  BY DEF Pending
<1>6. tx.kind \in {"approve", "call"} /\ tx.request \in Requests
  BY <1>2 DEF Txs
<1>7. Decides(w, tx)
  <2>1. CASE tx.kind = "approve"
    BY <2>1 DEF Mines, Decides
  <2>2. CASE tx.kind = "call" /\ Passes(tx.request)
    <3>1. /\ Head(pool[w]).kind # "approve" /\ tx.request \in Markets \cup Bets
          /\ tx.request \in Bets => tx.request \notin Markets
      BY <1>6, <2>2, RequestFacts DEF Requests
    <3>2. CASE tx.request \in Markets
      BY <2>2, <3>1, <3>2 DEF Mines, Decides
    <3>3. CASE tx.request \notin Markets
      BY <2>2, <3>1, <3>3 DEF Mines, Decides
    <3> QED
      BY <3>2, <3>3
  <2>3. CASE tx.kind = "call" /\ ~Passes(tx.request)
    <3>1. UNCHANGED <<funds, allowance, tasks, bets, met>>
      BY <2>3 DEF Mines
    <3> QED
      BY <2>3, <3>1 DEF Decides
  <2> QED
    BY <1>6, <2>1, <2>2, <2>3
<1> HIDE DEF tx
<1> QED
  BY <1>2, <1>4, <1>5, <1>7

LEMMA Asked ==
    ASSUME Types, NEW r \in Requests
    PROVE  /\ ask[r].pay \in Nat /\ ask[r].window \in Nat /\ ask[r].deadline \in Nat
           /\ ask[r].task \in Nat /\ ask[r].side \in Sides /\ ask[r].template \in Names /\ ask[r].spec \in Names
           /\ guess[r][1] \in Nat /\ guess[r][2] \in Names
<1>1. ask[r] \in Asks /\ guess[r] \in Nat \X Names
  BY DEF Types
<1> QED
  BY <1>1 DEF Asks

LEMMA Chain ==
    ASSUME Types
    PROVE  /\ Len(tasks) \in Nat /\ DOMAIN tasks = 1..Len(tasks) /\ now \in Nat
           /\ BETTING_WINDOW \in Nat /\ MARGIN \in Nat /\ Funds \in Nat
           /\ \A i \in DOMAIN tasks : tasks[i].cutoff \in Nat
           /\ \A w \in Wallets : funds[w] \in 0..Funds /\ funds[w] \in Nat
<1>1. tasks \in Seq(ChainTasks) /\ now \in Nat
  BY DEF Types
<1>2. \A i \in DOMAIN tasks : tasks[i] \in ChainTasks
  BY <1>1
<1>3. \A i \in DOMAIN tasks : tasks[i].cutoff \in Nat
  BY <1>2 DEF ChainTasks
<1>4. BETTING_WINDOW \in Nat /\ MARGIN \in Nat /\ Funds \in Nat
  BY ControlAssumption
<1>5. \A w \in Wallets : funds[w] \in 0..Funds
  BY DEF Types
<1>6. 0..Funds \subseteq Nat
  BY <1>4
<1> QED
  BY <1>1, <1>3, <1>4, <1>5, <1>6

LEMMA TaskAppended ==
    ASSUME tasks \in Seq(ChainTasks), NEW t \in ChainTasks, tasks' = Append(tasks, t)
    PROVE  /\ tasks' \in Seq(ChainTasks) /\ Len(tasks) \in Nat /\ Len(tasks') = Len(tasks) + 1
           /\ DOMAIN tasks = 1..Len(tasks) /\ DOMAIN tasks' = 1..(Len(tasks) + 1)
           /\ tasks'[Len(tasks) + 1] = t
           /\ \A i \in DOMAIN tasks : tasks'[i] = tasks[i]
OBVIOUS

\* What is on the chain stays, but for the cutoff and the roles that acceptance
\* sets, the pools and the state.
TasksKept ==
    /\ Len(tasks) <= Len(tasks')
    /\ \A i \in DOMAIN tasks :
          /\ i \in DOMAIN tasks'
          /\ tasks'[i].by = tasks[i].by /\ tasks'[i].spec = tasks[i].spec
          /\ tasks[i].state # "Created" =>
                /\ tasks'[i].state # "Created"
                /\ tasks'[i].cutoff = tasks[i].cutoff /\ tasks'[i].barred = tasks[i].barred

LEMMA TaskChanged ==
    ASSUME tasks \in Seq(ChainTasks), NEW i \in DOMAIN tasks, NEW t \in ChainTasks,
           tasks' = [tasks EXCEPT ![i] = t],
           t.by = tasks[i].by, t.spec = tasks[i].spec,
           tasks[i].state # "Created" =>
              t.state # "Created" /\ t.cutoff = tasks[i].cutoff /\ t.barred = tasks[i].barred
    PROVE  /\ tasks' \in Seq(ChainTasks) /\ DOMAIN tasks' = DOMAIN tasks /\ TasksKept
           /\ tasks'[i] = t /\ \A j \in DOMAIN tasks : j # i => tasks'[j] = tasks[j]
<1>1. DOMAIN tasks = 1..Len(tasks) /\ Len(tasks) \in Nat
  OBVIOUS
<1>2. tasks' \in Seq(ChainTasks) /\ Len(tasks') = Len(tasks) /\ DOMAIN tasks' = DOMAIN tasks
  BY <1>1
<1>3. tasks'[i] = t /\ \A j \in DOMAIN tasks : j # i => tasks'[j] = tasks[j]
  OBVIOUS
<1> QED
  BY <1>1, <1>2, <1>3 DEF TasksKept

LEMMA NewTaskRecord ==
    ASSUME Types, NEW by \in Requests \cup {"other"}, NEW deadline \in Nat,
           NEW spec \in Names \cup {"other"}, NEW barred \in SUBSET Sides
    PROVE  /\ Task(by, deadline, spec, barred) \in ChainTasks
           /\ Task(by, deadline, spec, barred).by = by /\ Task(by, deadline, spec, barred).spec = spec
<1>1. now \in Nat /\ CAP \in Nat
  BY ControlAssumption DEF Types
<1>2. 0 \in 0..CAP
  BY <1>1
<1>3. [side \in Sides |-> 0] \in [Sides -> 0..CAP]
  BY <1>2
<1> QED
  BY <1>1, <1>3 DEF Task, ChainTasks

\* A record of a task, and one with some of its fields set.
LEMMA TaskWith ==
    ASSUME NEW t \in ChainTasks, NEW state, NEW pools
    PROVE  /\ [t EXCEPT !.state = state]
              = [by |-> t.by, spec |-> t.spec, deadline |-> t.deadline, posted |-> t.posted,
                 cutoff |-> t.cutoff, state |-> state, barred |-> t.barred, pools |-> t.pools]
           /\ [t EXCEPT !.pools = pools].by = t.by
<1>1. [t EXCEPT !.state = state]
              = [by |-> t.by, spec |-> t.spec, deadline |-> t.deadline, posted |-> t.posted,
                 cutoff |-> t.cutoff, state |-> state, barred |-> t.barred, pools |-> t.pools]
  BY DEF ChainTasks
<1>2. [t EXCEPT !.pools = pools].by = t.by
  BY DEF ChainTasks
<1> QED
  BY <1>1, <1>2

LEMMA OpenedTask ==
    ASSUME NEW t \in ChainTasks, NEW barred, NEW stake
    PROVE  Opened(t, barred, stake)
              = [by |-> t.by, spec |-> t.spec, deadline |-> t.deadline, posted |-> t.posted,
                 cutoff |-> now + BETTING_WINDOW, state |-> "Open", barred |-> barred,
                 pools |-> [t.pools EXCEPT !["yes"] = stake]]
<1> DEFINE pools == [t.pools EXCEPT !["yes"] = stake]
           cutoff == now + BETTING_WINDOW
<1>1. Opened(t, barred, stake)
         = [t EXCEPT !.state = "Open", !.cutoff = cutoff, !.barred = barred, !.pools = pools]
  BY DEF Opened
<1>2. t = [by |-> t.by, spec |-> t.spec, deadline |-> t.deadline, posted |-> t.posted,
           cutoff |-> t.cutoff, state |-> t.state, barred |-> t.barred, pools |-> t.pools]
  BY DEF ChainTasks
<1> HIDE DEF pools, cutoff
<1> DEFINE u == [t EXCEPT !.state = "Open", !.cutoff = cutoff, !.barred = barred, !.pools = pools]
           v == [by |-> t.by, spec |-> t.spec, deadline |-> t.deadline, posted |-> t.posted,
                 cutoff |-> cutoff, state |-> "Open", barred |-> barred, pools |-> pools]
<1>3. DOMAIN u = {"by", "spec", "deadline", "posted", "cutoff", "state", "barred", "pools"}
  BY <1>2
<1>4. DOMAIN v = {"by", "spec", "deadline", "posted", "cutoff", "state", "barred", "pools"}
  OBVIOUS
<1>5. /\ u["by"] = v["by"] /\ u["spec"] = v["spec"] /\ u["deadline"] = v["deadline"]
      /\ u["posted"] = v["posted"] /\ u["cutoff"] = v["cutoff"] /\ u["state"] = v["state"]
      /\ u["barred"] = v["barred"] /\ u["pools"] = v["pools"]
  BY <1>2
<1>6. [t EXCEPT !.state = "Open", !.cutoff = cutoff, !.barred = barred, !.pools = pools]
         = [by |-> t.by, spec |-> t.spec, deadline |-> t.deadline, posted |-> t.posted,
            cutoff |-> cutoff, state |-> "Open", barred |-> barred, pools |-> pools]
  BY <1>3, <1>4, <1>5
<1> QED
  BY <1>1, <1>6 DEF pools, cutoff

LEMMA TaskFields ==
    ASSUME tasks \in Seq(ChainTasks), NEW i \in DOMAIN tasks
    PROVE  /\ tasks[i] \in ChainTasks
           /\ tasks[i].cutoff \in Nat /\ tasks[i].deadline \in Nat /\ tasks[i].posted \in Nat
           /\ tasks[i].pools \in [Sides -> 0..CAP] /\ tasks[i].barred \subseteq Sides
           /\ tasks[i].state \in {"Created", "Open", "Settled"}
           /\ tasks[i] = [by |-> tasks[i].by, spec |-> tasks[i].spec, deadline |-> tasks[i].deadline,
                          posted |-> tasks[i].posted, cutoff |-> tasks[i].cutoff,
                          state |-> tasks[i].state, barred |-> tasks[i].barred,
                          pools |-> tasks[i].pools]
<1>1. tasks[i] \in ChainTasks
  OBVIOUS
<1> QED
  BY <1>1 DEF ChainTasks

\* A pool rises, within its cap.
LEMMA PoolRaised ==
    ASSUME tasks \in Seq(ChainTasks), NEW i \in DOMAIN tasks, NEW side \in Sides, NEW amount \in Nat,
           tasks[i].pools[side] + amount <= CAP, tasks' = Raised(i, side, amount)
    PROVE  /\ tasks' \in Seq(ChainTasks) /\ DOMAIN tasks' = DOMAIN tasks /\ TasksKept
           /\ tasks'[i].state = tasks[i].state
           /\ tasks'[i].pools[side] = tasks[i].pools[side] + amount
           /\ \A s \in Sides : s # side => tasks'[i].pools[s] = tasks[i].pools[s]
           /\ \A j \in DOMAIN tasks : j # i => tasks'[j] = tasks[j]
           /\ tasks'[i].cutoff = tasks[i].cutoff /\ tasks'[i].barred = tasks[i].barred
<1> DEFINE pools == [tasks[i].pools EXCEPT ![side] = tasks[i].pools[side] + amount]
           t == [by |-> tasks[i].by, spec |-> tasks[i].spec, deadline |-> tasks[i].deadline,
                 posted |-> tasks[i].posted, cutoff |-> tasks[i].cutoff,
                 state |-> tasks[i].state, barred |-> tasks[i].barred, pools |-> pools]
<1>1. tasks[i].pools[side] + amount \in 0..CAP
  BY TaskFields, ControlAssumption
<1>2. /\ pools \in [Sides -> 0..CAP] /\ pools[side] = tasks[i].pools[side] + amount
      /\ \A s \in Sides : s # side => pools[s] = tasks[i].pools[s]
  BY <1>1, TaskFields
<1>3. tasks' = [tasks EXCEPT ![i] = [tasks[i] EXCEPT !.pools = pools]]
  BY DEF Raised
<1> HIDE DEF pools
<1>4. [tasks[i] EXCEPT !.pools = pools] = t
  BY TaskFields
<1>5. t \in ChainTasks
  BY <1>2, TaskFields DEF ChainTasks
<1>6. tasks' = [tasks EXCEPT ![i] = t] /\ t.by = tasks[i].by /\ t.spec = tasks[i].spec
      /\ t.state = tasks[i].state /\ t.cutoff = tasks[i].cutoff /\ t.barred = tasks[i].barred
      /\ t.pools = pools
  BY <1>3, <1>4
<1> HIDE DEF t
<1>7. tasks' \in Seq(ChainTasks) /\ DOMAIN tasks' = DOMAIN tasks /\ TasksKept
      /\ tasks'[i] = t /\ \A j \in DOMAIN tasks : j # i => tasks'[j] = tasks[j]
  BY <1>5, <1>6, TaskChanged
<1> QED
  BY <1>2, <1>6, <1>7

LEMMA OthersStep ==
    ASSUME Others
    PROVE  /\ UNCHANGED <<at, ask, guess, seen, approved, files, allowance, pool, bets, doubted>>
           /\ \/ OtherPosts \/ Pauses \/ ChangesHands \/ Ticks
              \/ \E i \in DOMAIN tasks : Accepts(i) \/ OtherBets(i) \/ Settles(i)
              \/ \E w \in Wallets : UsedElsewhere(w)
BY DEF Others

\* A worker's acceptance, with the roles it bars and its stake.
LEMMA AcceptStep ==
    ASSUME Types, NEW i \in DOMAIN tasks, Accepts(i)
    PROVE  /\ tasks' \in Seq(ChainTasks) /\ DOMAIN tasks' = DOMAIN tasks /\ TasksKept
           /\ tasks[i].state = "Created"
           /\ \A j \in DOMAIN tasks : j # i => tasks'[j] = tasks[j]
<1>1. PICK bars \in {{}, {"no"}}, stake \in Stakes :
         tasks' = [tasks EXCEPT ![i] = Opened(tasks[i], tasks[i].barred \cup bars, stake)]
  BY DEF Accepts
<1> DEFINE pools == [tasks[i].pools EXCEPT !["yes"] = stake]
           barred == tasks[i].barred \cup bars
           t == [by |-> tasks[i].by, spec |-> tasks[i].spec, deadline |-> tasks[i].deadline,
                 posted |-> tasks[i].posted, cutoff |-> now + BETTING_WINDOW,
                 state |-> "Open", barred |-> barred, pools |-> pools]
<1>2. tasks \in Seq(ChainTasks) /\ now + BETTING_WINDOW \in Nat /\ stake \in 0..CAP
  <2>1. tasks \in Seq(ChainTasks)
    BY DEF Types
  <2>2. now + BETTING_WINDOW \in Nat
    BY Chain
  <2>3. stake \in 0..CAP
    BY ControlAssumption
  <2> QED
    BY <2>1, <2>2, <2>3
<1>3. pools \in [Sides -> 0..CAP] /\ barred \subseteq Sides
  BY <1>2, TaskFields DEF Sides
<1>4. t \in ChainTasks
  BY <1>2, <1>3, TaskFields DEF ChainTasks
<1>5. tasks' = [tasks EXCEPT ![i] = t]
  <2>1. tasks[i] \in ChainTasks
    BY <1>2
  <2>2. Opened(tasks[i], barred, stake) = t
    BY <2>1, OpenedTask
  <2> QED
    BY <1>1, <2>2
<1>6. t.by = tasks[i].by /\ t.spec = tasks[i].spec /\ tasks[i].state = "Created"
  BY DEF Accepts
<1> HIDE DEF t
<1> QED
  BY <1>2, <1>4, <1>5, <1>6, TaskChanged

LEMMA SettleStep ==
    ASSUME Types, NEW i \in DOMAIN tasks, Settles(i)
    PROVE  /\ tasks' \in Seq(ChainTasks) /\ DOMAIN tasks' = DOMAIN tasks /\ TasksKept
           /\ tasks'[i].pools = tasks[i].pools
           /\ \A j \in DOMAIN tasks : j # i => tasks'[j] = tasks[j]
<1> DEFINE t == [by |-> tasks[i].by, spec |-> tasks[i].spec, deadline |-> tasks[i].deadline,
                 posted |-> tasks[i].posted, cutoff |-> tasks[i].cutoff,
                 state |-> "Settled", barred |-> tasks[i].barred, pools |-> tasks[i].pools]
<1>1. tasks \in Seq(ChainTasks) /\ tasks' = [tasks EXCEPT ![i] = [tasks[i] EXCEPT !.state = "Settled"]]
  BY DEF Types, Settles
<1>2. [tasks[i] EXCEPT !.state = "Settled"] = t /\ t \in ChainTasks
  <2>1. tasks[i] \in ChainTasks
    BY <1>1
  <2>2. [tasks[i] EXCEPT !.state = "Settled"] = t
    BY <2>1, TaskWith
  <2>3. t \in ChainTasks
    BY <1>1, TaskFields DEF ChainTasks
  <2> QED
    BY <2>2, <2>3
<1>3. /\ t.by = tasks[i].by /\ t.spec = tasks[i].spec /\ t.state = "Settled"
      /\ t.cutoff = tasks[i].cutoff /\ t.barred = tasks[i].barred /\ t.pools = tasks[i].pools
  OBVIOUS
<1> HIDE DEF t
<1> QED
  BY <1>1, <1>2, <1>3, TaskChanged

\* Another bet goes into a pool with room for it.
LEMMA OtherBetStep ==
    ASSUME Types, NEW i \in DOMAIN tasks, OtherBets(i)
    PROVE  \E side \in Sides, amount \in Nat :
              /\ tasks[i].pools[side] + amount <= CAP /\ tasks' = Raised(i, side, amount)
              /\ Meet(Fuller(i, side, tasks[i].pools[side] + amount), "filled")
BY ControlAssumption DEF OtherBets

\* Others append a task of another client, or leave the tasks where they are.
LEMMA OthersTasks ==
    ASSUME Types, Others
    PROVE  /\ tasks' \in Seq(ChainTasks) /\ TasksKept
           /\ \/ DOMAIN tasks' = DOMAIN tasks
              \/ \E t \in ChainTasks : t.by = "other" /\ tasks' = Append(tasks, t)
<1>1. tasks \in Seq(ChainTasks) /\ Len(tasks) \in Nat /\ DOMAIN tasks = 1..Len(tasks)
  BY Chain DEF Types
<1>2. CASE UNCHANGED tasks
  BY <1>1, <1>2 DEF TasksKept
<1>3. CASE OtherPosts
  <2>1. PICK barred \in {{}, Sides} :
           tasks' = Append(tasks, Task("other", now + BETTING_WINDOW + 1, "other", barred))
    BY <1>3 DEF OtherPosts
  <2> DEFINE t == Task("other", now + BETTING_WINDOW + 1, "other", barred)
  <2>2. now + BETTING_WINDOW + 1 \in Nat
    BY Chain
  <2>3. t \in ChainTasks /\ t.by = "other"
    <3>1. barred \in SUBSET Sides
      OBVIOUS
    <3>2. "other" \in Requests \cup {"other"} /\ "other" \in Names \cup {"other"}
      OBVIOUS
    <3> QED
      BY <2>2, <3>1, <3>2, NewTaskRecord
  <2> HIDE DEF t
  <2>4. tasks' = Append(tasks, t)
    BY <2>1 DEF t
  <2>5. tasks' \in Seq(ChainTasks) /\ TasksKept
    BY <1>1, <2>3, <2>4, TaskAppended DEF TasksKept
  <2> QED
    BY <2>3, <2>4, <2>5
<1>4. ASSUME NEW i \in DOMAIN tasks, Accepts(i) \/ OtherBets(i) \/ Settles(i)
      PROVE  tasks' \in Seq(ChainTasks) /\ TasksKept /\ DOMAIN tasks' = DOMAIN tasks
  <2>1. CASE Accepts(i)
    BY <2>1, AcceptStep
  <2>2. CASE Settles(i)
    BY <2>2, SettleStep
  <2>3. CASE OtherBets(i)
    BY <1>1, <2>3, OtherBetStep, PoolRaised
  <2> QED
    BY <1>4, <2>1, <2>2, <2>3
<1>5. Pauses \/ ChangesHands \/ Ticks \/ (\E w \in Wallets : UsedElsewhere(w)) => UNCHANGED tasks
  BY DEF Pauses, ChangesHands, Ticks, UsedElsewhere
<1> QED
  BY <1>2, <1>3, <1>4, <1>5, OthersStep

\* What else others move: the clock, the contract's pause, the agent's owner, and a
\* wallet of the page.
LEMMA OthersElse ==
    ASSUME Types, Others
    PROVE  /\ now' \in Nat /\ now <= now' /\ paused' \in BOOLEAN /\ controls' \in BOOLEAN
           /\ funds' \in [Wallets -> 0..Funds] /\ sent' \in [Wallets -> Nat]
           /\ \A w \in Wallets : sent[w] <= sent'[w]
<1>1. /\ now \in Nat /\ paused \in BOOLEAN /\ controls \in BOOLEAN
      /\ funds \in [Wallets -> 0..Funds] /\ sent \in [Wallets -> Nat] /\ Funds \in Nat
  BY ControlAssumption DEF Types
<1> DEFINE Still == UNCHANGED <<funds, sent>>
<1>2. CASE Still /\ now' \in {now, now + 1} /\ paused' \in BOOLEAN /\ controls' \in BOOLEAN
  <2>1. now' \in Nat /\ now <= now'
    BY <1>1, <1>2
  <2>2. \A w \in Wallets : sent[w] \in Nat /\ sent'[w] = sent[w]
    BY <1>1, <1>2
  <2> QED
    BY <1>1, <1>2, <2>1, <2>2
<1>3. /\ OtherPosts \/ (\E i \in DOMAIN tasks : Accepts(i) \/ OtherBets(i) \/ Settles(i))
             => UNCHANGED <<now, paused, controls, funds, sent>>
      /\ Pauses => paused' \in BOOLEAN /\ UNCHANGED <<now, controls, funds, sent>>
      /\ ChangesHands => controls' \in BOOLEAN /\ UNCHANGED <<now, paused, funds, sent>>
      /\ Ticks => now' = now + 1 /\ UNCHANGED <<paused, controls, funds, sent>>
  BY DEF OtherPosts, Accepts, OtherBets, Settles, Pauses, ChangesHands, Ticks
<1>4. ASSUME NEW w \in Wallets, UsedElsewhere(w)
      PROVE  /\ UNCHANGED <<now, paused, controls>>
             /\ funds' \in [Wallets -> 0..Funds] /\ sent' \in [Wallets -> Nat]
             /\ \A v \in Wallets : sent[v] <= sent'[v]
  <2>1. PICK cost \in 1..funds[w] : funds' = [funds EXCEPT ![w] = funds[w] - cost]
    BY <1>4 DEF UsedElsewhere, Set
  <2>2. funds[w] \in 0..Funds /\ funds[w] - cost \in 0..Funds
    BY <1>1
  <2>3. sent' = [sent EXCEPT ![w] = sent[w] + 1] /\ sent[w] + 1 \in Nat
    BY <1>1, <1>4 DEF UsedElsewhere, Set
  <2>4. \A v \in Wallets : sent[v] <= sent'[v]
    BY <1>1, <2>3
  <2> QED
    BY <1>1, <1>4, <2>1, <2>2, <2>3, <2>4 DEF UsedElsewhere
<1> QED
  BY <1>1, <1>2, <1>3, <1>4, OthersStep

LEMMA NextTypes ==
    ASSUME Types, AskedWithinLimits, OneOut, [Next]_vars
    PROVE  Types' /\ TasksKept
<1> USE DEF Set, wallets, chainVars
<1>0. UNCHANGED tasks => TasksKept
  BY Chain DEF TasksKept
<1>1. ASSUME NEW r \in Requests, PostsTask(r)
      PROVE  Types' /\ TasksKept
  <2>1. PICK reward \in Rewards, window \in Windows, form \in Form :
           ask' = [ask EXCEPT ![r] =
              [pay |-> AtLeast(AtLeast(reward, 1), MinReward),
               window |-> AtLeast(AtLeast(window, 1), BETTING_WINDOW + MARGIN),
               deadline |-> 0, task |-> 0, side |-> "yes",
               template |-> form.template, spec |-> form.spec]]
    BY <1>1 DEF PostsTask
  <2>2. form.template \in Names /\ form.spec \in Names
    <3>1. CASE form \in [template : {"none"}, spec : Questions \ files]
      BY <3>1 DEF Names
    <3>2. CASE form \in {[template |-> TemplateOf(spec), spec |-> spec] : spec \in ListTemplates}
      <4>1. PICK spec \in ListTemplates : form = [template |-> TemplateOf(spec), spec |-> spec]
        BY <3>2
      <4>2. spec \in Builtins \cup Questions
        BY DEF ListTemplates, Types
      <4> QED
        BY <4>1, <4>2 DEF TemplateOf, Names
    <3> QED
      BY <3>1, <3>2 DEF Form
  <2> DEFINE pay == AtLeast(AtLeast(reward, 1), MinReward)
             due == AtLeast(AtLeast(window, 1), BETTING_WINDOW + MARGIN)
             a == [pay |-> pay, window |-> due, deadline |-> 0, task |-> 0, side |-> "yes",
                   template |-> form.template, spec |-> form.spec]
  <2>4. pay \in Nat /\ due \in Nat
    BY ControlAssumption DEF AtLeast
  <2>5. ask' = [ask EXCEPT ![r] = a]
    BY <2>1
  <2> HIDE DEF pay, due
  <2>6. a \in Asks
    BY <2>2, <2>4 DEF Asks, Sides
  <2> HIDE DEF a
  <2>3. ask' \in [Requests -> Asks]
    BY <2>5, <2>6 DEF Types
  <2> QED
    BY <1>0, <1>1, <2>3 DEF PostsTask, Goes, Types
<1>2. ASSUME NEW r \in Requests, PostsBet(r)
      PROVE  Types' /\ TasksKept
  <2>1. PICK i \in DOMAIN tasks, side \in Sides, amount \in BetSizes :
           /\ ask' = [ask EXCEPT ![r] = [NoAsk EXCEPT !.pay = amount, !.task = i, !.side = side]]
           /\ at' = [at EXCEPT ![r] = IF amount < MinBet THEN "error" ELSE "start"]
    BY <1>2 DEF PostsBet, Goes
  <2>2. i \in Nat /\ amount \in Nat
    BY ControlAssumption, Chain
  <2>3. ask' \in [Requests -> Asks]
    BY <2>1, <2>2 DEF Types, Asks, NoAsk, Names, Sides
  <2> QED
    BY <1>0, <1>2, <2>1, <2>3 DEF PostsBet, Types
<1>3. ASSUME NEW r \in Requests, Rejects(r) \/ ReadsAllowance(r) \/ Prepares(r)
                                 \/ HearsReceipt(r) \/ LosesReceipt(r)
      PROVE  Types' /\ TasksKept
  BY <1>0, <1>3, RequestFacts
     DEF Rejects, ReadsAllowance, Prepares, HearsReceipt, LosesReceipt, Goes, Types
<1>4. ASSUME NEW r \in Requests, Simulates(r)
      PROVE  Types' /\ TasksKept
  <2>1. now + ask[r].window \in Nat /\ Len(tasks) \in Nat
    BY Chain, Asked
  <2>2. ask' \in [Requests -> Asks] /\ at[r] = "ready"
    BY <1>4, <2>1 DEF Simulates, Goes, Types, Asks, Timed
  <2>3. ask[r].spec \in Names /\ (r \in Markets /\ ask[r].template = "none" => ask[r].spec \in Questions)
    BY <2>2, ControlAssumption DEF Types, Asks, AskedWithinLimits, TemplateOf
  <2>4. files' \subseteq Questions
    BY <1>4, <2>3 DEF Simulates, Writes, Types
  <2>5. \A spec \in Resolves(r) : spec \in Names
    BY <2>3 DEF Resolves, ListTemplates, Names, Types
  <2>6. guess' \in [Requests -> Nat \X Names]
    <3>1. CASE r \in Markets
      <4>1. PICK spec \in Resolves(r) : guess' = [guess EXCEPT ![r] = <<Len(tasks) + 1, spec>>]
        BY <1>4, <3>1 DEF Simulates
      <4>2. <<Len(tasks) + 1, spec>> \in Nat \X Names
        BY <2>1, <2>5
      <4> QED
        BY <4>1, <4>2 DEF Types
    <3>2. CASE r \notin Markets
      BY <1>4, <3>2 DEF Simulates, Types
    <3> QED
      BY <3>1, <3>2
  <2> QED
    BY <1>0, <1>4, <2>2, <2>4, <2>6 DEF Simulates, Goes, Types
<1>5. ASSUME NEW r \in Requests, Sends(r)
      PROVE  Types' /\ TasksKept
  <2>1. WalletOf(r) \in Wallets /\ pool \in [Wallets -> Seq(Txs)] /\ sent \in [Wallets -> Nat]
    BY RequestFacts DEF Types
  <2>2. CASE UNCHANGED <<pool, sent>> /\ at' = Set(at, r, "error")
    BY <1>0, <1>5, <2>2 DEF Sends, Types
  <2>3. ASSUME NEW tx \in Txs,
               at' = Set(at, r, "waiting") \/ at' = Set(at, r, "waiting approval"),
               pool' = Set(pool, WalletOf(r), Append(pool[WalletOf(r)], tx)),
               sent' = Set(sent, WalletOf(r), sent[WalletOf(r)] + 1)
        PROVE  Types' /\ TasksKept
    <3>1. Append(pool[WalletOf(r)], tx) \in Seq(Txs)
      BY <2>1
    <3>2. pool' \in [Wallets -> Seq(Txs)]
      BY <2>1, <2>3, <3>1
    <3>3. sent' \in [Wallets -> Nat]
      <4>1. sent[WalletOf(r)] + 1 \in Nat
        BY <2>1
      <4> QED
        BY <2>1, <2>3, <4>1
    <3>4. UNCHANGED <<ask, guess, seen, approved, files, funds, allowance, tasks, bets, now,
                     paused, controls>>
      BY <1>5 DEF Sends
    <3>5. at' \in [Requests -> {"idle", "start", "approving", "ready", "simulated",
                            "sending approval", "waiting approval", "sending", "waiting",
                            "done", "error"}]
      BY <2>3 DEF Types
    <3> QED
      BY <1>0, <3>2, <3>3, <3>4, <3>5 DEF Types
  <2>4. CASE ~(UNCHANGED <<pool, sent>> /\ at' = Set(at, r, "error"))
    <3>1. PICK tx \in Txs :
             /\ at' = Set(at, r, "waiting") \/ at' = Set(at, r, "waiting approval")
             /\ pool' = Set(pool, WalletOf(r), Append(pool[WalletOf(r)], tx))
             /\ sent' = Set(sent, WalletOf(r), sent[WalletOf(r)] + 1)
      <4> HIDE DEF Set
      <4> QED
        BY <1>5, <2>4, SendStep
    <3> QED
      BY <2>3, <3>1
  <2> QED
    BY <2>2, <2>4
<1>6. ASSUME NEW w \in Wallets, Mines(w)
      PROVE  Types' /\ TasksKept
  <2>1. PICK tx \in Pending(w) : tx \in Txs /\ pool' \in [Wallets -> Seq(Txs)] /\ Decides(w, tx)
    BY <1>6, BlockStep DEF OneOut
  <2>2. /\ tx.request \in Requests /\ tx \in Txs
        /\ funds[w] \in 0..Funds /\ Funds \in Nat
    BY <2>1, ControlAssumption DEF Types, Txs
  <2>3. UNCHANGED <<at, ask, guess, seen, approved, files, sent, now, paused, controls, doubted>>
    BY <1>6 DEF Mines
  <2>4. allowance' \in [Wallets -> BOOLEAN]
    BY <2>1 DEF Decides, Types
  <2>5. tasks' \in Seq(ChainTasks) /\ TasksKept
    <3>1. CASE UNCHANGED tasks
      BY <1>0, <3>1 DEF Types
    <3>2. CASE tasks' = Append(tasks, Task(tx.request, ask[tx.request].deadline, guess[tx.request][2], {}))
      <4> DEFINE t == Task(tx.request, ask[tx.request].deadline, guess[tx.request][2], {})
      <4>1. t \in ChainTasks
        BY <2>2, Asked, NewTaskRecord
      <4>2. tasks \in Seq(ChainTasks) /\ tasks' = Append(tasks, t)
        BY <3>2 DEF Types
      <4> HIDE DEF t
      <4> QED
        BY <4>1, <4>2, TaskAppended DEF TasksKept
    <3>3. CASE tx.request \in Bets /\ Passes(tx.request)
               /\ tasks' = Raised(ask[tx.request].task, ask[tx.request].side, ask[tx.request].pay)
      <4>1. IsOut(w, tx) /\ tx.request \in Bets /\ tx.request \notin Markets
        BY <2>1, <2>2, <3>3, RequestFacts DEF OneOut
      <4>2. ask[tx.request].task \in DOMAIN tasks
        BY <4>1 DEF IsOut, AwaitedOrDoubted, AskedWithinLimits, Txs
      <4>3. tasks[ask[tx.request].task].pools[ask[tx.request].side] + ask[tx.request].pay <= CAP
        BY <3>3, <4>1 DEF Passes, Allowed, MayCall, MayBet
      <4> QED
        BY <2>2, <3>3, <4>2, <4>3, Asked, PoolRaised DEF Types
    <3> QED
      BY <2>1, <3>1, <3>2, <3>3 DEF Decides
  <2>6. funds' \in [Wallets -> 0..Funds]
    <3>1. CASE UNCHANGED funds
      BY <3>1 DEF Types
    <3>2. CASE tx.kind = "call" /\ Passes(tx.request) /\ funds' = Set(funds, w, funds[w] - ask[tx.request].pay)
      <4>1. w = WalletOf(tx.request)
        BY <2>1 DEF OneOut, IsOut
      <4>2. ask[tx.request].pay <= funds[w]
        BY <3>2, <4>1 DEF Passes, Allowed
      <4>3. funds[w] - ask[tx.request].pay \in 0..Funds
        BY <2>2, <4>2, Asked
      <4> QED
        BY <3>2, <4>3 DEF Types
    <3> QED
      BY <2>1, <3>1, <3>2 DEF Decides
  <2> QED
    BY <2>1, <2>3, <2>4, <2>5, <2>6 DEF Types
<1>7. CASE Others
  BY <1>7, OthersStep, OthersTasks, OthersElse DEF Types
<1>8. CASE UNCHANGED vars
  BY <1>0, <1>8 DEF vars, Types
<1> QED
  BY <1>1, <1>2, <1>3, <1>4, <1>5, <1>6, <1>7, <1>8, StepCases

\* What a request's own step leaves alone.
Alone(r) ==
    /\ \A q \in Requests \ {r} : /\ at'[q] = at[q] /\ ask'[q] = ask[q] /\ guess'[q] = guess[q]
                                /\ seen'[q] = seen[q]
    /\ UNCHANGED <<funds, allowance, tasks, bets, now, paused, controls, met>>
    /\ files \subseteq files' /\ doubted \subseteq doubted'

\* Where a request can go from where it stands, without touching the pool.
Walks(r) ==
    LET w == WalletOf(r) IN
    /\ UNCHANGED <<pool, sent>>
    /\ \/ at[r] = "idle" /\ at'[r] \in {"start", "error"}
       \/ at[r] = "start" /\ at'[r] = "approving"
       \/ at[r] = "start" /\ at'[r] = "ready" /\ (approved[w] \/ allowance[w])
       \/ at[r] = "approving" /\ at'[r] = "sending approval"
       \/ at[r] = "ready" /\ at'[r] \in {"simulated", "error"}
       \/ at[r] = "simulated" /\ at'[r] \in {"sending", "error"}
       \/ at[r] \in {"sending approval", "sending"} /\ at'[r] = "error"
       \/ at[r] = "waiting approval" /\ ~Waits(r) /\ at'[r] = "ready"
       \/ at[r] = "waiting" /\ ~Waits(r) /\ at'[r] = "done"
       \/ at[r] \in {"waiting approval", "waiting"} /\ at'[r] = "error" /\ r \in doubted'
    /\ seen'[r] \in {seen[r], sent[w]}
    /\ \A v \in Wallets : approved'[v] =>
           \/ approved[v] \/ allowance[v]
           \/ v = w /\ at[r] = "waiting approval" /\ ~Waits(r)

\* Or with its transaction.
SendsOut(r, tx) ==
    LET w == WalletOf(r) IN
    /\ tx \in Txs /\ tx.request = r
    /\ \/ tx.kind = "call" /\ at[r] = "sending" /\ at'[r] = "waiting"
       \/ tx.kind = "approve" /\ at[r] = "sending approval" /\ at'[r] = "waiting approval"
    /\ Elements(pool'[w]) = Pending(w) \cup {tx}
    /\ \A v \in Wallets \ {w} : pool'[v] = pool[v] /\ sent'[v] = sent[v]
    /\ sent'[w] = sent[w] + 1 /\ Len(pool'[w]) = Len(pool[w]) + 1
    /\ Distinct(pool[w]) /\ tx \notin Pending(w) => Distinct(pool'[w])
    /\ UNCHANGED <<ask, guess, seen, approved, files, doubted>>

\* Most steps leave what was asked for and found out.
Keeps(r) == at[r] # "idle" /\ UNCHANGED <<ask, guess, files>>

LEMMA WalkCases ==
    ASSUME Types, NEW r \in Requests,
           \/ PostsTask(r) \/ PostsBet(r) \/ Rejects(r) \/ ReadsAllowance(r)
           \/ Simulates(r) \/ Prepares(r) \/ HearsReceipt(r) \/ LosesReceipt(r)
    PROVE  Alone(r) /\ Walks(r) /\ (PostsTask(r) \/ PostsBet(r) \/ Simulates(r) \/ Keeps(r))
<1> USE DEF Types, Set, Goes, Alone, Walks, Keeps, wallets, chainVars, history
<1>1. CASE PostsTask(r)
  BY <1>1 DEF PostsTask
<1>2. CASE PostsBet(r)
  BY <1>2 DEF PostsBet
<1>3. CASE Rejects(r)
  BY <1>3 DEF Rejects
<1>4. CASE ReadsAllowance(r)
  BY <1>4 DEF ReadsAllowance
<1>5. CASE Simulates(r)
  <2>1. r \in Markets \/ UNCHANGED guess
    BY <1>5 DEF Simulates
  <2>2. \A q \in Requests \ {r} : guess'[q] = guess[q]
    BY <1>5, <2>1 DEF Simulates
  <2>3. files \subseteq files'
    BY <1>5 DEF Simulates, Writes
  <2>4. Alone(r)
    BY <1>5, <2>2, <2>3 DEF Simulates
  <2>5. Walks(r)
    BY <1>5 DEF Simulates
  <2> QED
    BY <1>5, <2>4, <2>5
<1>6. CASE Prepares(r)
  BY <1>6 DEF Prepares
<1>7. CASE HearsReceipt(r)
  <2>1. Alone(r) /\ Keeps(r)
    BY <1>7 DEF HearsReceipt
  <2>2. Walks(r)
    BY <1>7 DEF HearsReceipt
  <2> QED
    BY <2>1, <2>2
<1>8. CASE LosesReceipt(r)
  BY <1>8 DEF LosesReceipt
<1> QED
  BY <1>1, <1>2, <1>3, <1>4, <1>5, <1>6, <1>7, <1>8

LEMMA SendCases ==
    ASSUME Types, NEW r \in Requests, Sends(r)
    PROVE  /\ Alone(r) /\ Keeps(r)
           /\ \/ Walks(r)
              \/ \E tx \in Txs : SendsOut(r, tx)
<1>1. UNCHANGED <<ask, guess, seen, approved, files, funds, allowance, tasks, bets, now,
                 paused, controls, met, doubted>>
  BY DEF Sends, chainVars, history
<1>2. at \in [Requests -> {"idle", "start", "approving", "ready", "simulated",
                            "sending approval", "waiting approval", "sending", "waiting",
                            "done", "error"}]
      /\ pool \in [Wallets -> Seq(Txs)] /\ sent \in [Wallets -> Nat] /\ WalletOf(r) \in Wallets
  BY RequestFacts DEF Types
<1>3. \A q \in Requests \ {r} : at'[q] = at[q]
  <2>1. PICK place : at' = Set(at, r, place)
    BY SendStep
  <2> QED
    BY <1>2, <2>1 DEF Set
<1>4. Alone(r)
  BY <1>1, <1>3 DEF Alone
<1>5. CASE /\ at[r] \in {"sending approval", "sending"} /\ at' = Set(at, r, "error")
           /\ UNCHANGED <<pool, sent>>
  <2>1. Walks(r)
    BY <1>1, <1>2, <1>5 DEF Walks, Set
  <2>2. Keeps(r)
    BY <1>1, <1>5 DEF Keeps
  <2> QED
    BY <1>4, <2>1, <2>2
<1>6. ASSUME NEW tx \in Txs, tx.request = r,
             \/ /\ tx.kind = "call" /\ at[r] = "sending" /\ at' = Set(at, r, "waiting")
             \/ /\ tx.kind = "approve" /\ at[r] = "sending approval"
                /\ at' = Set(at, r, "waiting approval"),
             pool' = Set(pool, WalletOf(r), Append(pool[WalletOf(r)], tx)),
             sent' = Set(sent, WalletOf(r), sent[WalletOf(r)] + 1)
      PROVE  SendsOut(r, tx)
  <2> DEFINE w == WalletOf(r)
             q == pool[w]
  <2>1. q \in Seq(Txs)
    BY <1>2
  <2>2. /\ Elements(Append(q, tx)) = Elements(q) \cup {tx} /\ Len(Append(q, tx)) = Len(q) + 1
        /\ Distinct(q) /\ tx \notin Elements(q) => Distinct(Append(q, tx))
    BY <2>1, QueueAppend
  <2>3. pool'[w] = Append(q, tx) /\ \A v \in Wallets \ {w} : pool'[v] = pool[v]
    BY <1>2, <1>6 DEF Set
  <2>4. sent'[w] = sent[w] + 1 /\ \A v \in Wallets \ {w} : sent'[v] = sent[v]
    BY <1>2, <1>6 DEF Set
  <2>5. Pending(w) = Elements(q)
    BY DEF Pending
  <2>6. \/ tx.kind = "call" /\ at[r] = "sending" /\ at'[r] = "waiting"
        \/ tx.kind = "approve" /\ at[r] = "sending approval" /\ at'[r] = "waiting approval"
    BY <1>2, <1>6 DEF Set
  <2> QED
    BY <1>1, <1>6, <2>2, <2>3, <2>4, <2>5, <2>6 DEF SendsOut
<1>7. CASE /\ at[r] \in {"sending approval", "sending"} /\ \E tx \in Txs : SendsOut(r, tx)
  BY <1>1, <1>4, <1>7 DEF Keeps
<1>8. at[r] \in {"sending approval", "sending"}
  BY SendStep
<1> QED
  BY <1>5, <1>6, <1>7, <1>8, SendStep

(* The steps again: a request walks, sends, or the chain moves.            *)
LEMMA StepsOf ==
    ASSUME Types, [Next]_vars
    PROVE  \/ \E r \in Requests :
                 /\ Alone(r) /\ Walks(r)
                 /\ PostsTask(r) \/ PostsBet(r) \/ Simulates(r) \/ Keeps(r)
           \/ \E r \in Requests : Alone(r) /\ Keeps(r) /\ \E tx \in Txs : SendsOut(r, tx)
           \/ \E w \in Wallets : Mines(w)
           \/ Others \/ UNCHANGED vars
BY StepCases, WalkCases, SendCases

(* A block adds at most the market it decides on.                          *)
LEMMA MineKept ==
    ASSUME UNCHANGED tasks, NEW r
    PROVE  Mine(r)' = Mine(r)
BY DEF Mine

LEMMA MineOthers ==
    ASSUME Types, Others, NEW r \in Requests
    PROVE  Mine(r)' = Mine(r)
<1>1. r # "other" /\ DOMAIN tasks = 1..Len(tasks) /\ Len(tasks) \in Nat /\ tasks \in Seq(ChainTasks)
  BY RequestFacts, Chain DEF Types
<1>2. ASSUME NEW t \in ChainTasks, t.by = "other", tasks' = Append(tasks, t)
      PROVE  Mine(r)' = Mine(r)
  <2>1. /\ DOMAIN tasks' = 1..(Len(tasks) + 1) /\ tasks'[Len(tasks) + 1] = t
        /\ \A i \in DOMAIN tasks : tasks'[i] = tasks[i]
    BY <1>1, <1>2
  <2> QED
    BY <1>1, <1>2, <2>1 DEF Mine
<1>3. CASE DOMAIN tasks' = DOMAIN tasks
  BY <1>3, OthersTasks DEF Mine, TasksKept
<1> QED
  BY <1>2, <1>3, OthersTasks

LEMMA RaisedKeeps ==
    ASSUME Types, NEW i, NEW side, NEW amount, tasks' = Raised(i, side, amount)
    PROVE  /\ DOMAIN tasks' = DOMAIN tasks
           /\ \A j \in DOMAIN tasks : tasks'[j].by = tasks[j].by
<1>1. tasks' = [tasks EXCEPT ![i] = [tasks[i] EXCEPT !.pools =
                   [tasks[i].pools EXCEPT ![side] = tasks[i].pools[side] + amount]]]
  BY DEF Raised
<1>2. DOMAIN tasks' = DOMAIN tasks
  BY <1>1 DEF Types
<1>3. ASSUME NEW j \in DOMAIN tasks
      PROVE  tasks'[j].by = tasks[j].by
  <2>1. CASE j # i
    BY <1>1, <2>1 DEF Types
  <2>2. CASE j = i
    <3> DEFINE pools == [tasks[i].pools EXCEPT ![side] = tasks[i].pools[side] + amount]
    <3>1. tasks'[i] = [tasks[i] EXCEPT !.pools = pools]
      BY <1>1, <2>2 DEF Types
    <3> HIDE DEF pools
    <3>0. tasks \in Seq(ChainTasks)
      BY DEF Types
    <3>2. tasks[i] \in ChainTasks
      BY <2>2, <3>0
    <3>3. [tasks[i] EXCEPT !.pools = pools].by = tasks[i].by
      BY <3>2, TaskWith
    <3> QED
      BY <2>2, <3>1, <3>3
  <2> QED
    BY <2>1, <2>2
<1> QED
  BY <1>2, <1>3

LEMMA MineDecided ==
    ASSUME Types, NEW w \in Wallets, NEW tx \in Txs, Decides(w, tx), NEW r \in Requests
    PROVE  /\ r # tx.request => Mine(r)' = Mine(r) /\ (r \in bets' <=> r \in bets)
           /\ tx.kind = "approve" => Mine(r)' = Mine(r) /\ UNCHANGED bets
<1>1. DOMAIN tasks = 1..Len(tasks) /\ Len(tasks) \in Nat /\ tasks \in Seq(ChainTasks)
  BY Chain DEF Types
<1>2. CASE UNCHANGED tasks
  BY <1>2, MineKept DEF Decides
<1>3. CASE /\ tx.kind = "call" /\ UNCHANGED bets
           /\ tasks' = Append(tasks, Task(tx.request, ask[tx.request].deadline, guess[tx.request][2], {}))
  <2>1. /\ DOMAIN tasks' = 1..(Len(tasks) + 1) /\ tasks'[Len(tasks) + 1].by = tx.request
        /\ \A i \in DOMAIN tasks : tasks'[i] = tasks[i]
    BY <1>1, <1>3 DEF Task
  <2> QED
    BY <1>1, <1>3, <2>1 DEF Mine
<1>4. CASE /\ tx.kind = "call" /\ bets' = bets \cup {tx.request}
           /\ tasks' = Raised(ask[tx.request].task, ask[tx.request].side, ask[tx.request].pay)
  BY <1>4, RaisedKeeps DEF Mine
<1> QED
  BY <1>2, <1>3, <1>4 DEF Decides

LEMMA OutOf ==
    ASSUME OneOut, NEW w \in Wallets, NEW tx \in Pending(w)
    PROVE  IsOut(w, tx) /\ tx.request \in Requests
<1>1. IsOut(w, tx)
  BY DEF OneOut
<1> QED
  BY <1>1 DEF IsOut, Txs

LEMMA OutOnce ==
    ASSUME OneOut, NEW w \in Wallets, NEW tx \in Pending(w),
           NEW v \in Wallets, NEW other \in Pending(v), other.request = tx.request
    PROVE  other = tx /\ v = w
<1>1. w = WalletOf(tx.request) /\ v = WalletOf(other.request)
  BY DEF OneOut, IsOut
<1> QED
  BY <1>1 DEF OneOut

\* What keeps a transaction of r's out.
Undisturbed(r) ==
    /\ Mine(r)' = Mine(r) /\ (r \in bets' => r \in bets)
    /\ at'[r] = at[r] \/ (at'[r] = "error" /\ r \in doubted')

(* OneOut survives when what is out stays out, or is dropped.              *)
LEMMA OneOutFrom ==
    ASSUME OneOut, doubted \subseteq doubted',
           \A w \in Wallets : Distinct(pool'[w]) /\ Elements(pool'[w]) \subseteq Pending(w),
           \A w \in Wallets : \A tx \in Elements(pool'[w]) : Undisturbed(tx.request),
           \A r \in Requests : Mine(r)' # {} \/ r \in bets' =>
               \/ at'[r] \in {"waiting", "done"}
               \/ at'[r] = "error" /\ r \in doubted'
    PROVE  OneOut'
<1>1. ASSUME NEW w \in Wallets, NEW tx \in Elements(pool'[w])
      PROVE  IsOut(w, tx)'
  <2>1. tx \in Pending(w)
    BY <1>1
  <2>2. IsOut(w, tx)
    BY <2>1 DEF OneOut
  <2>3. Undisturbed(tx.request)
    BY <1>1
  <2> QED
    BY <2>2, <2>3 DEF IsOut, AwaitedOrDoubted, Undisturbed
<1>2. \A w \in Wallets : \A a, b \in Elements(pool'[w]) : a.request = b.request => a = b
  <2>1. \A w \in Wallets : \A a, b \in Pending(w) : a.request = b.request => a = b
    BY DEF OneOut
  <2> QED
    BY <2>1
<1>3. ASSUME NEW r \in Requests, Mine(r)' # {} \/ r \in bets'
      PROVE  AwaitedOrDoubted(r, "waiting")' \/ at'[r] = "done"
  BY <1>3 DEF AwaitedOrDoubted
<1> QED
  BY <1>1, <1>2, <1>3 DEF OneOut, Pending

LEMMA NextOneOut ==
    ASSUME Types, OneOut, [Next]_vars
    PROVE  OneOut'
<1>1. ASSUME NEW r \in Requests, Alone(r), Walks(r)
      PROVE  OneOut'
  <2>1. \A q \in Requests : Mine(q)' = Mine(q)
    BY <1>1, MineKept DEF Alone
  <2>2. UNCHANGED <<pool, bets>> /\ doubted \subseteq doubted'
    BY <1>1 DEF Alone, Walks
  <2>3. ASSUME NEW w \in Wallets, NEW tx \in Pending(w), tx.request = r
        PROVE  at'[r] = at[r] \/ (at'[r] = "error" /\ r \in doubted')
    <3>1. IsOut(w, tx) /\ Waits(r)
      BY <2>3, Waiting DEF OneOut, IsOut
    <3> QED
      BY <1>1, <2>2, <2>3, <3>1 DEF IsOut, AwaitedOrDoubted, Walks, Txs
  <2>4. ASSUME NEW q \in Requests, Mine(q) # {} \/ q \in bets
        PROVE  at'[q] \in {"waiting", "done"} \/ (at'[q] = "error" /\ q \in doubted')
    <3>1. AwaitedOrDoubted(q, "waiting") \/ at[q] = "done"
      BY <2>4 DEF OneOut
    <3> QED
      BY <1>1, <2>2, <3>1 DEF AwaitedOrDoubted, Alone, Walks
  <2>5. \A q \in Requests \ {r} : at'[q] = at[q]
    BY <1>1 DEF Alone
  <2>6. \A w \in Wallets : /\ Distinct(pool'[w]) /\ Elements(pool'[w]) = Pending(w)
    BY <2>2 DEF OneOut, Pending
  <2>7. ASSUME NEW w \in Wallets, NEW tx \in Elements(pool'[w])
        PROVE  Undisturbed(tx.request)
    <3>1. tx \in Pending(w) /\ tx.request \in Requests
      BY <2>6, <2>7, OutOf
    <3> QED
      BY <2>1, <2>2, <2>3, <2>5, <3>1 DEF Undisturbed
  <2>8. ASSUME NEW q \in Requests, Mine(q)' # {} \/ q \in bets'
        PROVE  at'[q] \in {"waiting", "done"} \/ (at'[q] = "error" /\ q \in doubted')
    BY <2>1, <2>2, <2>4, <2>8
  <2> QED
    BY <2>2, <2>6, <2>7, <2>8, OneOutFrom
<1>2. ASSUME NEW r \in Requests, Alone(r), NEW tx \in Txs, SendsOut(r, tx)
      PROVE  OneOut'
  <2> DEFINE w == WalletOf(r)
  <2>1. \A q \in Requests : Mine(q)' = Mine(q)
    BY <1>2, MineKept DEF Alone
  <2>2. /\ UNCHANGED <<bets, doubted>> /\ w \in Wallets /\ tx.request = r
        /\ \A q \in Requests \ {r} : at'[q] = at[q]
        /\ \/ tx.kind = "call" /\ at[r] = "sending" /\ at'[r] = "waiting"
           \/ tx.kind = "approve" /\ at[r] = "sending approval" /\ at'[r] = "waiting approval"
    BY <1>2, RequestFacts DEF Alone, SendsOut
  <2>3. ASSUME NEW v \in Wallets, NEW old \in Pending(v)
        PROVE  old.request # r
    <3>1. IsOut(v, old)
      BY DEF OneOut
    <3> QED
      BY <2>2, <3>1 DEF IsOut, AwaitedOrDoubted, Txs
  <2>4. Mine(r) = {} /\ r \notin bets
    BY <2>2 DEF OneOut, AwaitedOrDoubted
  <2>5. /\ Elements(pool'[w]) = Pending(w) \cup {tx} /\ Distinct(pool'[w])
        /\ \A v \in Wallets \ {w} : Elements(pool'[v]) = Pending(v) /\ Distinct(pool'[v])
    BY <1>2, <2>2, <2>3 DEF SendsOut, OneOut, Pending
  <2>6. ASSUME NEW v \in Wallets, NEW old \in Pending(v)
        PROVE  IsOut(v, old)'
    <3>1. IsOut(v, old) /\ old.request \in Requests \ {r}
      BY <2>3, OutOf
    <3> QED
      BY <2>1, <2>2, <3>1 DEF IsOut, AwaitedOrDoubted
  <2>7. IsOut(w, tx)'
    BY <2>1, <2>2, <2>4 DEF IsOut, AwaitedOrDoubted
  <2>8. \A q \in Requests : Mine(q)' # {} \/ q \in bets' =>
           AwaitedOrDoubted(q, "waiting")' \/ at'[q] = "done"
    <3>1. ASSUME NEW q \in Requests, Mine(q) # {} \/ q \in bets
          PROVE  AwaitedOrDoubted(q, "waiting")' \/ at'[q] = "done"
      BY <2>2, <2>4, <3>1 DEF OneOut, AwaitedOrDoubted
    <3> QED
      BY <2>1, <2>2, <3>1
  <2>9. \A v \in Wallets : /\ Distinct(pool'[v])
                          /\ \A a \in Elements(pool'[v]) : IsOut(v, a)'
    BY <2>5, <2>6, <2>7
  <2>10. ASSUME NEW v \in Wallets, NEW a \in Elements(pool'[v]), NEW b \in Elements(pool'[v]),
                a.request = b.request
         PROVE  a = b
    <3>1. \A x, y \in Pending(v) : x.request = y.request => x = y
      BY DEF OneOut
    <3>2. a \in Pending(v) \cup {tx} /\ b \in Pending(v) \cup {tx}
      BY <2>5, <2>10
    <3> QED
      BY <2>2, <2>3, <2>10, <3>1, <3>2
  <2> HIDE DEF w
  <2> QED
    BY <2>8, <2>9, <2>10 DEF OneOut, Pending
<1>3. ASSUME NEW w \in Wallets, Mines(w)
      PROVE  OneOut'
  <2>1. PICK tx \in Txs :
              /\ tx \in Pending(w) /\ Elements(pool'[w]) = Pending(w) \ {tx}
              /\ \A v \in Wallets \ {w} : pool'[v] = pool[v]
              /\ Distinct(pool'[w])
              /\ Decides(w, tx)
    BY <1>3, BlockStep DEF OneOut
  <2>2. UNCHANGED <<at, doubted>> /\ IsOut(w, tx) /\ tx.request \in Requests
    BY <1>3, <2>1 DEF Mines, OneOut, Txs
  <2>3. \A v \in Wallets : Distinct(pool'[v]) /\ Elements(pool'[v]) \subseteq Pending(v)
    BY <2>1 DEF OneOut, Pending
  <2>4. \A v \in Wallets : \A other \in Elements(pool'[v]) : other.request # tx.request
    BY <2>1, <2>3, OutOnce
  <2>5. \A q \in Requests : q # tx.request => Mine(q)' = Mine(q) /\ (q \in bets' <=> q \in bets)
    BY <2>1, MineDecided
  <2>6. tx.kind = "approve" => Mine(tx.request)' = Mine(tx.request) /\ UNCHANGED bets
    BY <2>1, <2>2, MineDecided
  <2>7. ASSUME NEW q \in Requests, Mine(q)' # {} \/ q \in bets'
        PROVE  at'[q] \in {"waiting", "done"} \/ (at'[q] = "error" /\ q \in doubted')
    <3>1. CASE q # tx.request \/ tx.kind = "approve"
      BY <2>2, <2>5, <2>6, <2>7, <3>1 DEF OneOut, AwaitedOrDoubted
    <3>2. CASE q = tx.request /\ tx.kind = "call"
      BY <2>2, <3>2 DEF IsOut, AwaitedOrDoubted
    <3> QED
      BY <3>1, <3>2 DEF Txs
  <2>8. ASSUME NEW v \in Wallets, NEW other \in Elements(pool'[v])
        PROVE  Undisturbed(other.request)
    <3>1. other \in Pending(v) /\ other.request \in Requests /\ other.request # tx.request
      BY <2>3, <2>4, <2>8, OutOf
    <3> QED
      BY <2>2, <2>5, <3>1 DEF Undisturbed
  <2> QED
    BY <2>2, <2>3, <2>7, <2>8, OneOutFrom
<1>4. CASE Others
  <2>1. \A q \in Requests : Mine(q)' = Mine(q)
    BY <1>4, MineOthers
  <2>2. UNCHANGED <<at, pool, bets, doubted>>
    BY <1>4, OthersStep
  <2>3. \A w \in Wallets : Distinct(pool'[w]) /\ Elements(pool'[w]) = Pending(w)
    BY <2>2 DEF OneOut, Pending
  <2>4. \A w \in Wallets : \A tx \in Elements(pool'[w]) : tx.request \in Requests
    BY <2>3, OutOf
  <2>5. \A q \in Requests : Undisturbed(q)
    BY <2>1, <2>2 DEF Undisturbed
  <2> QED
    BY <2>1, <2>2, <2>3, <2>4, <2>5, OneOutFrom DEF OneOut, AwaitedOrDoubted
<1>5. CASE UNCHANGED vars
  <2>1. \A q \in Requests : Mine(q)' = Mine(q)
    BY <1>5, MineKept DEF vars, chainVars
  <2>2. UNCHANGED <<at, pool, bets, doubted>>
    BY <1>5 DEF vars, wallets, chainVars, history
  <2>3. \A w \in Wallets : Distinct(pool'[w]) /\ Elements(pool'[w]) = Pending(w)
    BY <2>2 DEF OneOut, Pending
  <2>4. \A w \in Wallets : \A tx \in Elements(pool'[w]) : tx.request \in Requests
    BY <2>3, OutOf
  <2>5. \A q \in Requests : Undisturbed(q)
    BY <2>1, <2>2 DEF Undisturbed
  <2> QED
    BY <2>1, <2>2, <2>3, <2>4, <2>5, OneOutFrom DEF OneOut, AwaitedOrDoubted
<1> QED
  BY <1>1, <1>2, <1>3, <1>4, <1>5, StepsOf

LEMMA NextCounts ==
    ASSUME Types, Types', OneOut, Counts, TasksKept, [Next]_vars
    PROVE  Counts'
<1> USE DEF Counts
<1>1. ASSUME NEW r \in Requests, Alone(r), Walks(r),
             PostsTask(r) \/ PostsBet(r) \/ Simulates(r) \/ Keeps(r)
      PROVE  Counts'
  <2>1. Len(tasks) \in Nat /\ sent \in [Wallets -> Nat] /\ WalletOf(r) \in Wallets
    BY Chain, RequestFacts DEF Types
  <2>2. guess'[r] = guess[r] \/ guess'[r][1] = Len(tasks) + 1
    <3>1. CASE Simulates(r)
      <4>1. CASE r \in Markets
        <5>1. PICK spec \in Resolves(r) : guess' = [guess EXCEPT ![r] = <<Len(tasks) + 1, spec>>]
          BY <3>1, <4>1 DEF Simulates, Set
        <5>2. guess'[r] = <<Len(tasks) + 1, spec>>
          BY <5>1 DEF Types
        <5> QED
          BY <5>2
      <4>2. CASE r \notin Markets
        BY <3>1, <4>2 DEF Simulates
      <4> QED
        BY <4>1, <4>2
    <3>2. CASE PostsTask(r) \/ PostsBet(r) \/ Keeps(r)
      BY <3>2 DEF PostsTask, PostsBet, Keeps
    <3> QED
      BY <1>1, <3>1, <3>2
  <2>3. UNCHANGED <<pool, sent, tasks>> /\ seen'[r] \in {seen[r], sent[WalletOf(r)]}
    BY <1>1 DEF Alone, Walks
  <2>4. guess'[r][1] <= Len(tasks) + 1 /\ seen'[r] <= sent[WalletOf(r)]
    BY <2>1, <2>2, <2>3
  <2>5. \A q \in Requests \ {r} : guess'[q] = guess[q] /\ seen'[q] = seen[q]
    BY <1>1 DEF Alone
  <2>6. \A q \in Requests : guess'[q][1] <= Len(tasks) + 1 /\ seen'[q] <= sent[WalletOf(q)]
    BY <2>4, <2>5
  <2> QED
    BY <2>3, <2>6 DEF WalletOf
<1>2. ASSUME NEW r \in Requests, Alone(r), NEW tx \in Txs, SendsOut(r, tx)
      PROVE  Counts'
  <2>1. UNCHANGED <<guess, seen, tasks>> /\ sent \in [Wallets -> Nat]
    BY <1>2 DEF Alone, SendsOut, Types
  <2>2. \A q \in Requests : WalletOf(q) \in Wallets /\ seen[q] \in Nat
    BY RequestFacts DEF Types
  <2>3. \A v \in Wallets : Len(pool[v]) \in Nat
    <3>1. \A v \in Wallets : pool[v] \in Seq(Txs)
      BY DEF Types
    <3> QED
      BY <3>1
  <2>4. \A v \in Wallets :
           \/ sent'[v] = sent[v] /\ pool'[v] = pool[v]
           \/ sent'[v] = sent[v] + 1 /\ Len(pool'[v]) = Len(pool[v]) + 1
    BY <1>2 DEF SendsOut
  <2>5. \A v \in Wallets : sent'[v] >= Len(pool'[v]) /\ sent'[v] >= sent[v] /\ sent'[v] \in Nat
    BY <2>1, <2>3, <2>4
  <2>6. \A q \in Requests : seen[q] <= sent'[WalletOf(q)]
    BY <2>1, <2>2, <2>5
  <2> QED
    BY <2>1, <2>5, <2>6 DEF WalletOf
<1>3. ASSUME NEW w \in Wallets, Mines(w)
      PROVE  Counts'
  <2>1. \A v \in Wallets : Len(pool'[v]) <= Len(pool[v]) /\ Len(pool'[v]) \in Nat /\ Len(pool[v]) \in Nat
    <3>1. Len(pool'[w]) = Len(pool[w]) - 1 /\ \A v \in Wallets \ {w} : pool'[v] = pool[v]
      BY <1>3, BlockStep DEF OneOut
    <3>2. \A v \in Wallets : pool[v] \in Seq(Txs) /\ pool'[v] \in Seq(Txs)
      BY DEF Types
    <3>3. \A v \in Wallets : Len(pool[v]) \in Nat /\ Len(pool'[v]) \in Nat
      BY <3>2
    <3> QED
      BY <3>1, <3>3
  <2>2. UNCHANGED <<guess, seen, sent>> /\ Len(tasks) <= Len(tasks')
    BY <1>3 DEF Mines, TasksKept
  <2>3. sent \in [Wallets -> Nat] /\ \A q \in Requests : guess[q][1] \in Nat
    BY Asked DEF Types
  <2>4. tasks \in Seq(ChainTasks) /\ tasks' \in Seq(ChainTasks)
    BY DEF Types
  <2>5. Len(tasks) \in Nat /\ Len(tasks') \in Nat
    BY <2>4
  <2> QED
    BY <2>1, <2>2, <2>3, <2>5 DEF WalletOf
<1>4. CASE Others
  <2>1. UNCHANGED <<guess, seen, pool>> /\ Len(tasks) <= Len(tasks') /\ Len(tasks) \in Nat
    BY <1>4, OthersStep, OthersTasks, Chain DEF TasksKept
  <2>2. \A q \in Requests : guess[q][1] \in Nat /\ seen[q] \in Nat /\ WalletOf(q) \in Wallets
    BY Asked, RequestFacts DEF Types
  <2>3. tasks' \in Seq(ChainTasks)
    BY <1>4, OthersTasks
  <2>4. Len(tasks') \in Nat
    BY <2>3
  <2>5. \A w \in Wallets : sent[w] <= sent'[w] /\ sent[w] \in Nat /\ sent'[w] \in Nat /\ pool[w] \in Seq(Txs)
    BY <1>4, OthersElse DEF Types
  <2>6. \A w \in Wallets : Len(pool[w]) \in Nat
    BY <2>5
  <2>7. \A w \in Wallets : sent'[w] >= Len(pool[w])
    BY <2>5, <2>6
  <2>8. \A q \in Requests : guess[q][1] <= Len(tasks') + 1 /\ seen[q] <= sent'[WalletOf(q)]
    BY <2>1, <2>2, <2>4, <2>5
  <2> QED
    BY <2>1, <2>7, <2>8 DEF WalletOf
<1>5. CASE UNCHANGED vars
  BY <1>5 DEF vars, wallets, chainVars, WalletOf
<1> QED
  BY <1>1, <1>2, <1>3, <1>4, <1>5, StepsOf

LEMMA NextAllowances ==
    ASSUME Types, OneOut, Allowances, [Next]_vars
    PROVE  Allowances'
<1> USE DEF Allowances, FlagFollowsAllowance
<1>1. ASSUME NEW r \in Requests, Alone(r), Walks(r)
      PROVE  Allowances'
  <2>1. UNCHANGED <<allowance, pool>> /\ \A q \in Requests : WalletOf(q) \in Wallets
    BY <1>1, RequestFacts DEF Alone, Walks
  <2>2. \A q \in Requests : Waits(q)' <=> Waits(q)
    BY <2>1, Waiting, WaitingAfter DEF Pending
  <2>3. \A q \in Requests \ {r} : at'[q] = at[q]
    BY <1>1 DEF Alone
  <2>4. \A w \in Wallets : approved'[w] => allowance'[w]
    BY <1>1, <2>1 DEF Walks
  <2>5. at'[r] # "waiting approval" \/ allowance[WalletOf(r)]
    BY <1>1 DEF Walks
  <2>6. at'[r] \in {"ready", "simulated", "sending", "waiting", "done"} => allowance[WalletOf(r)]
    BY <1>1, <2>1 DEF Walks
  <2>7. ASSUME NEW q \in Requests
        PROVE  /\ at'[q] = "waiting approval" => allowance'[WalletOf(q)] \/ Waits(q)'
               /\ at'[q] \in {"ready", "simulated", "sending", "waiting", "done"} =>
                     allowance'[WalletOf(q)]
    BY <2>1, <2>2, <2>3, <2>5, <2>6
  <2> QED
    BY <2>4, <2>7 DEF WalletOf
<1>2. ASSUME NEW r \in Requests, Alone(r), NEW tx \in Txs, SendsOut(r, tx)
      PROVE  Allowances'
  <2>1. UNCHANGED <<allowance, approved>> /\ WalletOf(r) \in Wallets /\ tx.request = r
    BY <1>2, RequestFacts DEF Alone, SendsOut
  <2>2. \A v \in Wallets : Pending(v) \subseteq Elements(pool'[v])
    BY <1>2 DEF SendsOut, Pending
  <2>3. tx \in Elements(pool'[WalletOf(r)])
    BY <1>2, <2>1 DEF SendsOut
  <2>4. \A q \in Requests \ {r} : at'[q] = at[q]
    BY <1>2 DEF Alone
  <2>5. ASSUME NEW q \in Requests \ {r}
        PROVE  /\ at'[q] = "waiting approval" => allowance'[WalletOf(q)] \/ Waits(q)'
               /\ at'[q] \in {"ready", "simulated", "sending", "waiting", "done"} =>
                     allowance'[WalletOf(q)]
    BY <2>1, <2>2, <2>4, Waiting, WaitingAfter, RequestFacts
  <2>6. Waits(r)'
    BY <2>1, <2>3, WaitingAfter
  <2>7. at'[r] = "waiting approval" \/ (at[r] = "sending" /\ at'[r] = "waiting")
    BY <1>2 DEF SendsOut
  <2> QED
    BY <2>1, <2>5, <2>6, <2>7 DEF WalletOf
<1>3. ASSUME NEW w \in Wallets, Mines(w)
      PROVE  Allowances'
  <2>1. PICK tx \in Txs :
              /\ tx \in Pending(w) /\ Elements(pool'[w]) = Pending(w) \ {tx}
              /\ \A v \in Wallets \ {w} : pool'[v] = pool[v]
              /\ Decides(w, tx)
    BY <1>3, BlockStep DEF OneOut
  <2>2. UNCHANGED <<at, approved>> /\ IsOut(w, tx)
    BY <1>3, <2>1 DEF Mines, OneOut
  <2>3. /\ \A v \in Wallets : allowance[v] => allowance'[v]
        /\ tx.kind = "approve" => allowance'[w]
    BY <2>1 DEF Decides, Set, Types
  <2>4. \A v \in Wallets : \A other \in Pending(v) : other = tx \/ other \in Elements(pool'[v])
    BY <2>1 DEF Pending
  <2>5. ASSUME NEW q \in Requests, at[q] = "waiting approval", ~allowance'[WalletOf(q)]
        PROVE  Waits(q)'
    <3>1. WalletOf(q) \in Wallets /\ Waits(q)
      BY <2>3, <2>5, RequestFacts
    <3>2. PICK other \in Pending(WalletOf(q)) : other.request = q
      BY <3>1, Waiting
    <3>3. other # tx
      BY <2>2, <2>3, <2>5, <3>2 DEF IsOut, AwaitedOrDoubted, Txs
    <3> QED
      BY <2>4, <3>1, <3>2, <3>3, WaitingAfter
  <2>6. \A q \in Requests : WalletOf(q) \in Wallets
    BY RequestFacts
  <2> QED
    BY <2>2, <2>3, <2>5, <2>6 DEF WalletOf
<1>4. CASE Others \/ UNCHANGED vars
  <2>1. UNCHANGED <<at, approved, allowance, pool>>
    BY <1>4, OthersStep DEF vars, wallets
  <2>2. \A q \in Requests : Waits(q)' <=> Waits(q)
    BY <2>1, Waiting, WaitingAfter DEF Pending
  <2> QED
    BY <2>1, <2>2 DEF WalletOf
<1> QED
  BY <1>1, <1>2, <1>3, <1>4, StepsOf

LEMMA NextAsked ==
    ASSUME Types, AskedWithinLimits, TasksKept, [Next]_vars
    PROVE  AskedWithinLimits'
<1> USE DEF AskedWithinLimits
\* What was asked for stays, but for the deadline that the simulation sets.
<1>1. ASSUME \A r \in Requests :
               /\ at'[r] # "idle" => at[r] # "idle"
               /\ at'[r] \notin {"idle", "error"} => at[r] \notin {"idle", "error"}
               /\ ask'[r].pay = ask[r].pay /\ ask'[r].window = ask[r].window
               /\ ask'[r].template = ask[r].template /\ ask'[r].spec = ask[r].spec
               /\ ask'[r].task = ask[r].task /\ ask'[r].side = ask[r].side,
             files \subseteq files'
      PROVE  AskedWithinLimits'
  BY <1>1 DEF TasksKept, TemplateOf, Requests
<1>2. ASSUME NEW r \in Requests, Alone(r), Walks(r), PostsTask(r)
      PROVE  AskedWithinLimits'
  <2>1. PICK reward \in Rewards, window \in Windows, form \in Form :
           ask' = [ask EXCEPT ![r] =
              [pay |-> AtLeast(AtLeast(reward, 1), MinReward),
               window |-> AtLeast(AtLeast(window, 1), BETTING_WINDOW + MARGIN),
               deadline |-> 0, task |-> 0, side |-> "yes",
               template |-> form.template, spec |-> form.spec]]
    BY <1>2 DEF PostsTask, Set
  <2> DEFINE a == ask'[r]
  <2>2. /\ a.pay = AtLeast(AtLeast(reward, 1), MinReward)
        /\ a.window = AtLeast(AtLeast(window, 1), BETTING_WINDOW + MARGIN)
        /\ a.template = form.template /\ a.spec = form.spec
    BY <2>1 DEF Types
  <2>3. a.pay >= MinReward /\ a.window >= BETTING_WINDOW + MARGIN
    BY <2>2, ControlAssumption DEF AtLeast
  <2>4. \/ a.template = "none" /\ a.spec \in Questions
        \/ a.template = TemplateOf(a.spec) /\ (a.spec \in Builtins \/ a.spec \in files')
    <3>1. CASE form \in [template : {"none"}, spec : Questions \ files]
      BY <2>2, <3>1
    <3>2. CASE form \in {[template |-> TemplateOf(spec), spec |-> spec] : spec \in ListTemplates}
      <4>1. PICK spec \in ListTemplates : form = [template |-> TemplateOf(spec), spec |-> spec]
        BY <3>2
      <4>2. UNCHANGED files
        BY <1>2 DEF PostsTask
      <4> QED
        BY <2>2, <4>1, <4>2 DEF ListTemplates
    <3> QED
      BY <3>1, <3>2 DEF Form
  <2>5. r \in Markets /\ r \notin Bets
    BY <1>2, RequestFacts DEF PostsTask
  <2>6. \A q \in Requests \ {r} : at'[q] = at[q] /\ ask'[q] = ask[q]
    BY <1>2 DEF Alone
  <2> HIDE DEF a
  <2>7. files \subseteq files'
    BY <1>2 DEF Alone
  <2> QED
    BY <2>3, <2>4, <2>5, <2>6, <2>7 DEF TasksKept, TemplateOf, Requests, a
<1>3. ASSUME NEW r \in Requests, Alone(r), Walks(r), PostsBet(r)
      PROVE  AskedWithinLimits'
  <2>1. PICK i \in DOMAIN tasks, side \in Sides, amount \in BetSizes :
           /\ ask' = [ask EXCEPT ![r] = [NoAsk EXCEPT !.pay = amount, !.task = i, !.side = side]]
           /\ at' = [at EXCEPT ![r] = IF amount < MinBet THEN "error" ELSE "start"]
    BY <1>3 DEF PostsBet, Goes, Set
  <2>2. ask'[r].pay = amount /\ ask'[r].task = i
    BY <2>1 DEF Types, NoAsk
  <2>3. at'[r] # "error" => amount >= MinBet
    <3>1. at'[r] = IF amount < MinBet THEN "error" ELSE "start"
      BY <2>1 DEF Types
    <3>2. amount \in Nat /\ MinBet \in Nat
      BY ControlAssumption
    <3> QED
      BY <3>1, <3>2
  <2>4. r \in Bets /\ r \notin Markets /\ UNCHANGED files
    BY <1>3, RequestFacts DEF PostsBet
  <2>5. \A q \in Requests \ {r} : at'[q] = at[q] /\ ask'[q] = ask[q]
    BY <1>3 DEF Alone
  <2> QED
    BY <2>2, <2>3, <2>4, <2>5 DEF TasksKept, TemplateOf, Requests
<1>4. ASSUME NEW r \in Requests, Alone(r), Walks(r), Simulates(r)
      PROVE  AskedWithinLimits'
  <2>1. at[r] = "ready" /\ ask' = [ask EXCEPT ![r] = Timed(r)]
    BY <1>4 DEF Simulates, Goes, Set
  <2>2. ask[r] \in Asks
    BY DEF Types
  <2>3. ask'[r] = Timed(r)
    BY <2>1 DEF Types
  <2>4. /\ ask'[r].pay = ask[r].pay /\ ask'[r].window = ask[r].window
        /\ ask'[r].template = ask[r].template /\ ask'[r].spec = ask[r].spec
        /\ ask'[r].task = ask[r].task /\ ask'[r].side = ask[r].side
    BY <2>2, <2>3 DEF Asks, Timed
  <2> QED
    BY <1>1, <1>4, <2>1, <2>4 DEF Alone
<1>5. ASSUME NEW r \in Requests, Alone(r), Keeps(r),
             Walks(r) \/ \E tx \in Txs : SendsOut(r, tx)
      PROVE  AskedWithinLimits'
  <2>1. at'[r] # "idle" /\ (at'[r] # "error" => at[r] # "error")
    BY <1>5 DEF Walks, SendsOut, Keeps
  <2> QED
    BY <1>1, <1>5, <2>1 DEF Alone, Keeps
<1>6. CASE Others \/ UNCHANGED vars \/ \E w \in Wallets : Mines(w)
  BY <1>1, <1>6, OthersStep DEF vars, Mines
<1> QED
  BY <1>2, <1>3, <1>4, <1>5, <1>6, StepsOf

\* A request that has been simulated goes on with what it was simulated with.
GoesOn(r) == at'[r] \in Committed => /\ at[r] \in Committed
                                     /\ ask'[r] = ask[r]

LEMMA NextGoesOn ==
    ASSUME Types, [Next]_vars, NEW r \in Requests
    PROVE  GoesOn(r) \/ Simulates(r)
<1>1. ASSUME NEW q \in Requests, q # r, Alone(q)
      PROVE  GoesOn(r)
  BY <1>1 DEF Alone, GoesOn
<1>2. ASSUME Keeps(r), Walks(r) \/ \E tx \in Txs : SendsOut(r, tx)
      PROVE  at[r] = "ready" \/ GoesOn(r)
  BY <1>2 DEF Keeps, Walks, SendsOut, GoesOn, Committed
<1>3. ASSUME \/ PostsTask(r) \/ PostsBet(r) \/ Rejects(r) \/ ReadsAllowance(r)
             \/ Prepares(r) \/ Sends(r) \/ HearsReceipt(r) \/ LosesReceipt(r)
      PROVE  GoesOn(r)
  <2>1. CASE PostsTask(r) \/ PostsBet(r)
    BY <2>1 DEF PostsTask, PostsBet, Goes, Set, GoesOn, Committed, Types
  <2>2. CASE Rejects(r) \/ ReadsAllowance(r)
    BY <2>2 DEF Rejects, ReadsAllowance, Goes, Set, GoesOn, Committed, Types
  <2>3. CASE Prepares(r) \/ HearsReceipt(r) \/ LosesReceipt(r)
    BY <2>3 DEF Prepares, HearsReceipt, LosesReceipt, Goes, Set, GoesOn, Committed, Types
  <2>4. CASE Sends(r)
    <3>1. Keeps(r) /\ at[r] \in {"sending approval", "sending"}
      BY <2>4, SendCases, SendStep
    <3>2. at'[r] \in Committed => at[r] = "sending"
      BY <2>4, <3>1, SendStep DEF Set, Committed, Types
    <3> QED
      BY <3>1, <3>2 DEF Keeps, GoesOn, Committed
  <2> QED
    BY <1>3, <2>1, <2>2, <2>3, <2>4
<1>4. CASE Others \/ UNCHANGED vars \/ \E w \in Wallets : Mines(w)
  BY <1>4, OthersStep DEF vars, Mines, GoesOn
<1>5. ASSUME NEW q \in Requests, q # r,
             \/ PostsTask(q) \/ PostsBet(q) \/ Rejects(q) \/ ReadsAllowance(q)
             \/ Simulates(q) \/ Prepares(q) \/ Sends(q) \/ HearsReceipt(q) \/ LosesReceipt(q)
      PROVE  GoesOn(r)
  BY <1>1, <1>5, WalkCases, SendCases
<1> QED
  BY <1>3, <1>4, <1>5, StepCases

(* What a simulation leaves.                                               *)
LEMMA SimulationStep ==
    ASSUME Types, NEW r \in Requests, Simulates(r)
    PROVE  /\ at[r] = "ready" /\ at'[r] \in {"simulated", "error"}
           /\ ask'[r] = Timed(r)
           /\ ask'[r].pay = ask[r].pay /\ ask'[r].window = ask[r].window
           /\ ask'[r].template = ask[r].template /\ ask'[r].spec = ask[r].spec
           /\ ask'[r].task = ask[r].task /\ ask'[r].side = ask[r].side
           /\ at'[r] = "simulated" => Allowed(r, Timed(r))
           /\ r \in Markets => \E spec \in Resolves(r) : guess'[r] = <<Len(tasks) + 1, spec>>
           /\ r \notin Markets => guess'[r] = guess[r]
           /\ UNCHANGED <<tasks, bets, now, pool, funds, paused, controls, met>>
<1>1. /\ at' = [at EXCEPT ![r] = IF Allowed(r, Timed(r)) THEN "simulated" ELSE "error"]
      /\ at[r] = "ready" /\ ask' = [ask EXCEPT ![r] = Timed(r)]
      /\ UNCHANGED <<tasks, bets, now, pool, funds, paused, controls, met>>
  BY DEF Simulates, Goes, Set, wallets, chainVars
<1>2. ask[r] \in Asks
  BY DEF Types
<1>3. /\ Timed(r).pay = ask[r].pay /\ Timed(r).window = ask[r].window
      /\ Timed(r).template = ask[r].template /\ Timed(r).side = ask[r].side
      /\ Timed(r).spec = ask[r].spec /\ Timed(r).task = ask[r].task
  BY <1>2 DEF Asks, Timed
<1>4. at'[r] = (IF Allowed(r, Timed(r)) THEN "simulated" ELSE "error") /\ ask'[r] = Timed(r)
  BY <1>1 DEF Types
<1>5. r \in Markets => \E spec \in Resolves(r) : guess'[r] = <<Len(tasks) + 1, spec>>
  <2> SUFFICES ASSUME r \in Markets PROVE \E spec \in Resolves(r) : guess'[r] = <<Len(tasks) + 1, spec>>
    OBVIOUS
  <2>1. PICK spec \in Resolves(r) : guess' = [guess EXCEPT ![r] = <<Len(tasks) + 1, spec>>]
    BY DEF Simulates, Set
  <2>2. guess'[r] = <<Len(tasks) + 1, spec>>
    BY <2>1 DEF Types
  <2> QED
    BY <2>2
<1>6. r \notin Markets => guess'[r] = guess[r]
  BY DEF Simulates
<1> QED
  BY <1>1, <1>3, <1>4, <1>5, <1>6

(* A new task is another client's, or the mined request's, with its guess. *)
LEMMA NewTask ==
    ASSUME Types, OneOut, [Next]_vars, NEW i \in DOMAIN tasks', i \notin DOMAIN tasks
    PROVE  \/ tasks'[i].by = "other"
           \/ \E w \in Wallets : \E tx \in Pending(w) :
                 /\ tx.kind = "call" /\ tx.request \in Markets /\ i = Len(tasks) + 1
                 /\ tasks'[i].by = tx.request /\ tasks'[i].spec = guess[tx.request][2]
                 /\ UNCHANGED <<at, ask, guess, files>>
<1>1. DOMAIN tasks = 1..Len(tasks) /\ Len(tasks) \in Nat /\ tasks \in Seq(ChainTasks)
  BY Chain DEF Types
<1>2. tasks' # tasks
  OBVIOUS
<1>3. CASE Others
  <2>1. PICK t \in ChainTasks : t.by = "other" /\ tasks' = Append(tasks, t)
    BY <1>3, OthersTasks
  <2>2. i = Len(tasks) + 1 /\ tasks'[i] = t
    BY <1>1, <2>1
  <2> QED
    BY <2>1, <2>2
<1>4. ASSUME NEW w \in Wallets, Mines(w)
      PROVE  \E tx \in Pending(w) :
                 /\ tx.kind = "call" /\ tx.request \in Markets /\ i = Len(tasks) + 1
                 /\ tasks'[i].by = tx.request /\ tasks'[i].spec = guess[tx.request][2]
                 /\ UNCHANGED <<at, ask, guess, files>>
  <2>1. PICK tx \in Pending(w) : Decides(w, tx)
    BY <1>4, BlockStep DEF OneOut
  <2>2. /\ tx.kind = "call" /\ tx.request \in Markets
        /\ tasks' = Append(tasks, Task(tx.request, ask[tx.request].deadline, guess[tx.request][2], {}))
    BY <1>2, <2>1, RaisedKeeps DEF Decides
  <2>3. /\ i = Len(tasks) + 1
        /\ tasks'[i] = Task(tx.request, ask[tx.request].deadline, guess[tx.request][2], {})
    BY <1>1, <2>2
  <2>4. tasks'[i].by = tx.request /\ tasks'[i].spec = guess[tx.request][2]
    BY <2>3 DEF Task
  <2>5. UNCHANGED <<at, ask, guess, files>>
    BY <1>4 DEF Mines
  <2> QED
    BY <2>2, <2>3, <2>4, <2>5
<1>5. ASSUME NEW r \in Requests, Alone(r)
      PROVE  FALSE
  BY <1>2, <1>5 DEF Alone
<1>6. CASE UNCHANGED vars
  BY <1>2, <1>6 DEF vars, chainVars
<1> QED
  BY <1>3, <1>4, <1>5, <1>6, StepsOf

(* The file that a template's name leads to is the one picked, unless      *)
(* several go by the name.                                                 *)
LEMMA ResolvedSpec ==
    ASSUME Types, AskedWithinLimits, NEW r \in Markets, at[r] # "idle", NEW spec \in Resolves(r)
    PROVE  SpecFor(ask[r], spec)
<1>1. CASE ask[r].template = "none"
  BY <1>1 DEF Resolves, SpecFor
<1>2. CASE ask[r].template # "none"
  <2>1. /\ ask[r].template = TemplateOf(ask[r].spec) /\ ask[r].spec \in Builtins \cup files
        /\ spec \in Builtins \cup files /\ TemplateOf(spec) = ask[r].template
    BY <1>2 DEF AskedWithinLimits, Resolves, ListTemplates
  <2>2. CASE spec \in Questions
    <3>1. ask[r].template = "custom" /\ ask[r].spec \in files /\ spec \in files
      BY <2>1, <2>2, ControlAssumption DEF TemplateOf, Types
    <3>2. IsFiniteSet(files)
      BY ControlAssumption, FS_Subset DEF Types
    <3>3. spec # ask[r].spec => Cardinality(files) > 1
      <4> SUFFICES ASSUME spec # ask[r].spec PROVE Cardinality(files) > 1
        OBVIOUS
      <4> DEFINE own == {spec}
                 asked == ask[r].spec
                 pair == own \cup {asked}
      <4>1. IsFiniteSet(own) /\ Cardinality(own) = 1
        BY FS_Singleton
      <4>2. asked \notin own
        OBVIOUS
      <4>4. pair \subseteq files
        BY <3>1
      <4> HIDE DEF own, asked
      <4>3. Cardinality(pair) = 2
        <5>1. Cardinality(pair) = IF asked \in own THEN Cardinality(own) ELSE Cardinality(own) + 1
          BY <4>1, FS_AddElement
        <5> QED
          BY <4>1, <4>2, <5>1
      <4>5. Cardinality(pair) <= Cardinality(files) /\ Cardinality(files) \in Nat
        BY <3>2, <4>4, FS_Subset, FS_CardinalityType
      <4> HIDE DEF pair
      <4> QED
        BY <4>3, <4>5
    <3> QED
      BY <3>1, <3>3 DEF SpecFor
  <2>3. CASE spec \notin Questions
    <3>1. ask[r].template = spec
      BY <2>1, <2>3 DEF TemplateOf
    <3>2. spec \in Builtins /\ spec # "custom"
      BY <2>1, <2>3, ControlAssumption DEF Types
    <3> QED
      BY <2>1, <3>1, <3>2 DEF TemplateOf, SpecFor
  <2> QED
    BY <2>2, <2>3
<1> QED
  BY <1>1, <1>2

SpecForAfter(a, spec) == spec = a.spec \/ (a.template = "custom" /\ Cardinality(files') > 1)

LEMMA SpecForKept ==
    ASSUME files \subseteq files', Types', NEW a, NEW b, NEW spec,
           a.spec = b.spec, a.template = b.template, SpecFor(a, spec)
    PROVE  SpecForAfter(b, spec)
<1>1. IsFiniteSet(files')
  BY ControlAssumption, FS_Subset DEF Types
<1>2. IsFiniteSet(files) /\ Cardinality(files) <= Cardinality(files')
  BY <1>1, FS_Subset
<1>3. Cardinality(files) \in Nat /\ Cardinality(files') \in Nat
  BY <1>1, <1>2, FS_CardinalityType
<1> QED
  BY <1>2, <1>3 DEF SpecFor, SpecForAfter

LEMMA FilesKept ==
    ASSUME Types, [Next]_vars
    PROVE  files \subseteq files'
BY StepsOf, OthersStep DEF Alone, Mines, vars

(* A number is guessed once, and before the market is on the chain.        *)
LEMMA GuessStep ==
    ASSUME Types, Types', AskedWithinLimits, Guessed, [Next]_vars, NEW r \in Markets
    PROVE  \/ /\ guess'[r] = guess[r] /\ (at'[r] \in Committed => at[r] \in Committed)
              /\ guess[r][1] # 0 => /\ at'[r] \notin {"idle", "start"}
                                    /\ SpecForAfter(ask'[r], guess[r][2])
           \/ /\ guess'[r][1] = Len(tasks) + 1 /\ SpecForAfter(ask'[r], guess'[r][2])
              /\ at[r] = "ready" /\ at'[r] \in {"simulated", "error"}
<1>0. r \in Requests /\ files \subseteq files'
  BY FilesKept DEF Requests
<1>1. CASE Simulates(r)
  <2>1. /\ at[r] = "ready" /\ at'[r] \in {"simulated", "error"}
        /\ ask'[r].template = ask[r].template /\ ask'[r].spec = ask[r].spec
        /\ \E spec \in Resolves(r) : guess'[r] = <<Len(tasks) + 1, spec>>
    BY <1>0, <1>1, SimulationStep
  <2>2. PICK spec \in Resolves(r) : guess'[r] = <<Len(tasks) + 1, spec>>
    BY <2>1
  <2>3. SpecFor(ask[r], spec)
    BY <2>1, ResolvedSpec
  <2>4. SpecForAfter(ask'[r], spec)
    BY <1>0, <2>1, <2>3, SpecForKept
  <2> QED
    BY <2>1, <2>2, <2>4
<1>2. CASE ~Simulates(r)
  <2>1. at'[r] \in Committed => at[r] \in Committed
    BY <1>0, <1>2, NextGoesOn DEF GoesOn
  <2>2. /\ guess'[r] = guess[r]
        /\ at[r] \notin {"idle", "start"} =>
              at'[r] \notin {"idle", "start"} /\ ask'[r] = ask[r]
    <3>1. ASSUME NEW q \in Requests, q # r, Alone(q)
          PROVE  guess'[r] = guess[r] /\ ask'[r] = ask[r] /\ at'[r] = at[r]
      BY <1>0, <3>1 DEF Alone
    <3>2. ASSUME Keeps(r), Walks(r) \/ \E tx \in Txs : SendsOut(r, tx)
          PROVE  /\ guess'[r] = guess[r] /\ ask'[r] = ask[r]
                 /\ at[r] \notin {"idle", "start"} => at'[r] \notin {"idle", "start"}
      BY <3>2 DEF Keeps, Walks, SendsOut
    <3>3. CASE PostsTask(r) \/ PostsBet(r)
      BY <3>3 DEF PostsTask, PostsBet, Goes
    <3>4. CASE Others \/ UNCHANGED vars \/ \E w \in Wallets : Mines(w)
      BY <3>4, OthersStep DEF vars, Mines
    <3> QED
      BY <1>2, <3>1, <3>2, <3>3, <3>4, StepsOf
  <2>3. guess[r][1] # 0 => at[r] \notin {"idle", "start"} /\ SpecFor(ask[r], guess[r][2])
    BY DEF Guessed
  <2> QED
    BY <1>0, <2>1, <2>2, <2>3, SpecForKept
<1> QED
  BY <1>1, <1>2

(* A transaction that is out was out, or has just been sent.               *)
LEMMA NewPending ==
    ASSUME Types, OneOut, [Next]_vars, NEW w \in Wallets, NEW tx \in Elements(pool'[w])
    PROVE  tx \in Pending(w) \/ (Keeps(tx.request) /\ SendsOut(tx.request, tx))
<1>1. CASE pool'[w] = pool[w]
  BY <1>1 DEF Pending
<1>2. ASSUME NEW r \in Requests, Keeps(r), NEW s \in Txs, SendsOut(r, s)
      PROVE  tx \in Pending(w) \/ (Keeps(tx.request) /\ SendsOut(tx.request, tx))
  <2>1. s.request = r /\ \A v \in Wallets \ {WalletOf(r)} : pool'[v] = pool[v]
    BY <1>2 DEF SendsOut
  <2>2. Elements(pool'[WalletOf(r)]) = Pending(WalletOf(r)) \cup {s}
    BY <1>2 DEF SendsOut
  <2>3. CASE w = WalletOf(r)
    BY <1>2, <2>1, <2>2, <2>3
  <2> QED
    BY <1>1, <2>1, <2>3
<1>3. ASSUME NEW v \in Wallets, Mines(v)
      PROVE  tx \in Pending(w)
  <2>1. /\ Elements(pool'[v]) \subseteq Pending(v)
        /\ \A x \in Wallets \ {v} : pool'[x] = pool[x]
    BY <1>3, BlockStep DEF OneOut
  <2> QED
    BY <1>1, <2>1 DEF Pending
<1>4. CASE Others \/ UNCHANGED vars
  BY <1>1, <1>4, OthersStep DEF vars, wallets
<1>5. ASSUME NEW r \in Requests, Walks(r)
      PROVE  tx \in Pending(w)
  <2>1. pool' = pool
    BY <1>5 DEF Walks
  <2> QED
    BY <2>1 DEF Pending
<1> QED
  BY <1>2, <1>3, <1>4, <1>5, StepsOf

LEMMA NextGuessed ==
    ASSUME Types, Types', Counts, OneOut, AskedWithinLimits, TasksKept, Guessed, [Next]_vars
    PROVE  Guessed'
<1>0. /\ Len(tasks) \in Nat /\ DOMAIN tasks = 1..Len(tasks) /\ Markets \subseteq Requests
      /\ \A r \in Requests : guess[r][1] \in Nat
  BY Chain, Asked DEF Requests
<1>1. ASSUME NEW r \in Markets
      PROVE  /\ guess'[r][1] # 0 => /\ at'[r] \notin {"idle", "start"}
                                    /\ SpecForAfter(ask'[r], guess'[r][2])
             /\ at'[r] \in Committed => guess'[r][1] # 0
             /\ guess[r][1] # 0 => guess'[r][1] # 0
  BY <1>0, GuessStep DEF Guessed
<1>2. ASSUME NEW w \in Wallets, NEW tx \in Elements(pool'[w]), tx.kind = "call", tx.request \in Markets
      PROVE  guess'[tx.request][1] # 0
  <2>1. CASE tx \in Pending(w)
    BY <1>1, <1>2, <2>1 DEF Guessed
  <2>2. CASE Keeps(tx.request) /\ SendsOut(tx.request, tx)
    <3>1. at[tx.request] \in Committed
      BY <1>2, <2>2 DEF SendsOut, Committed
    <3> QED
      BY <1>1, <1>2, <3>1 DEF Guessed
  <2> QED
    BY <2>1, <2>2, NewPending
<1>3. ASSUME NEW w \in Wallets, NEW tx \in Pending(w), tx.kind = "call"
      PROVE  Mine(tx.request) = {} /\ tx.request \in Requests
  BY <1>3, OutOf DEF IsOut
<1>4. ASSUME NEW i \in DOMAIN tasks, tasks'[i].by \in Markets
      PROVE  LET r == tasks'[i].by IN
             /\ guess'[r][1] \in 1..i /\ tasks'[i].spec = guess'[r][2]
             /\ \A j \in DOMAIN tasks' : tasks'[j].by = r => j = i
  <2> DEFINE r == tasks[i].by
  <2>1. tasks'[i].by = r /\ tasks'[i].spec = tasks[i].spec /\ r \in Markets
    BY <1>4 DEF TasksKept
  <2>2. /\ guess[r][1] \in 1..i /\ tasks[i].spec = guess[r][2]
        /\ \A j \in DOMAIN tasks : tasks[j].by = r => j = i
    BY <2>1 DEF Guessed
  <2>3. i \in Mine(r)
    BY DEF Mine
  <2> HIDE DEF r
  <2>4. at[r] # "ready"
    BY <1>0, <2>1, <2>3 DEF OneOut, AwaitedOrDoubted
  <2>5. guess'[r] = guess[r]
    BY <2>1, <2>4, GuessStep
  <2>6. ASSUME NEW j \in DOMAIN tasks', tasks'[j].by = r
        PROVE  j = i
    <3>1. CASE j \in DOMAIN tasks
      BY <2>2, <2>6, <3>1 DEF TasksKept
    <3>2. CASE j \notin DOMAIN tasks
      <4>1. r # "other"
        BY <2>1, <1>0, RequestFacts
      <4>2. PICK w \in Wallets : \E tx \in Pending(w) : tx.kind = "call" /\ tx.request = r
        BY <2>6, <3>2, <4>1, NewTask
      <4> QED
        BY <1>3, <2>3, <4>2
    <3> QED
      BY <3>1, <3>2
  <2> QED
    BY <2>1, <2>2, <2>5, <2>6
<1>5. ASSUME NEW i \in DOMAIN tasks', i \notin DOMAIN tasks, tasks'[i].by \in Markets
      PROVE  LET r == tasks'[i].by IN
             /\ guess'[r][1] \in 1..i /\ tasks'[i].spec = guess'[r][2]
             /\ \A j \in DOMAIN tasks' : tasks'[j].by = r => j = i
  <2>1. "other" \notin Markets
    BY ControlAssumption
  <2> DEFINE Opens(tx) ==
           /\ tx.kind = "call" /\ tx.request \in Markets /\ i = Len(tasks) + 1
           /\ tasks'[i].by = tx.request /\ tasks'[i].spec = guess[tx.request][2]
           /\ UNCHANGED <<at, ask, guess, files>>
  <2>0. PICK w \in Wallets : \E tx \in Pending(w) : Opens(tx)
    BY <1>5, <2>1, NewTask
  <2>2. PICK tx \in Pending(w) : Opens(tx)
    BY <2>0
  <2> DEFINE r == tx.request
  <2>3. Mine(r) = {} /\ r \in Requests
    BY <1>3, <2>2
  <2>4. guess[r][1] # 0
    BY <2>2 DEF Guessed
  <2>5. guess[r][1] \in 1..i
    BY <1>0, <2>2, <2>3, <2>4 DEF Counts
  <2>6. ASSUME NEW j \in DOMAIN tasks', tasks'[j].by = r
        PROVE  j = i
    <3>1. CASE j \in DOMAIN tasks
      BY <2>3, <2>6, <3>1 DEF TasksKept, Mine
    <3>2. CASE j \notin DOMAIN tasks
      BY <2>1, <2>2, <2>6, <3>2, NewTask
    <3> QED
      BY <3>1, <3>2
  <2> QED
    BY <2>2, <2>5, <2>6
<1>6. \A i \in DOMAIN tasks' : tasks'[i].by \in Markets =>
          /\ guess'[tasks'[i].by][1] \in 1..i
          /\ tasks'[i].spec = guess'[tasks'[i].by][2]
          /\ \A j \in DOMAIN tasks' : tasks'[j].by = tasks'[i].by => j = i
  BY <1>4, <1>5
<1> QED
  BY <1>1, <1>2, <1>6 DEF Guessed, SpecFor, SpecForAfter, Pending

(* What a request met is not forgotten, and what is on the chain stays.    *)
LEMMA MeetKeeps ==
    ASSUME NEW r \in Requests, NEW hindered, NEW what, Meet(hindered, what)
    PROVE  /\ met[r] \subseteq met'[r]
           /\ r \in hindered /\ Undecided(r) => what \in met'[r]
BY DEF Meet

LEMMA MeetBothKeeps ==
    ASSUME NEW r \in Requests, NEW poorer, NEW fuller, MeetBoth(poorer, fuller)
    PROVE  /\ met[r] \subseteq met'[r]
           /\ r \in poorer /\ Undecided(r) => "spent" \in met'[r]
           /\ r \in fuller /\ Undecided(r) => "filled" \in met'[r]
<1>1. met'[r] = IF ~Undecided(r) THEN met[r]
                ELSE met[r] \cup {"spent" : q \in poorer \cap {r}}
                            \cup {"filled" : q \in fuller \cap {r}}
  BY DEF MeetBoth
<1> QED
  BY <1>1

LEMMA NothingForgotten ==
    ASSUME Types, OneOut, TasksKept, [Next]_vars
    PROVE  /\ bets \subseteq bets' /\ \A r \in Requests : Mine(r) \subseteq Mine(r)'
           /\ \A r \in Requests : met[r] \subseteq met'[r]
<1>1. \A r \in Requests : Mine(r) \subseteq Mine(r)'
  BY DEF Mine, TasksKept
<1>2. ASSUME NEW r \in Requests, Alone(r)
      PROVE  bets \subseteq bets' /\ \A q \in Requests : met[q] \subseteq met'[q]
  BY <1>2 DEF Alone
<1>3. ASSUME NEW w \in Wallets, Mines(w)
      PROVE  bets \subseteq bets' /\ \A r \in Requests : met[r] \subseteq met'[r]
  <2>1. PICK tx \in Txs : Decides(w, tx)
    BY <1>3, BlockStep DEF OneOut
  <2> QED
    BY <2>1, MeetBothKeeps DEF Decides
<1>4. CASE Others
  <2>1. \A r \in Requests : met[r] \subseteq met'[r]
    <3>1. CASE OtherPosts \/ \E i \in DOMAIN tasks : Accepts(i)
      BY <3>1 DEF OtherPosts, Accepts
    <3>2. ASSUME NEW i \in DOMAIN tasks, OtherBets(i) \/ Settles(i)
          PROVE  \A r \in Requests : met[r] \subseteq met'[r]
      BY <3>2, MeetKeeps DEF OtherBets, Settles
    <3>3. CASE Pauses \/ ChangesHands \/ Ticks
      BY <3>3, MeetKeeps DEF Pauses, ChangesHands, Ticks
    <3>4. ASSUME NEW w \in Wallets, UsedElsewhere(w)
          PROVE  \A r \in Requests : met[r] \subseteq met'[r]
      BY <3>4, MeetKeeps DEF UsedElsewhere
    <3> QED
      BY <1>4, <3>1, <3>2, <3>3, <3>4, OthersStep
  <2>2. bets' = bets
    BY <1>4, OthersStep
  <2> QED
    BY <1>1, <2>1, <2>2
<1>5. CASE UNCHANGED vars
  <2>1. bets' = bets /\ met' = met
    BY <1>5 DEF vars, chainVars, history
  <2> QED
    BY <1>1, <2>1
<1>6. bets \subseteq bets' /\ \A r \in Requests : met[r] \subseteq met'[r]
  BY <1>2, <1>3, <1>4, <1>5, StepsOf
<1> QED
  BY <1>1, <1>6

\* A simulation that passes stands, by the contract's own checks.
LEMMA StandsAtFirst ==
    ASSUME Types, NEW r \in Requests, Allowed(r, Timed(r)), ask[r].task \in DOMAIN tasks \/ r \in Markets
    PROVE  LET a == Timed(r)
               t == tasks[a.task]
           IN  /\ funds[WalletOf(r)] >= a.pay /\ ~paused
               /\ r \in Markets => a.deadline > now + BETTING_WINDOW
               /\ r \in Bets => /\ t.state = "Open" /\ a.side \notin t.barred /\ now < t.cutoff
                                /\ controls /\ t.pools[a.side] + a.pay <= CAP
BY RequestFacts DEF Allowed, MayCall, MayPost, MayBet

LEMMA StandsAfterSimulation ==
    ASSUME Types, AskedWithinLimits, NEW r \in Requests, Simulates(r), at'[r] = "simulated"
    PROVE  Stands(r)'
<1>1. /\ ask'[r] = Timed(r) /\ Allowed(r, Timed(r)) /\ at[r] = "ready"
      /\ UNCHANGED <<tasks, now, funds, paused, controls>>
  BY SimulationStep
<1>2. ask[r].task \in DOMAIN tasks \/ r \in Markets
  BY <1>1 DEF AskedWithinLimits, Requests
<1>3. LET a == Timed(r)
          t == tasks[a.task]
      IN  /\ funds[WalletOf(r)] >= a.pay /\ ~paused
          /\ r \in Markets => a.deadline > now + BETTING_WINDOW
          /\ r \in Bets => /\ t.state = "Open" /\ a.side \notin t.barred /\ now < t.cutoff
                           /\ controls /\ t.pools[a.side] + a.pay <= CAP
  BY <1>1, <1>2, StandsAtFirst
<1> QED
  BY <1>1, <1>3 DEF Stands, WalletOf

\* A simulation that stands still does when nothing it looked at has changed, or
\* each change is noted.
LEMMA StandsStill ==
    ASSUME NEW r \in Requests, Stands(r), ask'[r] = ask[r], met[r] \subseteq met'[r],
           funds'[WalletOf(r)] >= ask[r].pay \/ "spent" \in met'[r] \/ ~(funds[WalletOf(r)] >= ask[r].pay),
           ~paused' \/ "paused" \in met'[r] \/ paused,
           r \in Markets => \/ ask[r].deadline > now' + BETTING_WINDOW
                            \/ ~(ask[r].deadline > now + BETTING_WINDOW) \/ "late" \in met'[r],
           r \in Bets =>
              LET a == ask[r]
                  t == tasks[a.task]
                  u == tasks'[a.task]
              IN  /\ t.state # "Created" => u.state # "Created" /\ u.barred = t.barred
                  /\ u.state = t.state \/ "settled" \in met'[r] \/ t.state = "Created"
                  /\ now' < u.cutoff \/ ~(now < t.cutoff) \/ "late" \in met'[r]
                  /\ controls' \/ ~controls \/ "sold" \in met'[r]
                  /\ \/ u.pools[a.side] + a.pay <= CAP \/ "filled" \in met'[r]
                     \/ ~(t.pools[a.side] + a.pay <= CAP)
    PROVE  Stands(r)'
<1>1. funds'[WalletOf(r)] >= ask[r].pay \/ "spent" \in met'[r]
  BY DEF Stands
<1>2. ~paused' \/ "paused" \in met'[r]
  BY DEF Stands
<1>3. r \in Markets => ask[r].deadline > now' + BETTING_WINDOW \/ "late" \in met'[r]
  BY DEF Stands
<1>4. ASSUME r \in Bets
      PROVE  LET a == ask[r]
                 u == tasks'[a.task]
             IN  /\ u.state # "Created" /\ a.side \notin u.barred
                 /\ u.state = "Open" \/ "settled" \in met'[r]
                 /\ now' < u.cutoff \/ "late" \in met'[r]
                 /\ controls' \/ "sold" \in met'[r]
                 /\ u.pools[a.side] + a.pay <= CAP \/ "filled" \in met'[r]
  BY <1>4 DEF Stands
<1> QED
  BY <1>1, <1>2, <1>3, <1>4 DEF Stands, WalletOf

(* A block that takes another request's call.                              *)
LEMMA StandsAfterBlock ==
    ASSUME Types, AskedWithinLimits, OneOut, NEW r \in Requests, Undecided(r), Stands(r),
           NEW w \in Wallets, NEW tx \in Pending(w), tx \in Txs, Decides(w, tx),
           tx.request # r, UNCHANGED <<ask, now, paused, controls>>
    PROVE  Stands(r)'
<1> DEFINE q == tx.request
           left == funds[w] - ask[q].pay
<1>1. q \in Requests /\ IsOut(w, tx) /\ w = WalletOf(q) /\ tasks \in Seq(ChainTasks)
  BY OutOf DEF IsOut, Types
<1>2. CASE UNCHANGED <<funds, tasks, met>>
  BY <1>2, StandsStill
<1>3. r \in Bets => ask[r].task \in DOMAIN tasks
  BY DEF Undecided, AskedWithinLimits
<1>4. ASSUME tx.kind = "call", Passes(q), funds' = Set(funds, w, left)
      PROVE  \/ funds'[WalletOf(r)] = funds[WalletOf(r)]
             \/ funds'[WalletOf(r)] >= ask[r].pay
             \/ r \in Poorer(w, left) \ {q}
  <2>1. WalletOf(r) \in Wallets
    BY RequestFacts
  <2>2. funds'[WalletOf(r)] = IF WalletOf(r) = w THEN left ELSE funds[WalletOf(r)]
    BY <1>4, <2>1 DEF Set, Types
  <2>3. left \in Int /\ ask[r].pay \in Nat
    BY <1>1, Chain, Asked
  <2> HIDE DEF left
  <2> QED
    BY <2>2, <2>3 DEF Poorer
<1>5. ASSUME tx.kind = "call", Passes(q), funds' = Set(funds, w, left), q \in Markets,
             tasks' = Append(tasks, Task(q, ask[q].deadline, guess[q][2], {})),
             MeetBoth(Poorer(w, left) \ {q}, {})
      PROVE  Stands(r)'
  <2>1. /\ met[r] \subseteq met'[r]
        /\ r \in Poorer(w, left) \ {q} => "spent" \in met'[r]
    BY <1>5, MeetBothKeeps
  <2>2. r \in Bets => tasks'[ask[r].task] = tasks[ask[r].task]
    BY <1>1, <1>3, <1>5
  <2> QED
    BY <1>4, <1>5, <2>1, <2>2, StandsStill
<1>6. ASSUME tx.kind = "call", Passes(q), funds' = Set(funds, w, left), q \in Bets,
             tasks' = Raised(ask[q].task, ask[q].side, ask[q].pay),
             MeetBoth(Poorer(w, left) \ {q},
                      Fuller(ask[q].task, ask[q].side, tasks'[ask[q].task].pools[ask[q].side]) \ {q})
      PROVE  Stands(r)'
  <2> DEFINE i == ask[q].task
             level == tasks'[i].pools[ask[q].side]
  <2>1. /\ met[r] \subseteq met'[r]
        /\ r \in Poorer(w, left) \ {q} => "spent" \in met'[r]
        /\ r \in Fuller(i, ask[q].side, level) \ {q} => "filled" \in met'[r]
    BY <1>6, MeetBothKeeps
  <2>2. i \in DOMAIN tasks /\ ask[q].side \in Sides /\ ask[q].pay \in Nat
    BY <1>1, <1>6, Asked DEF IsOut, AwaitedOrDoubted, AskedWithinLimits, Txs
  <2>3. tasks[i].pools[ask[q].side] + ask[q].pay <= CAP
    BY <1>6, RequestFacts, <1>1 DEF Passes, Allowed, MayCall, MayBet
  <2>4. /\ tasks' \in Seq(ChainTasks) /\ DOMAIN tasks' = DOMAIN tasks
        /\ tasks'[i].state = tasks[i].state
        /\ \A s \in Sides : s # ask[q].side => tasks'[i].pools[s] = tasks[i].pools[s]
        /\ \A j \in DOMAIN tasks : j # i => tasks'[j] = tasks[j]
        /\ tasks'[i].cutoff = tasks[i].cutoff /\ tasks'[i].barred = tasks[i].barred
    BY <1>1, <1>6, <2>2, <2>3, PoolRaised
  <2>5. ASSUME r \in Bets
        PROVE  LET a == ask[r]
                   t == tasks[a.task]
                   u == tasks'[a.task]
               IN  /\ u.state = t.state /\ u.cutoff = t.cutoff /\ u.barred = t.barred
                   /\ \/ u.pools[a.side] = t.pools[a.side]
                      \/ u.pools[a.side] + a.pay <= CAP \/ r \in Fuller(i, ask[q].side, level) \ {q}
    <3>1. ask[r].task \in DOMAIN tasks /\ ask[r].side \in Sides /\ ask[r].pay \in Nat
      BY <1>3, <2>5, Asked
    <3>2. CASE ask[r].task # i
      BY <2>4, <3>1, <3>2
    <3>3. CASE ask[r].task = i /\ ask[r].side # ask[q].side
      BY <2>4, <3>1, <3>3
    <3>4. CASE ask[r].task = i /\ ask[r].side = ask[q].side
      <4>1. level \in Nat
        <5>1. tasks'[i] \in ChainTasks
          BY <2>2, <2>4
        <5>2. tasks'[i].pools \in [Sides -> 0..CAP]
          BY <5>1 DEF ChainTasks
        <5> QED
          BY <2>2, <5>2
      <4>2. CAP \in Nat
        BY ControlAssumption
      <4>3. level + ask[r].pay <= CAP \/ r \in Fuller(i, ask[q].side, level) \ {q}
        <5> HIDE DEF level, i
        <5> QED
          BY <2>5, <3>1, <3>4, <4>1, <4>2 DEF Fuller
      <4> QED
        BY <2>4, <3>4, <4>3
    <3> QED
      BY <3>2, <3>3, <3>4
  <2> HIDE DEF level, i
  <2>6. met[r] \subseteq met'[r] /\ ask'[r] = ask[r]
    BY <2>1
  <2>7. funds'[WalletOf(r)] >= ask[r].pay \/ "spent" \in met'[r] \/ ~(funds[WalletOf(r)] >= ask[r].pay)
    BY <1>4, <1>6, <2>1
  <2>8. r \in Bets =>
              LET a == ask[r]
                  t == tasks[a.task]
                  u == tasks'[a.task]
              IN  /\ u.state = t.state /\ u.barred = t.barred /\ u.cutoff = t.cutoff
                  /\ \/ u.pools[a.side] + a.pay <= CAP \/ "filled" \in met'[r]
                     \/ ~(t.pools[a.side] + a.pay <= CAP)
    BY <2>1, <2>5
  <2> QED
    BY <2>6, <2>7, <2>8, StandsStill
<1> QED
  BY <1>2, <1>5, <1>6 DEF Decides

(* Others' steps.                                                          *)
LEMMA StandsAfterOthers ==
    ASSUME Types, AskedWithinLimits, NEW r \in Requests, Undecided(r), Stands(r), Others
    PROVE  Stands(r)'
<1>0. /\ ask' = ask /\ tasks \in Seq(ChainTasks) /\ (r \in Bets => ask[r].task \in DOMAIN tasks)
      /\ WalletOf(r) \in Wallets
  BY OthersStep, RequestFacts DEF Types, Undecided, AskedWithinLimits
<1>1. CASE OtherPosts
  <2>1. PICK t : tasks' = Append(tasks, t)
    BY <1>1 DEF OtherPosts
  <2>2. r \in Bets => tasks'[ask[r].task] = tasks[ask[r].task]
    BY <1>0, <2>1
  <2>3. UNCHANGED <<now, paused, controls, funds, met>>
    BY <1>1 DEF OtherPosts
  <2> QED
    BY <1>0, <2>2, <2>3, StandsStill
<1>2. ASSUME NEW i \in DOMAIN tasks, Accepts(i)
      PROVE  Stands(r)'
  <2>1. tasks[i].state = "Created" /\ \A j \in DOMAIN tasks : j # i => tasks'[j] = tasks[j]
    BY <1>2, AcceptStep
  <2>2. r \in Bets => tasks'[ask[r].task] = tasks[ask[r].task]
    BY <1>0, <2>1 DEF Stands
  <2>3. UNCHANGED <<now, paused, controls, funds, met>>
    BY <1>2 DEF Accepts
  <2> QED
    BY <1>0, <2>2, <2>3, StandsStill
<1>3. ASSUME NEW i \in DOMAIN tasks, OtherBets(i)
      PROVE  Stands(r)'
  <2>1. PICK side \in Sides, amount \in Nat :
              /\ tasks[i].pools[side] + amount <= CAP /\ tasks' = Raised(i, side, amount)
              /\ Meet(Fuller(i, side, tasks[i].pools[side] + amount), "filled")
    BY <1>3, OtherBetStep
  <2> DEFINE level == tasks[i].pools[side] + amount
  <2>2. /\ met[r] \subseteq met'[r] /\ (r \in Fuller(i, side, level) => "filled" \in met'[r])
    BY <2>1, MeetKeeps
  <2>3. /\ tasks'[i].state = tasks[i].state /\ tasks'[i].pools[side] = level
        /\ \A s \in Sides : s # side => tasks'[i].pools[s] = tasks[i].pools[s]
        /\ \A j \in DOMAIN tasks : j # i => tasks'[j] = tasks[j]
        /\ tasks'[i].cutoff = tasks[i].cutoff /\ tasks'[i].barred = tasks[i].barred
    BY <1>0, <2>1, PoolRaised
  <2>4. level \in Nat /\ CAP \in Nat
    BY <1>0, TaskFields, ControlAssumption
  <2> HIDE DEF level
  <2>5. ASSUME r \in Bets
        PROVE  LET a == ask[r]
                   t == tasks[a.task]
                   u == tasks'[a.task]
               IN  /\ u.state = t.state /\ u.cutoff = t.cutoff /\ u.barred = t.barred
                   /\ \/ u.pools[a.side] = t.pools[a.side]
                      \/ u.pools[a.side] + a.pay <= CAP \/ r \in Fuller(i, side, level)
    <3>1. ask[r].task \in DOMAIN tasks /\ ask[r].side \in Sides /\ ask[r].pay \in Nat
      BY <1>0, <2>5, Asked
    <3>2. CASE ask[r].task # i
      BY <2>3, <3>1, <3>2
    <3>3. CASE ask[r].task = i /\ ask[r].side # side
      BY <2>3, <3>1, <3>3
    <3>4. CASE ask[r].task = i /\ ask[r].side = side
      BY <2>3, <2>4, <2>5, <3>1, <3>4 DEF Fuller
    <3> QED
      BY <3>2, <3>3, <3>4
  <2>6. UNCHANGED <<now, paused, controls, funds>>
    BY <1>3 DEF OtherBets
  <2>7. r \in Bets =>
              LET a == ask[r]
                  t == tasks[a.task]
                  u == tasks'[a.task]
              IN  /\ u.state = t.state /\ u.barred = t.barred /\ u.cutoff = t.cutoff
                  /\ \/ u.pools[a.side] + a.pay <= CAP \/ "filled" \in met'[r]
                     \/ ~(t.pools[a.side] + a.pay <= CAP)
    BY <2>2, <2>5
  <2> QED
    BY <1>0, <2>2, <2>6, <2>7, StandsStill
<1>4. ASSUME NEW i \in DOMAIN tasks, Settles(i)
      PROVE  Stands(r)'
  <2>1. /\ tasks'[i].pools = tasks[i].pools /\ TasksKept
        /\ \A j \in DOMAIN tasks : j # i => tasks'[j] = tasks[j]
    BY <1>4, SettleStep
  <2>2. met[r] \subseteq met'[r] /\ (r \in Bets /\ ask[r].task = i => "settled" \in met'[r])
    BY <1>4, MeetKeeps DEF Settles
  <2>3. UNCHANGED <<now, paused, controls, funds>>
    BY <1>4 DEF Settles
  <2>4. r \in Bets =>
              LET a == ask[r]
                  t == tasks[a.task]
                  u == tasks'[a.task]
              IN  /\ t.state # "Created" => /\ u.state # "Created" /\ u.barred = t.barred
                                            /\ u.cutoff = t.cutoff
                  /\ u.state = t.state \/ "settled" \in met'[r]
                  /\ u.pools = t.pools
    BY <1>0, <2>1, <2>2 DEF TasksKept
  <2>5. r \in Bets => tasks[ask[r].task].state # "Created"
    BY DEF Stands
  <2> QED
    BY <1>0, <2>2, <2>3, <2>4, <2>5, StandsStill
<1>5. CASE Pauses
  <2>1. met[r] \subseteq met'[r] /\ (~paused' \/ "paused" \in met'[r] \/ paused)
    BY <1>5, MeetKeeps DEF Pauses
  <2>2. UNCHANGED <<tasks, now, controls, funds>>
    BY <1>5 DEF Pauses
  <2> QED
    BY <1>0, <2>1, <2>2, StandsStill
<1>6. CASE ChangesHands
  <2>1. met[r] \subseteq met'[r] /\ (r \in Bets => controls' \/ "sold" \in met'[r] \/ ~controls)
    BY <1>6, MeetKeeps DEF ChangesHands
  <2>2. UNCHANGED <<tasks, now, paused, funds>>
    BY <1>6 DEF ChangesHands
  <2> QED
    BY <1>0, <2>1, <2>2, StandsStill
<1>7. CASE Ticks
  <2>1. /\ met[r] \subseteq met'[r] /\ now' = now + 1
        /\ Late(r) => "late" \in met'[r]
        /\ UNCHANGED <<tasks, paused, controls, funds>>
    BY <1>7, MeetKeeps DEF Ticks
  <2>2. now \in Nat /\ BETTING_WINDOW \in Nat /\ MARGIN \in Nat
    BY Chain
  <2>3. ASSUME r \in Markets, ~Late(r)
        PROVE  ask[r].deadline > now' + BETTING_WINDOW
    <3>1. ask[r].window >= BETTING_WINDOW + MARGIN
      BY <2>3 DEF Undecided, AskedWithinLimits
    <3>2. now + 1 < ask[r].deadline - ask[r].window + MARGIN
      BY <2>2, <2>3, Asked DEF Late
    <3> QED
      BY <2>1, <2>2, <3>1, <3>2, Asked
  <2>4. ASSUME r \in Bets, ~Late(r)
        PROVE  now' < tasks[ask[r].task].cutoff
    BY <1>0, <2>1, <2>2, <2>4, RequestFacts, TaskFields DEF Late
  <2> QED
    BY <1>0, <2>1, <2>3, <2>4, StandsStill
<1>8. ASSUME NEW w \in Wallets, UsedElsewhere(w)
      PROVE  Stands(r)'
  <2>1. PICK cost \in 1..funds[w] :
           /\ funds' = [funds EXCEPT ![w] = funds[w] - cost] /\ Meet(Poorer(w, funds[w] - cost), "spent")
    BY <1>8 DEF UsedElsewhere, Set
  <2> DEFINE left == funds[w] - cost
  <2>2. met[r] \subseteq met'[r] /\ (r \in Poorer(w, left) => "spent" \in met'[r])
    BY <2>1, MeetKeeps
  <2>3. funds'[WalletOf(r)] = IF WalletOf(r) = w THEN left ELSE funds[WalletOf(r)]
    BY <1>0, <2>1 DEF Types
  <2>4. left \in Int /\ ask[r].pay \in Nat
    BY Chain, Asked
  <2>5. UNCHANGED <<tasks, now, paused, controls>>
    BY <1>8 DEF UsedElsewhere
  <2> HIDE DEF left
  <2>6. funds'[WalletOf(r)] >= ask[r].pay \/ "spent" \in met'[r] \/ ~(funds[WalletOf(r)] >= ask[r].pay)
    BY <2>2, <2>3, <2>4 DEF Poorer
  <2> QED
    BY <1>0, <2>2, <2>5, <2>6, StandsStill
<1> QED
  BY <1>1, <1>2, <1>3, <1>4, <1>5, <1>6, <1>7, <1>8, OthersStep

LEMMA NextStands ==
    ASSUME Types, AskedWithinLimits, OneOut, TasksKept, SimulationStands, [Next]_vars
    PROVE  SimulationStands'
<1> SUFFICES ASSUME NEW r \in Requests, Undecided(r)'
             PROVE  Stands(r)'
  BY DEF SimulationStands
<1>0. /\ Undecided(r) => Stands(r)
      /\ \A q \in Requests : met[q] \subseteq met'[q]
  BY NothingForgotten DEF SimulationStands
<1>1. ASSUME UNCHANGED <<funds, tasks, now, paused, controls>>, ask'[r] = ask[r], Undecided(r)
      PROVE  Stands(r)'
  BY <1>0, <1>1, StandsStill
<1>2. ASSUME NEW q \in Requests, Alone(q), Walks(q)
      PROVE  Stands(r)'
  <2>1. Waits(r)' <=> Waits(r)
    BY <1>2, Waiting, WaitingAfter DEF Walks, Pending
  <2>2. CASE r # q
    BY <1>1, <1>2, <2>1, <2>2 DEF Alone, Undecided
  <2>3. CASE Simulates(r)
    <3>1. at'[r] = "simulated"
      BY <2>3, SimulationStep DEF Undecided
    <3> QED
      BY <2>3, <3>1, StandsAfterSimulation
  <2>4. CASE r = q /\ ~Simulates(r)
    <3>1. GoesOn(r)
      BY <2>4, NextGoesOn
    <3>2. at[r] = "simulated" /\ at'[r] = "sending" /\ ask'[r] = ask[r]
      BY <1>2, <2>1, <2>4, <3>1 DEF Undecided, GoesOn, Committed, Walks
    <3> QED
      BY <1>1, <1>2, <3>2 DEF Alone, Undecided
  <2> QED
    BY <2>2, <2>3, <2>4
<1>3. ASSUME NEW q \in Requests, Alone(q), Keeps(q), NEW tx \in Txs, SendsOut(q, tx)
      PROVE  Stands(r)'
  <2>1. UNCHANGED <<funds, tasks, now, paused, controls>> /\ ask' = ask /\ tx.request = q
    BY <1>3 DEF Alone, SendsOut
  <2>2. CASE r = q
    <3>1. at[r] = "sending"
      BY <1>3, <2>2 DEF SendsOut, Undecided
    <3> QED
      BY <1>1, <2>1, <3>1 DEF Undecided
  <2>3. CASE r # q
    <3>1. at'[r] = at[r] /\ WalletOf(r) \in Wallets
      BY <1>3, <2>3, RequestFacts DEF Alone
    <3>2. Waits(r)' => Waits(r)
      BY <1>3, <2>1, <2>3, <3>1, Waiting, WaitingAfter DEF SendsOut, Pending
    <3> QED
      BY <1>1, <2>1, <3>1, <3>2 DEF Undecided
  <2> QED
    BY <2>2, <2>3
<1>4. ASSUME NEW w \in Wallets, Mines(w)
      PROVE  Stands(r)'
  <2>1. PICK tx \in Txs :
              /\ tx \in Pending(w) /\ Elements(pool'[w]) = Pending(w) \ {tx}
              /\ \A v \in Wallets \ {w} : pool'[v] = pool[v]
              /\ Decides(w, tx)
    BY <1>4, BlockStep DEF OneOut
  <2>2. UNCHANGED <<at, ask, now, paused, controls>> /\ WalletOf(r) \in Wallets
    BY <1>4, RequestFacts DEF Mines
  <2>3. Waits(r)' => Waits(r)
    BY <2>1, <2>2, Waiting, WaitingAfter DEF Pending
  <2>4. Undecided(r)
    BY <2>2, <2>3 DEF Undecided
  <2>5. CASE tx.request # r
    BY <1>0, <2>1, <2>2, <2>4, <2>5, StandsAfterBlock
  <2>6. CASE tx.request = r
    <3>1. IsOut(w, tx) /\ at[r] \in {"waiting", "waiting approval", "error"}
      BY <2>1, <2>6, OutOf DEF IsOut, AwaitedOrDoubted, Txs
    <3>2. Waits(r)'
      BY <2>2, <3>1 DEF Undecided
    <3>3. PICK other \in Elements(pool'[WalletOf(r)]) : other.request = r
      BY <3>2, WaitingAfter
    <3>4. other \in Pending(WalletOf(r)) /\ w = WalletOf(r)
      BY <2>1, <2>6, <3>1, <3>3 DEF IsOut, Pending
    <3>5. other = tx
      BY <2>1, <2>6, <3>3, <3>4, OutOnce
    <3> QED
      BY <2>1, <3>3, <3>4, <3>5
  <2> QED
    BY <2>5, <2>6
<1>5. CASE Others \/ UNCHANGED vars
  <2>1. UNCHANGED <<at, pool, ask>>
    BY <1>5, OthersStep DEF vars, wallets
  <2>2. Undecided(r)
    BY <2>1, Waiting, WaitingAfter DEF Undecided, Pending
  <2>3. CASE Others
    BY <1>0, <2>2, <2>3, StandsAfterOthers
  <2>4. CASE UNCHANGED vars
    BY <1>1, <2>2, <2>4 DEF vars, wallets, chainVars
  <2> QED
    BY <1>5, <2>3, <2>4
<1> QED
  BY <1>2, <1>3, <1>4, <1>5, StepsOf

\* A call that the contract refuses after a simulation that passed.
LEMMA RefusedForACause ==
    ASSUME Types, Allowances, AskedWithinLimits, NEW r \in Requests, at[r] = "waiting",
           Stands(r), ~Passes(r)
    PROVE  Caused(r)
<1>1. allowance[WalletOf(r)]
  BY DEF Allowances
<1>2. CASE r \in Markets
  <2>1. ask[r].pay >= MinReward /\ r \notin Bets
    BY <1>2, RequestFacts DEF AskedWithinLimits, Requests
  <2>2. paused \/ ~(funds[WalletOf(r)] >= ask[r].pay) \/ ~(ask[r].deadline > now + BETTING_WINDOW)
    BY <1>1, <1>2, <2>1 DEF Passes, Allowed, MayCall, MayPost
  <2>3. met[r] \cap {"paused", "spent", "late"} # {}
    BY <1>2, <2>2 DEF Stands
  <2> QED
    BY <2>1, <2>3 DEF Caused
<1>3. CASE r \in Bets
  <2>1. ask[r].pay >= MinBet /\ r \notin Markets
    BY <1>3, RequestFacts DEF AskedWithinLimits, Requests
  <2>2. \/ paused \/ ~(funds[WalletOf(r)] >= ask[r].pay)
        \/ LET a == ask[r]
               t == tasks[a.task]
           IN  \/ t.state # "Open" \/ ~(now < t.cutoff) \/ ~controls
               \/ a.side \in t.barred \/ ~(t.pools[a.side] + a.pay <= CAP)
    BY <1>1, <2>1 DEF Passes, Allowed, MayCall, MayBet
  <2>3. met[r] \cap {"paused", "sold", "spent", "filled", "settled", "late"} # {}
    BY <1>3, <2>2 DEF Stands
  <2> QED
    BY <2>1, <2>3 DEF Caused
<1> QED
  BY <1>2, <1>3 DEF Requests

LEMMA NextNothing ==
    ASSUME Types, Types', OneOut, Allowances, AskedWithinLimits, SimulationStands, TasksKept,
           NothingForACause, [Next]_vars
    PROVE  NothingForACause'
<1> SUFFICES ASSUME NEW r \in Requests, at'[r] \in {"waiting", "done"}, ~Waits(r)'
             PROVE  Caused(r)'
  BY DEF NothingForACause
<1>2. Caused(r) => Caused(r)'
  BY NothingForgotten DEF Caused
<1>3. ASSUME at[r] \in {"waiting", "done"}, ~Waits(r)
      PROVE  Caused(r)'
  BY <1>2, <1>3 DEF NothingForACause
<1>4. ASSUME NEW q \in Requests, Alone(q), Walks(q)
      PROVE  Caused(r)'
  <2>1. Waits(r)' <=> Waits(r)
    BY <1>4, Waiting, WaitingAfter DEF Walks, Pending
  <2>2. at[r] \in {"waiting", "done"}
    BY <1>4 DEF Alone, Walks
  <2> QED
    BY <1>3, <2>1, <2>2
<1>5. ASSUME NEW q \in Requests, Alone(q), NEW tx \in Txs, SendsOut(q, tx)
      PROVE  Caused(r)'
  <2>1. tx.request = q /\ tx \in Elements(pool'[WalletOf(q)])
    BY <1>5 DEF SendsOut
  <2>2. r # q
    BY <2>1, WaitingAfter
  <2>3. at[r] \in {"waiting", "done"}
    BY <1>5, <2>2 DEF Alone
  <2>4. Pending(WalletOf(r)) \subseteq Elements(pool'[WalletOf(r)])
    BY <1>5, RequestFacts DEF SendsOut, Pending
  <2> QED
    BY <1>3, <2>3, <2>4, Waiting, WaitingAfter
<1>6. ASSUME NEW w \in Wallets, Mines(w)
      PROVE  Caused(r)'
  <2>1. PICK tx \in Txs :
              /\ tx \in Pending(w) /\ Elements(pool'[w]) = Pending(w) \ {tx}
              /\ \A v \in Wallets \ {w} : pool'[v] = pool[v]
              /\ Decides(w, tx)
    BY <1>6, BlockStep DEF OneOut
  <2>2. at' = at /\ at[r] \in {"waiting", "done"} /\ WalletOf(r) \in Wallets
    BY <1>6, RequestFacts DEF Mines
  <2>3. CASE Waits(r)
    <3>1. PICK other \in Pending(WalletOf(r)) : other.request = r
      BY <2>3, Waiting
    <3>2. other = tx
      BY <2>1, <2>2, <3>1, WaitingAfter DEF Pending
    <3>3. IsOut(w, tx) /\ tx.request = r
      BY <2>1, <3>1, <3>2, OutOf
    <3>4. tx.kind = "call" /\ at[r] = "waiting"
      BY <2>2, <3>3 DEF IsOut, AwaitedOrDoubted, Txs
    <3>5. CASE ~Passes(r)
      <4>1. Stands(r)
        BY <2>3, <3>4 DEF SimulationStands, Undecided
      <4> QED
        BY <1>2, <3>4, <3>5, <4>1, RefusedForACause
    <3>6. CASE r \in Markets /\ tasks' = Append(tasks, Task(r, ask[r].deadline, guess[r][2], {}))
      <4>1. Len(tasks) \in Nat /\ tasks \in Seq(ChainTasks)
        BY Chain DEF Types
      <4>2. /\ DOMAIN tasks' = 1..(Len(tasks) + 1)
            /\ tasks'[Len(tasks) + 1] = Task(r, ask[r].deadline, guess[r][2], {})
        BY <3>6, <4>1
      <4>3. Len(tasks) + 1 \in Mine(r)'
        BY <4>1, <4>2 DEF Mine, Task
      <4> QED
        BY <3>6, <4>3, RequestFacts DEF Caused
    <3>7. CASE r \in Bets /\ bets' = bets \cup {r}
      BY <3>7, RequestFacts DEF Caused
    <3> QED
      BY <2>1, <3>3, <3>4, <3>5, <3>6, <3>7 DEF Decides
  <2> QED
    BY <1>3, <2>2, <2>3
<1>7. CASE Others \/ UNCHANGED vars
  <2>1. UNCHANGED <<at, pool>>
    BY <1>7, OthersStep DEF vars, wallets
  <2>2. Waits(r)' <=> Waits(r)
    BY <2>1, Waiting, WaitingAfter DEF Pending
  <2> QED
    BY <1>3, <2>1, <2>2
<1> QED
  BY <1>4, <1>5, <1>6, <1>7, StepsOf

-----------------------------------------------------------------------------
(* The invariant.                                                          *)

LEMMA InitCtl ==
    ASSUME Init
    PROVE  CtlInv
<1>1. Types
  <2>1. NoAsk \in Asks
    BY DEF NoAsk, Asks, Names, Sides
  <2>2. Funds \in 0..Funds
    BY ControlAssumption
  <2>3. <<0, "none">> \in Nat \X Names
    BY DEF Names
  <2>4. <<>> \in Seq(Txs) /\ <<>> \in Seq(ChainTasks)
    OBVIOUS
  <2> QED
    BY <2>1, <2>2, <2>3, <2>4, ControlAssumption DEF Init, Types
<1>2. DOMAIN tasks = {} /\ Len(tasks) = 0 /\ bets = {} /\ \A r : Mine(r) = {}
  BY DEF Init, Mine
<1>3. \A w \in Wallets : DOMAIN pool[w] = {} /\ Len(pool[w]) = 0
  BY DEF Init
<1>4. \A w \in Wallets : Pending(w) = {} /\ Distinct(pool[w])
  BY <1>3 DEF Pending, Elements, Distinct
<1>5. \A r \in Requests : /\ at[r] = "idle" /\ guess[r][1] = 0 /\ seen[r] = 0
                          /\ WalletOf(r) \in Wallets
  BY RequestFacts DEF Init
<1>6. /\ \A w \in Wallets : sent[w] = 0 /\ approved[w] = FALSE /\ funds[w] = Funds
      /\ "client" \in Wallets /\ "human" \in Wallets
  BY DEF Init, Wallets
<1>7. Counts
  BY <1>2, <1>3, <1>5, <1>6 DEF Counts
<1>8. OneOut
  BY <1>2, <1>4 DEF OneOut
<1>9. Allowances
  BY <1>5, <1>6 DEF Allowances, FlagFollowsAllowance
<1>10. AskedWithinLimits /\ SimulationStands
  BY <1>5 DEF AskedWithinLimits, SimulationStands, Undecided, Requests
<1>11. Guessed
  BY <1>2, <1>4, <1>5 DEF Guessed, Committed, Requests
<1>12. NothingForACause
  BY <1>5 DEF NothingForACause
<1> QED
  BY <1>1, <1>7, <1>8, <1>9, <1>10, <1>11, <1>12 DEF CtlInv

LEMMA NextCtl ==
    ASSUME CtlInv, [Next]_vars
    PROVE  CtlInv'
<1> USE DEF CtlInv
<1>1. Types' /\ TasksKept
  BY NextTypes
<1>2. Counts' /\ OneOut'
  BY <1>1, NextCounts, NextOneOut
<1>3. Allowances' /\ AskedWithinLimits' /\ SimulationStands'
  BY <1>1, NextAllowances, NextAsked, NextStands
<1>4. Guessed' /\ NothingForACause'
  BY <1>1, NextGuessed, NextNothing
<1> QED
  BY <1>1, <1>2, <1>3, <1>4

\* The invariant holds of every behaviour of the control plane.
LEMMA CtlInvariance == Spec => []CtlInv
<1>1. Init => CtlInv
  BY InitCtl
<1>2. CtlInv /\ [Next]_vars => CtlInv'
  BY NextCtl
<1> QED
  BY <1>1, <1>2, PTL DEF Spec

\* What a request relies on was approved: types, and a flag only after its allowance
\* (control.ts approveOnce), for any number of first requests at once.
THEOREM ApprovalsHold == Spec => []ApprovedBeforeUse
<1>1. CtlInv => ApprovedBeforeUse
  <2> SUFFICES ASSUME CtlInv PROVE ApprovedBeforeUse
    OBVIOUS
  <2>1. Types /\ Counts /\ FlagFollowsAllowance
    BY DEF CtlInv, Allowances
  <2>2. \A r \in Requests : guess[r][1] \in 0..(Len(tasks) + 1)
    BY <2>1, Chain, Asked DEF Counts
  <2>3. \A w \in Wallets : funds[w] \in 0..Funds
    BY <2>1 DEF Types
  <2>4. \A i \in DOMAIN tasks, side \in Sides : tasks[i].pools[side] \in 0..CAP
    BY <2>1, TaskFields DEF Types
  <2> QED
    BY <2>1, <2>2, <2>3, <2>4 DEF Types, Counts, ControlTypeOK, ApprovedBeforeUse
<1> QED
  BY <1>1, CtlInvariance, PTL

\* A request answered with an error opened no market and placed no bet, and has no
\* transaction out that could, unless it lost its receipt (api.ts create_failed,
\* bet_failed).
THEOREM ErrorsAreFree == Spec => []ErrorIsFree
<1>1. CtlInv => ErrorIsFree
  <2> SUFFICES ASSUME CtlInv, NEW r \in Requests, at[r] = "error", r \notin doubted
               PROVE  Mine(r) = {} /\ r \notin bets /\ ~Waits(r)
    BY DEF ErrorIsFree
  <2>1. OneOut /\ WalletOf(r) \in Wallets
    BY RequestFacts DEF CtlInv
  <2>2. Mine(r) = {} /\ r \notin bets
    BY <2>1 DEF OneOut, AwaitedOrDoubted
  <2>3. ASSUME NEW tx \in Pending(WalletOf(r)), tx.request = r
        PROVE  FALSE
    BY <2>1, <2>3, OutOf DEF IsOut, AwaitedOrDoubted, Txs
  <2> QED
    BY <2>2, <2>3, Waiting
<1> QED
  BY <1>1, CtlInvariance, PTL

\* A reply that reports success reports what happened, but for the races its parts
\* name (control.ts createTask, placeBet), whatever else the wallets are doing.
THEOREM RepliesHold == Spec => []RepliesAreTrue
<1>1. CtlInv => RepliesAreTrue
  <2> SUFFICES ASSUME CtlInv PROVE RepliesAreTrue
    OBVIOUS
  <2>0. Types /\ OneOut /\ Guessed /\ NothingForACause /\ Markets \subseteq Requests /\ Bets \subseteq Requests
    BY DEF CtlInv, Requests
  <2>1. ASSUME NEW r \in Requests, at[r] = "done"
        PROVE  Caused(r)
    <3>1. ASSUME NEW tx \in Pending(WalletOf(r)), tx.request = r
          PROVE  FALSE
      BY <2>0, <2>1, <3>1, OutOf, RequestFacts DEF IsOut, AwaitedOrDoubted, Txs
    <3> QED
      BY <2>0, <2>1, <3>1, Waiting DEF NothingForACause
  <2>2. WrongNumberNeedsARace
    <3> SUFFICES ASSUME NEW r \in Markets, at[r] = "done", Mine(r) # {guess[r][1]}
                 PROVE  \/ Mine(r) # {} /\ guess[r][1] \in DOMAIN tasks /\ tasks[guess[r][1]].by # r
                        \/ Mine(r) = {} /\ met[r] \cap {"paused", "spent", "late"} # {}
      BY DEF WrongNumberNeedsARace
    <3>1. ASSUME NEW i \in Mine(r)
          PROVE  guess[r][1] \in DOMAIN tasks /\ tasks[guess[r][1]].by # r
      <4>1. i \in DOMAIN tasks /\ tasks[i].by = r
        BY DEF Mine
      <4>2. /\ guess[r][1] \in 1..i
            /\ \A j \in DOMAIN tasks : tasks[j].by = r => j = i
        BY <2>0, <4>1 DEF Guessed
      <4>3. guess[r][1] \in DOMAIN tasks
        BY <2>0, <4>1, <4>2, Chain
      <4>4. Mine(r) = {i}
        BY <4>1, <4>2 DEF Mine
      <4> QED
        BY <4>2, <4>3, <4>4
    <3>2. CASE Mine(r) = {}
      BY <2>0, <2>1, <3>2 DEF Caused
    <3> QED
      BY <3>1, <3>2
  <2>3. EmptyBetNeedsARace
    BY <2>0, <2>1 DEF EmptyBetNeedsARace, Caused
  <2>4. SpecAsAsked
    BY <2>0 DEF SpecAsAsked, Guessed, SpecFor
  <2> QED
    BY <2>2, <2>3, <2>4 DEF RepliesAreTrue
<1> QED
  BY <1>1, CtlInvariance, PTL
=============================================================================
