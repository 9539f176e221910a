---------------------------- MODULE AgentProofs ----------------------------
(***************************************************************************)
(* Wherever the bring-up of the fleet dies and is run again, its roles     *)
(* have their agents and their gas, and its bettors keep to their rules.   *)
(* The registry is told apart from what is on its way to it: a role has    *)
(* as many agents and pending registrations together as dead runs left     *)
(* behind, and one more, so whoever takes a simulated id has two of them.  *)
(* A bettor's clock is an inequality that every sleep, every failed read,  *)
(* every slow second and every wait of the mirror keeps: no poll is later  *)
(* than they explain.                                                      *)
(***************************************************************************)
EXTENDS AgentSafety, DataProofs

-----------------------------------------------------------------------------
(* The bring-up.                                                           *)

Clis == {"deploy", "gas", "usdc", "register", "up"}
OpOf == [gas |-> "gas", usdc |-> "mint", register |-> "register"]
TxRecord == [op : {"gas", "mint", "register"}, role : Funded, n : Nat, run : Nat \X Nat]

ScriptShape ==
    /\ script \in [cli : Clis, i : Nat \ {0},
                   at : {"next", "sending", "waiting", "stopped"}, n : Nat]
    /\ script.cli \in {"gas", "usdc", "register"} => script.i <= Len(Loop[script.cli])
    /\ script.at = "sending" => script.cli \in {"gas", "register"}
    /\ script.at = "waiting" => script.cli \in {"gas", "usdc", "register"}
    /\ script.cli = "up" => script.at = "next"

\* This run's transaction, if it is still pending, is the last, and no two are of
\* the same run.
MempoolShape ==
    /\ mempool \in Seq(TxRecord)
    /\ stops \in Nat /\ deploys \in Nat
    /\ \A i \in DOMAIN mempool : LET tx == mempool[i] IN
          /\ tx.run[1] <= deploys /\ tx.run[2] <= stops
          /\ tx.op = "register" => tx.role \in Roles
          /\ tx.run = <<deploys, stops>> =>
                /\ i = Len(mempool) /\ script.at = "waiting"
                /\ tx.op = OpOf[script.cli] /\ tx.role = Role
                /\ tx.n = IF script.cli = "usdc" THEN USDC_EACH ELSE script.n
    /\ \A i, j \in DOMAIN mempool : mempool[i].run = mempool[j].run => i = j

Held(r) == Cardinality(AgentsOf(r))
Sent(r) == Cardinality(Pending(r))

\* The run waits for a registration of r.
Awaits(r) == In("register", "waiting") /\ Role = r /\ Waited # {}

Money ==
    /\ gas \in [Funded -> Nat] /\ usdc \in [Funded -> Nat] /\ deployer \in Nat
    /\ \A r \in Roles : Sent(r) <= gas[r]

Got(r) == gas[r] + (IF r \in Roles THEN Held(r) ELSE 0)
GasGiven ==
    /\ script.cli \in {"usdc", "register", "up"} => \A r \in Funded : Got(r) >= GasTarget(r)
    /\ script.cli = "gas" =>
          \A k \in 1..(script.i - 1) : Got(NEEDS_GAS[k]) >= GasTarget(NEEDS_GAS[k])
    /\ In("gas", "sending") \/ (In("gas", "waiting") /\ Waited # {}) =>
          Got(Role) + script.n >= GasTarget(Role)
    /\ In("gas", "waiting") /\ Waited = {} => Got(Role) >= GasTarget(Role)

Owners ==
    /\ owner \in Seq(Roles \cup {"other"})
    /\ map \in [Roles -> Nat] /\ orphans \in [Roles -> Nat]
    /\ TAKEN <= Len(owner) /\ \A id \in 1..TAKEN : owner[id] = "other"

OwnOrTaken(r, id) == id \in AgentsOf(r) \/ TakenFrom(r, id)

\* What is in the map is in the registry.
Entered ==
    /\ \A r \in Roles : map[r] > 0 =>
          /\ map[r] \in DOMAIN owner /\ AgentsOf(r) # {}
          /\ OwnOrTaken(r, map[r])
    /\ script.cli = "up" => \A r \in Roles : map[r] > 0
    /\ script.cli = "register" =>
          /\ \A k \in 1..(script.i - 1) : map[FLEET[k]] > 0
          /\ script.at \in {"sending", "waiting"} => map[Role] = 0

\* The id that was simulated: the next one, or one that was mined since.
Simulated ==
    /\ In("register", "sending") \/ (In("register", "waiting") /\ Waited # {}) =>
          \/ script.n = Len(owner) + 1
          \/ script.n \in DOMAIN owner /\ OwnOrTaken(Role, script.n)
    /\ In("register", "waiting") /\ Waited = {} =>
          /\ script.n \in DOMAIN owner /\ OwnOrTaken(Role, script.n)
          /\ AgentsOf(Role) # {} /\ Pending(Role) = {}

\* Registrations that are pending are this run's or orphans; who has two, of
\* which one is pending, has two orphans.
Orphans ==
    /\ \A r \in Roles : Pending(r) # {} => orphans[r] > 0 \/ Awaits(r)
    /\ Len(owner) <= TAKEN + SCAN =>
          /\ \A r \in Roles :
                /\ Held(r) + Sent(r) <= 1 + orphans[r]
                /\ Pending(r) # {} => Held(r) + Sent(r) <= orphans[r] + (IF Awaits(r) THEN 1 ELSE 0)
                /\ In("register", "sending") /\ Role = r => Held(r) + Sent(r) <= orphans[r]
                /\ map[r] > 0 /\ Pending(r) # {} => orphans[r] > 1
          /\ \A k, l \in DOMAIN FLEET : k < l /\ Pending(FLEET[l]) # {} => AgentsOf(FLEET[k]) # {}
          /\ script.cli = "register" /\ script.at \in {"sending", "waiting"} =>
                \A l \in DOMAIN FLEET : script.i < l => Pending(FLEET[l]) = {}

\* Without a stop every mint has succeeded.
UsdcGiven ==
    stops = 0 =>
        /\ script.cli = "usdc" => \A k \in 1..(script.i - 1) : usdc[NEEDS_USDC[k]] >= USDC_EACH
        /\ In("usdc", "waiting") /\ Waited = {} => usdc[Role] >= USDC_EACH
        /\ script.cli = "register" => \A r \in ToSet(NEEDS_USDC) : usdc[r] >= USDC_EACH

SetupInv ==
    /\ ScriptShape /\ MempoolShape /\ Money /\ GasGiven
    /\ Owners /\ Entered /\ Simulated /\ Orphans /\ UsdcGiven

(* The market.                                                             *)

BotRecord == [at : {"off", "polling", "reading", "placing", "done", "missed"},
              due : Nat, seen : Int, failed : Nat, lost : Nat, slow : Nat,
              choice : [action : {"abstain"}] \cup
                  [action : {"bet"}, side : {"Yes", "No"}, amount : Nat],
              source : {"rule", "gemini"}, read : [yes : Nat, no : Nat]]

MarketShape ==
    /\ DOMAIN task = DOMAIN NoTask
    /\ task.state \in {"None", "Created", "Taken", "Open", "Delivered", "Settled"}
    /\ task.reward \in Nat /\ task.stake \in Nat /\ task.yes \in Nat /\ task.no \in Nat
    /\ task.left \in Int
    /\ llm \in BOOLEAN /\ hist \in [n : Nat, wins : Nat] /\ paused \in BOOLEAN
    /\ spent \in [Funded -> Int] /\ now \in Nat /\ bots \in [Bettors -> BotRecord]
    /\ \A r \in refusals : r.who \in {"worker"} \cup Bettors

\* Nobody has accepted.
Early == task.state \in {"None", "Created", "Taken"}

\* Nothing happens before the fleet is up, nor to the bettors before acceptance; who
\* has staked is the worker; what has ended is past its cutoff or its deadline.
InOrder ==
    /\ script.cli # "up" => task.state = "None" /\ \A r \in Funded : spent[r] = 0
    /\ task.state = "None" => refusals = {}
    /\ task.state = "Taken" => ~HasSolver(task.kind)
    /\ task.state \in {"Created", "Taken"} => task.reward >= Usdc(1)
    /\ Early => now = 0 /\ \A b \in Bettors : bots[b] = Idle
    /\ ~Early => task.yes > 0 /\ Controls("worker")
    /\ task.state \in {"Delivered", "Settled"} => now >= WINDOW \/ task.left < WINDOW

\* Without a stop in the bring-up, what a wallet has not spent it has.
Covered ==
    stops = 0 /\ script.cli = "up" =>
        \A r \in ToSet(NEEDS_USDC) : usdc[r] + spent[r] >= USDC_EACH

\* What failed reads and slow ticks have cost a bettor.
Behind(bot) == POLL * bot.failed + bot.lost + bot.slow

\* No bettor's next poll is later than its sleeps and its mishaps explain.
Timely(b, bot, time) ==
    /\ bot.at \in {"polling", "reading"} =>
          /\ bot.seen <= time /\ bot.seen <= POLL + Behind(bot)
          /\ IF b = "bettorMirror" /\ bot.seen >= 0
             THEN 2 * (time + bot.due) < WINDOW + 3 * POLL + 2 * Behind(bot)
             ELSE time + bot.due <= POLL + Behind(bot)
    /\ bot.at \in {"reading", "placing"} => time + MARGIN < WINDOW + bot.slow
    /\ bot.at = "missed" =>
          /\ bot.slow = 0
          /\ IF b = "bettorMirror" THEN WINDOW < 3 * POLL + 2 * (Behind(bot) + MARGIN)
             ELSE WINDOW <= POLL + Behind(bot) + MARGIN

\* What is on its way to the chain is a bet within limits.
Chosen(b, bot) ==
    bot.at = "placing" =>
        /\ bot.choice.action = "bet" /\ bot.choice.amount \in MIN_BET..MAX_BET
        /\ b = "bettorMirror" /\ bot.source = "rule" =>
              bot.read.yes > 0 /\ bot.choice = MirrorDecision(PBps(bot.read))

MarketInv ==
    /\ MarketShape /\ InOrder /\ Covered /\ RefusedForCause
    /\ \A b \in Bettors : Timely(b, bots[b], now) /\ Chosen(b, bots[b])

AgentInv == SetupInv /\ MarketInv

-----------------------------------------------------------------------------
(* Sequences: what an append adds and a removal takes away.                *)

\* What Append leaves in its place, and what it adds to the set.
LEMMA Appended ==
    ASSUME NEW T, NEW s \in Seq(T), NEW x \in T
    PROVE  /\ Append(s, x) \in Seq(T)
           /\ Len(Append(s, x)) = Len(s) + 1
           /\ DOMAIN Append(s, x) = 1..(Len(s) + 1) /\ DOMAIN s = 1..Len(s)
           /\ \A i \in 1..Len(s) : Append(s, x)[i] = s[i]
           /\ Append(s, x)[Len(s) + 1] = x
           /\ ToSet(Append(s, x)) = ToSet(s) \cup {x}
<1>1. /\ Append(s, x) \in Seq(T) /\ Len(Append(s, x)) = Len(s) + 1
      /\ \A i \in 1..Len(s) : Append(s, x)[i] = s[i]
      /\ Append(s, x)[Len(s) + 1] = x
  OBVIOUS
<1>2. DOMAIN Append(s, x) = 1..(Len(s) + 1) /\ DOMAIN s = 1..Len(s)
  BY <1>1
<1>3. ToSet(Append(s, x)) = ToSet(s) \cup {x}
  <2>1. Len(s) \in Nat
    OBVIOUS
  <2>2. 1..(Len(s) + 1) = (1..Len(s)) \cup {Len(s) + 1}
    BY <2>1
  <2> QED
    BY <1>1, <1>2, <2>2 DEF ToSet
<1> QED
  BY <1>1, <1>2, <1>3

\* What RemoveAt leaves: all but one element, in the same order.
LEMMA Removed ==
    ASSUME NEW T, NEW s \in Seq(T), NEW i \in DOMAIN s,
           \A j, k \in DOMAIN s : s[j] = s[k] => j = k
    PROVE  /\ RemoveAt(s, i) \in Seq(T)
           /\ Len(RemoveAt(s, i)) = Len(s) - 1
           /\ DOMAIN RemoveAt(s, i) = 1..(Len(s) - 1)
           /\ \A k \in 1..(Len(s) - 1) :
                 RemoveAt(s, i)[k] = s[IF k < i THEN k ELSE k + 1]
           /\ ToSet(RemoveAt(s, i)) = ToSet(s) \ {s[i]}
<1> DEFINE r == RemoveAt(s, i)
<1>1. Len(s) \in Nat /\ DOMAIN s = 1..Len(s) /\ i \in 1..Len(s)
  OBVIOUS
<1>2. /\ SubSeq(s, 1, i - 1) \in Seq(T) /\ SubSeq(s, i + 1, Len(s)) \in Seq(T)
      /\ Len(SubSeq(s, 1, i - 1)) = i - 1 /\ Len(SubSeq(s, i + 1, Len(s))) = Len(s) - i
      /\ \A k \in 1..(i - 1) : SubSeq(s, 1, i - 1)[k] = s[k]
      /\ \A k \in 1..(Len(s) - i) : SubSeq(s, i + 1, Len(s))[k] = s[i + k]
  BY <1>1
<1>3. /\ r \in Seq(T) /\ Len(r) = Len(s) - 1 /\ DOMAIN r = 1..(Len(s) - 1)
      /\ \A k \in 1..(Len(s) - 1) : r[k] = s[IF k < i THEN k ELSE k + 1]
  <2>1. r = SubSeq(s, 1, i - 1) \o SubSeq(s, i + 1, Len(s))
    BY DEF RemoveAt
  <2>2. r \in Seq(T) /\ Len(r) = Len(s) - 1 /\ DOMAIN r = 1..(Len(s) - 1)
    BY <1>1, <1>2, <2>1
  <2>3. ASSUME NEW k \in 1..(Len(s) - 1)
        PROVE  r[k] = s[IF k < i THEN k ELSE k + 1]
    <3>1. CASE k < i
      <4>1. k \in 1..(i - 1)
        BY <1>1, <3>1
      <4>2. r[k] = SubSeq(s, 1, i - 1)[k]
        BY <1>1, <1>2, <2>1, <4>1
      <4> QED
        BY <1>2, <3>1, <4>1, <4>2
    <3>2. CASE ~(k < i)
      <4>1. k - (i - 1) \in 1..(Len(s) - i) /\ i + (k - (i - 1)) = k + 1
        BY <1>1, <3>2
      <4>2. r[k] = SubSeq(s, i + 1, Len(s))[k - (i - 1)]
        <5> DEFINE u == SubSeq(s, 1, i - 1)
                   v == SubSeq(s, i + 1, Len(s))
        <5>1. Len(u) = i - 1 /\ Len(v) = Len(s) - i /\ u \in Seq(T) /\ v \in Seq(T)
          BY <1>2
        <5>2. r = u \o v /\ k \in 1..(Len(u) + Len(v)) /\ ~(k <= Len(u))
          BY <1>1, <2>1, <3>2, <5>1
        <5> HIDE DEF u, v, r
        <5>3. r[k] = v[k - Len(u)]
          BY <5>1, <5>2
        <5> QED
          BY <5>1, <5>3 DEF v
      <4> QED
        BY <1>2, <3>2, <4>1, <4>2
    <3> QED
      BY <3>1, <3>2
  <2> QED
    BY <2>2, <2>3
<1>4. ToSet(r) = ToSet(s) \ {s[i]}
  <2> HIDE DEF r
  <2>1. ASSUME NEW k \in DOMAIN r PROVE r[k] \in ToSet(s) \ {s[i]}
    <3> DEFINE l == IF k < i THEN k ELSE k + 1
    <3>1. l \in DOMAIN s /\ l # i /\ r[k] = s[l]
      BY <1>1, <1>3
    <3> QED
      BY <3>1 DEF ToSet
  <2>2. ASSUME NEW l \in DOMAIN s, s[l] # s[i] PROVE s[l] \in ToSet(r)
    <3> DEFINE k == IF l < i THEN l ELSE l - 1
    <3>1. l # i
      BY <2>2
    <3>2. k \in 1..(Len(s) - 1) /\ (IF k < i THEN k ELSE k + 1) = l
      BY <1>1, <3>1
    <3>3. r[k] = s[l]
      BY <1>3, <3>2
    <3> QED
      BY <1>3, <3>2, <3>3 DEF ToSet
  <2>3. ToSet(r) \subseteq ToSet(s) \ {s[i]}
    BY <2>1 DEF ToSet
  <2>4. ToSet(s) \ {s[i]} \subseteq ToSet(r)
    BY <2>2 DEF ToSet
  <2> QED
    BY <2>3, <2>4
<1> QED
  BY <1>3, <1>4

\* A sequence has finitely many elements.
LEMMA SetOfSeqFinite ==
    ASSUME NEW T, NEW s \in Seq(T)
    PROVE  IsFiniteSet(ToSet(s)) /\ ToSet(s) \subseteq T
<1>1. IsFiniteSet(1..Len(s)) /\ DOMAIN s = 1..Len(s)
  BY FS_Interval
<1>2. s \in Surjection(1..Len(s), ToSet(s))
  BY <1>1 DEF ToSet, Surjection
<1>3. IsFiniteSet(ToSet(s))
  BY <1>1, <1>2, FS_Surjection
<1> QED
  BY <1>1, <1>3 DEF ToSet

\* A count that goes up or down by the one that comes or goes.
LEMMA OneMore ==
    ASSUME NEW S, NEW x, IsFiniteSet(S), x \notin S
    PROVE  /\ IsFiniteSet(S \cup {x}) /\ Cardinality(S) \in Nat
           /\ Cardinality(S \cup {x}) = Cardinality(S) + 1
BY FS_AddElement, FS_CardinalityType

\* A finite set without one of its elements has one less.
LEMMA OneLess ==
    ASSUME NEW S, NEW x \in S, IsFiniteSet(S)
    PROVE  /\ IsFiniteSet(S \ {x}) /\ Cardinality(S) \in Nat /\ Cardinality(S) > 0
           /\ Cardinality(S \ {x}) = Cardinality(S) - 1
<1>1. Cardinality(S) \in Nat /\ Cardinality(S) # 0
  BY FS_CardinalityType, FS_EmptySet
<1> QED
  BY <1>1, FS_RemoveElement

\* A finite set is empty or has at least one element.
LEMMA SomeMeansOne ==
    ASSUME NEW S, IsFiniteSet(S)
    PROVE  /\ Cardinality(S) \in Nat
           /\ S # {} <=> Cardinality(S) >= 1
           /\ S = {} <=> Cardinality(S) = 0
<1>1. Cardinality(S) \in Nat /\ (Cardinality(S) = 0 <=> S = {})
  BY FS_CardinalityType, FS_EmptySet
<1> QED
  BY <1>1

-----------------------------------------------------------------------------
(* What a well-formed state of the bring-up tells.                         *)

\* Roles are funded, and positions in the loops.
LEMMA Wallets ==
    /\ Roles \subseteq Funded /\ "other" \notin Roles
    /\ ToSet(NEEDS_USDC) \subseteq Funded
    /\ Len(FLEET) \in Nat \ {0} /\ DOMAIN FLEET = 1..Len(FLEET)
    /\ Len(NEEDS_GAS) \in Nat \ {0} /\ DOMAIN NEEDS_GAS = 1..Len(NEEDS_GAS)
    /\ Len(NEEDS_USDC) \in Nat \ {0} /\ DOMAIN NEEDS_USDC = 1..Len(NEEDS_USDC)
    /\ \A k \in 1..Len(FLEET) : FLEET[k] \in Roles
    /\ \A k \in 1..Len(NEEDS_GAS) : NEEDS_GAS[k] \in Funded
    /\ \A k \in 1..Len(NEEDS_USDC) : NEEDS_USDC[k] \in ToSet(NEEDS_USDC)
    /\ \A r \in Roles : \E k \in 1..Len(FLEET) : FLEET[k] = r
    /\ \A r \in Funded : \E k \in 1..Len(NEEDS_GAS) : NEEDS_GAS[k] = r
    /\ \A r \in ToSet(NEEDS_USDC) : \E k \in 1..Len(NEEDS_USDC) : NEEDS_USDC[k] = r
    /\ \A i, j \in 1..Len(FLEET) : FLEET[i] = FLEET[j] => i = j
    /\ \A r : GasTarget(r) \in Nat
    /\ GAS \in Nat /\ RELAYER_GAS \in Nat /\ USDC_EACH \in Nat /\ TAKEN \in Nat /\ SCAN \in Nat /\ Drip \in Nat
<1>1. ASSUME NEW T, NEW s \in Seq(T), s # <<>>
      PROVE  /\ Len(s) \in Nat \ {0} /\ DOMAIN s = 1..Len(s)
             /\ \A k \in 1..Len(s) : s[k] \in ToSet(s)
             /\ \A r \in ToSet(s) : \E k \in 1..Len(s) : s[k] = r
             /\ ToSet(s) \subseteq T
  BY <1>1 DEF ToSet
<1>2. /\ FLEET \in Seq(STRING \ {"other"}) /\ FLEET # <<>>
      /\ NEEDS_GAS \in Seq(STRING) /\ NEEDS_GAS # <<>>
      /\ NEEDS_USDC \in Seq(ToSet(NEEDS_GAS)) /\ NEEDS_USDC # <<>>
  BY FleetAssumption
<1>3. /\ ToSet(FLEET) \subseteq STRING \ {"other"} /\ ToSet(FLEET) \subseteq ToSet(NEEDS_GAS)
      /\ ToSet(NEEDS_USDC) \subseteq ToSet(NEEDS_GAS)
  BY <1>1, <1>2, FleetAssumption
<1>4. /\ Len(FLEET) \in Nat \ {0} /\ DOMAIN FLEET = 1..Len(FLEET)
      /\ \A k \in 1..Len(FLEET) : FLEET[k] \in Roles
      /\ \A r \in Roles : \E k \in 1..Len(FLEET) : FLEET[k] = r
  BY <1>1, <1>2 DEF Roles
<1>5. /\ Len(NEEDS_GAS) \in Nat \ {0} /\ DOMAIN NEEDS_GAS = 1..Len(NEEDS_GAS)
      /\ \A k \in 1..Len(NEEDS_GAS) : NEEDS_GAS[k] \in Funded
      /\ \A r \in Funded : \E k \in 1..Len(NEEDS_GAS) : NEEDS_GAS[k] = r
  BY <1>1, <1>2 DEF Funded
<1>6. /\ Len(NEEDS_USDC) \in Nat \ {0} /\ DOMAIN NEEDS_USDC = 1..Len(NEEDS_USDC)
      /\ \A k \in 1..Len(NEEDS_USDC) : NEEDS_USDC[k] \in ToSet(NEEDS_USDC)
      /\ \A r \in ToSet(NEEDS_USDC) : \E k \in 1..Len(NEEDS_USDC) : NEEDS_USDC[k] = r
  BY <1>1, <1>2
<1>7. /\ GAS \in Nat /\ RELAYER_GAS \in Nat /\ USDC_EACH \in Nat /\ TAKEN \in Nat /\ SCAN \in Nat /\ Drip \in Nat
  BY FleetAssumption
<1>8. \A r : GasTarget(r) \in Nat
  BY <1>7 DEF GasTarget
<1> QED
  BY <1>3, <1>4, <1>5, <1>6, <1>7, <1>8, FleetAssumption DEF Roles, Funded

\* Whose turn it is.
LEMMA TheRole ==
    ASSUME ScriptShape
    PROVE  /\ script.i \in Nat \ {0}
           /\ script.cli = "gas" =>
                 Loop[script.cli] = NEEDS_GAS /\ script.i \in 1..Len(NEEDS_GAS) /\ Role = NEEDS_GAS[script.i]
           /\ script.cli = "usdc" =>
                 Loop[script.cli] = NEEDS_USDC /\ script.i \in 1..Len(NEEDS_USDC) /\ Role = NEEDS_USDC[script.i]
           /\ script.cli = "register" =>
                 Loop[script.cli] = FLEET /\ script.i \in 1..Len(FLEET) /\ Role = FLEET[script.i] /\ Role \in Roles
           /\ script.cli \in {"gas", "usdc", "register"} => Role \in Funded
<1>1. script.i \in Nat \ {0} /\ script.cli \in Clis
  BY DEF ScriptShape
<1>2. CASE script.cli = "gas"
  BY <1>1, <1>2, Wallets DEF ScriptShape, Loop, Role
<1>3. CASE script.cli = "usdc"
  BY <1>1, <1>3, Wallets DEF ScriptShape, Loop, Role
<1>4. CASE script.cli = "register"
  BY <1>1, <1>4, Wallets DEF ScriptShape, Loop, Role
<1> QED
  BY <1>1, <1>2, <1>3, <1>4

\* Transactions by position and as a set.
LEMMA Txs ==
    ASSUME MempoolShape
    PROVE  /\ mempool \in Seq(TxRecord) /\ Len(mempool) \in Nat /\ DOMAIN mempool = 1..Len(mempool)
           /\ ToSet(mempool) \subseteq TxRecord /\ IsFiniteSet(ToSet(mempool))
           /\ \A i \in DOMAIN mempool : mempool[i] \in TxRecord /\ mempool[i] \in ToSet(mempool)
           /\ \A tx \in ToSet(mempool) : \E i \in DOMAIN mempool : mempool[i] = tx
           /\ \A i, j \in DOMAIN mempool : mempool[i] = mempool[j] => i = j
           /\ \A tx \in ToSet(mempool) : tx.op = "register" => tx.role \in Roles
<1>1. mempool \in Seq(TxRecord)
  BY DEF MempoolShape
<1>2. ToSet(mempool) \subseteq TxRecord /\ IsFiniteSet(ToSet(mempool))
  BY <1>1, SetOfSeqFinite
<1>3. /\ Len(mempool) \in Nat /\ DOMAIN mempool = 1..Len(mempool)
      /\ \A i \in DOMAIN mempool : mempool[i] \in TxRecord /\ mempool[i] \in ToSet(mempool)
      /\ \A tx \in ToSet(mempool) : \E i \in DOMAIN mempool : mempool[i] = tx
  BY <1>1 DEF ToSet
<1>4. \A i, j \in DOMAIN mempool : mempool[i] = mempool[j] => i = j
  BY DEF MempoolShape
<1>5. \A tx \in ToSet(mempool) : tx.op = "register" => tx.role \in Roles
  BY <1>3 DEF MempoolShape
<1> QED
  BY <1>1, <1>2, <1>3, <1>4, <1>5

\* The run's own transaction.
LEMMA TheWaited ==
    ASSUME ScriptShape, MempoolShape
    PROVE  /\ \A i \in DOMAIN mempool : mempool[i].run = <<deploys, stops>> <=> mempool[i] \in Waited
           /\ Waited # {} => script.at = "waiting" /\ Len(mempool) \in DOMAIN mempool
                             /\ Waited = {mempool[Len(mempool)]}
           /\ \A tx \in Waited : /\ tx.op = OpOf[script.cli] /\ tx.role = Role
                                 /\ tx.n = IF script.cli = "usdc" THEN USDC_EACH ELSE script.n
           /\ \A i \in DOMAIN mempool : mempool[i] \in Waited => i = Len(mempool)
<1>1. \A i \in DOMAIN mempool : mempool[i].run = <<deploys, stops>> <=> mempool[i] \in Waited
  BY Txs DEF Waited
<1>2. \A i \in DOMAIN mempool : mempool[i] \in Waited =>
         /\ i = Len(mempool) /\ script.at = "waiting"
         /\ mempool[i].op = OpOf[script.cli] /\ mempool[i].role = Role
         /\ mempool[i].n = IF script.cli = "usdc" THEN USDC_EACH ELSE script.n
  BY <1>1 DEF MempoolShape
<1>3. \A tx \in Waited : \E i \in DOMAIN mempool : mempool[i] = tx
  BY Txs DEF Waited
<1> QED
  BY <1>1, <1>2, <1>3

\* Agents and pending registrations are finite in number.
LEMMA Counts ==
    ASSUME MempoolShape, Owners
    PROVE  /\ Len(owner) \in Nat /\ DOMAIN owner = 1..Len(owner)
           /\ \A r : /\ IsFiniteSet(Pending(r)) /\ Pending(r) \subseteq ToSet(mempool)
                     /\ Sent(r) \in Nat /\ (Pending(r) = {} <=> Sent(r) = 0)
                     /\ IsFiniteSet(AgentsOf(r)) /\ AgentsOf(r) \subseteq 1..Len(owner)
                     /\ Held(r) \in Nat /\ (AgentsOf(r) = {} <=> Held(r) = 0)
<1>1. Len(owner) \in Nat /\ DOMAIN owner = 1..Len(owner)
  BY DEF Owners
<1>2. ASSUME NEW r PROVE IsFiniteSet(Pending(r)) /\ Pending(r) \subseteq ToSet(mempool)
  <2>1. Pending(r) \subseteq ToSet(mempool)
    BY DEF Pending
  <2> QED
    BY <2>1, Txs, FS_Subset
<1>3. ASSUME NEW r PROVE IsFiniteSet(AgentsOf(r)) /\ AgentsOf(r) \subseteq 1..Len(owner)
  <2>1. AgentsOf(r) \subseteq 1..Len(owner) /\ IsFiniteSet(1..Len(owner))
    BY <1>1, FS_Interval DEF AgentsOf
  <2> QED
    BY <2>1, FS_Subset
<1> QED
  BY <1>1, <1>2, <1>3, SomeMeansOne DEF Sent, Held

-----------------------------------------------------------------------------
(* What the steps do to the transactions, and to the registry.             *)

\* A transaction that is sent joins the set, and its wallet's pending ones.
LEMMA Sending ==
    ASSUME ScriptShape, MempoolShape, Waited = {},
           NEW tx \in TxRecord, tx.run = <<deploys, stops>>,
           mempool' = Append(mempool, tx), UNCHANGED <<deploys, stops>>
    PROVE  /\ Waited' = {tx}
           /\ \A r : Pending(r)' = IF tx.op = "register" /\ tx.role = r
                                   THEN Pending(r) \cup {tx} ELSE Pending(r)
           /\ \A r : Sent(r)' = IF tx.op = "register" /\ tx.role = r THEN Sent(r) + 1 ELSE Sent(r)
<1>1. ToSet(mempool') = ToSet(mempool) \cup {tx}
  BY Txs, Appended
<1>2. tx \notin ToSet(mempool)
  BY DEF Waited
<1>3. Waited' = {tx}
  <2>1. Waited' = {x \in ToSet(mempool') : x.run = <<deploys, stops>>}
    BY DEF Waited
  <2> QED
    BY <1>1, <2>1 DEF Waited
<1>4. ASSUME NEW r
      PROVE  /\ Pending(r)' = IF tx.op = "register" /\ tx.role = r
                              THEN Pending(r) \cup {tx} ELSE Pending(r)
             /\ Sent(r)' = IF tx.op = "register" /\ tx.role = r THEN Sent(r) + 1 ELSE Sent(r)
  <2>1. Pending(r)' = {x \in ToSet(mempool') : x.op = "register" /\ x.role = r}
    BY DEF Pending
  <2>2. Pending(r)' = IF tx.op = "register" /\ tx.role = r THEN Pending(r) \cup {tx} ELSE Pending(r)
    BY <1>1, <2>1 DEF Pending
  <2>3. IsFiniteSet(Pending(r)) /\ tx \notin Pending(r)
    BY <1>2, Txs, FS_Subset DEF Pending
  <2>4. Cardinality(Pending(r) \cup {tx}) = Cardinality(Pending(r)) + 1
    BY <2>3, OneMore
  <2>5. Sent(r)' = Cardinality(Pending(r)')
    BY DEF Sent
  <2> QED
    BY <2>2, <2>4, <2>5 DEF Sent
<1> QED
  BY <1>3, <1>4

\* A transaction that is mined leaves both; no other is like it.
LEMMA Mining ==
    ASSUME ScriptShape, MempoolShape, NEW i \in DOMAIN mempool,
           mempool' = RemoveAt(mempool, i), UNCHANGED <<deploys, stops>>
    PROVE  /\ mempool' \in Seq(TxRecord) /\ Len(mempool') = Len(mempool) - 1
           /\ DOMAIN mempool' = 1..(Len(mempool) - 1)
           /\ \A k \in DOMAIN mempool' : mempool'[k] = mempool[IF k < i THEN k ELSE k + 1]
           /\ Waited' = Waited \ {mempool[i]}
           /\ \A r : Pending(r)' = Pending(r) \ {mempool[i]}
           /\ \A r : Sent(r)' = IF mempool[i] \in Pending(r) THEN Sent(r) - 1 ELSE Sent(r)
           /\ \A r : mempool[i] \in Pending(r) => Sent(r) >= 1
           /\ \A r : mempool[i] \in Pending(r) <=> mempool[i].op = "register" /\ mempool[i].role = r
<1>1. /\ mempool' \in Seq(TxRecord) /\ Len(mempool') = Len(mempool) - 1
      /\ DOMAIN mempool' = 1..(Len(mempool) - 1)
      /\ \A k \in 1..(Len(mempool) - 1) : mempool'[k] = mempool[IF k < i THEN k ELSE k + 1]
      /\ ToSet(mempool') = ToSet(mempool) \ {mempool[i]}
  <2>1. mempool \in Seq(TxRecord) /\ \A j, k \in DOMAIN mempool : mempool[j] = mempool[k] => j = k
    BY Txs
  <2>2. \A T : \A s \in Seq(T) : (\A j, k \in DOMAIN s : s[j] = s[k] => j = k) =>
           \A l \in DOMAIN s :
              /\ RemoveAt(s, l) \in Seq(T)
              /\ Len(RemoveAt(s, l)) = Len(s) - 1
              /\ DOMAIN RemoveAt(s, l) = 1..(Len(s) - 1)
              /\ \A k \in 1..(Len(s) - 1) : RemoveAt(s, l)[k] = s[IF k < l THEN k ELSE k + 1]
              /\ ToSet(RemoveAt(s, l)) = ToSet(s) \ {s[l]}
    BY Removed
  <2> QED
    BY <2>1, <2>2
<1>2. mempool[i] \in ToSet(mempool)
  BY Txs
<1>3. Waited' = Waited \ {mempool[i]}
  <2>1. Waited' = {x \in ToSet(mempool') : x.run = <<deploys, stops>>}
    BY DEF Waited
  <2> QED
    BY <1>1, <2>1 DEF Waited
<1>4. ASSUME NEW r
      PROVE  /\ Pending(r)' = Pending(r) \ {mempool[i]}
             /\ Sent(r)' = IF mempool[i] \in Pending(r) THEN Sent(r) - 1 ELSE Sent(r)
             /\ mempool[i] \in Pending(r) => Sent(r) >= 1
             /\ mempool[i] \in Pending(r) <=> mempool[i].op = "register" /\ mempool[i].role = r
  <2>1. Pending(r)' = {x \in ToSet(mempool') : x.op = "register" /\ x.role = r}
    BY DEF Pending
  <2>2. Pending(r)' = Pending(r) \ {mempool[i]}
    BY <1>1, <2>1 DEF Pending
  <2>3. IsFiniteSet(Pending(r))
    BY Txs, FS_Subset DEF Pending
  <2>4. Sent(r)' = Cardinality(Pending(r)')
    BY DEF Sent
  <2>5. CASE mempool[i] \in Pending(r)
    <3>1. Cardinality(Pending(r) \ {mempool[i]}) = Cardinality(Pending(r)) - 1 /\ Cardinality(Pending(r)) > 0
          /\ Cardinality(Pending(r)) \in Nat
      BY <2>3, <2>5, OneLess
    <3>2. mempool[i].op = "register" /\ mempool[i].role = r
      BY <2>5 DEF Pending
    <3> QED
      BY <2>2, <2>4, <2>5, <3>1, <3>2 DEF Sent
  <2>6. CASE mempool[i] \notin Pending(r)
    <3>1. ~(mempool[i].op = "register" /\ mempool[i].role = r)
      BY <1>2, <2>6 DEF Pending
    <3> QED
      BY <2>2, <2>4, <2>6, <3>1 DEF Sent
  <2> QED
    BY <2>5, <2>6
<1> QED
  BY <1>1, <1>3, <1>4

\* Without a new transaction or run nothing that is pending changes.
LEMMA SameTxs ==
    ASSUME UNCHANGED mempool
    PROVE  /\ \A r : Pending(r)' = Pending(r) /\ Sent(r)' = Sent(r)
           /\ UNCHANGED <<deploys, stops>> => Waited' = Waited
BY DEF Pending, Sent, Waited

\* No transaction is of a run that begins.
LEMMA NewRun ==
    ASSUME ScriptShape, MempoolShape, UNCHANGED mempool,
           \/ stops' = stops + 1 /\ deploys' = deploys
           \/ deploys' = deploys + 1 /\ stops' \in {stops, stops + 1}
    PROVE  /\ Waited' = {}
           /\ \A i \in DOMAIN mempool : /\ mempool[i].run # <<deploys', stops'>>
                                        /\ mempool[i].run[1] <= deploys' /\ mempool[i].run[2] <= stops'
<1>1. ASSUME NEW i \in DOMAIN mempool
      PROVE  /\ mempool[i].run # <<deploys', stops'>>
             /\ mempool[i].run[1] <= deploys' /\ mempool[i].run[2] <= stops'
  <2>1. mempool[i].run \in Nat \X Nat /\ mempool[i].run[1] <= deploys /\ mempool[i].run[2] <= stops
        /\ deploys \in Nat /\ stops \in Nat
    BY Txs DEF MempoolShape, TxRecord
  <2>2. mempool[i].run[1] \in Nat /\ mempool[i].run[2] \in Nat
    BY <2>1
  <2>3. mempool[i].run[1] # deploys' \/ mempool[i].run[2] # stops'
    BY <2>1, <2>2
  <2> QED
    BY <2>1, <2>2, <2>3
<1>2. Waited' = {tx \in ToSet(mempool) : tx.run = <<deploys', stops'>>}
  BY DEF Waited
<1> QED
  BY <1>1, <1>2, Txs

\* Without a registration the registry's owners stay.
LEMMA SameOwners ==
    ASSUME UNCHANGED owner
    PROVE  \A r : AgentsOf(r)' = AgentsOf(r) /\ Held(r)' = Held(r)
BY DEF AgentsOf, Held

\* A registration adds one id, the next, to its owner's.
LEMMA OwnerGrows ==
    ASSUME Owners, NEW x \in Roles \cup {"other"}, owner' = Append(owner, x)
    PROVE  /\ owner' \in Seq(Roles \cup {"other"})
           /\ Len(owner') = Len(owner) + 1 /\ DOMAIN owner' = 1..(Len(owner) + 1)
           /\ \A r : AgentsOf(r)' = IF r = x THEN AgentsOf(r) \cup {Len(owner) + 1} ELSE AgentsOf(r)
           /\ \A r : Held(r)' = IF r = x THEN Held(r) + 1 ELSE Held(r)
           /\ Foreign \subseteq Foreign' /\ (x \notin Roles => Len(owner) + 1 \in Foreign')
           /\ TAKEN <= Len(owner') /\ \A id \in 1..TAKEN : owner'[id] = "other"
<1>1. /\ owner' \in Seq(Roles \cup {"other"})
      /\ Len(owner') = Len(owner) + 1 /\ DOMAIN owner' = 1..(Len(owner) + 1)
      /\ \A i \in 1..Len(owner) : owner'[i] = owner[i]
      /\ owner'[Len(owner) + 1] = x /\ DOMAIN owner = 1..Len(owner) /\ Len(owner) \in Nat
  BY Appended DEF Owners
<1>2. ASSUME NEW r
      PROVE  /\ AgentsOf(r)' = IF r = x THEN AgentsOf(r) \cup {Len(owner) + 1} ELSE AgentsOf(r)
             /\ Held(r)' = IF r = x THEN Held(r) + 1 ELSE Held(r)
  <2>1. AgentsOf(r)' = {id \in DOMAIN owner' : owner'[id] = r}
    BY DEF AgentsOf
  <2>2. AgentsOf(r)' = IF r = x THEN AgentsOf(r) \cup {Len(owner) + 1} ELSE AgentsOf(r)
    BY <1>1, <2>1 DEF AgentsOf
  <2>3. IsFiniteSet(AgentsOf(r)) /\ Len(owner) + 1 \notin AgentsOf(r)
    <3>1. AgentsOf(r) \subseteq 1..Len(owner) /\ IsFiniteSet(1..Len(owner))
      BY <1>1, FS_Interval DEF AgentsOf
    <3> QED
      BY <1>1, <3>1, FS_Subset
  <2>4. Cardinality(AgentsOf(r) \cup {Len(owner) + 1}) = Cardinality(AgentsOf(r)) + 1
    BY <2>3, OneMore
  <2>5. Held(r)' = Cardinality(AgentsOf(r)')
    BY DEF Held
  <2> QED
    BY <2>2, <2>4, <2>5 DEF Held
<1>3. Foreign' = {id \in DOMAIN owner' : owner'[id] \notin Roles}
  BY DEF Foreign
<1>4. TAKEN <= Len(owner') /\ \A id \in 1..TAKEN : owner'[id] = "other"
  BY <1>1, Wallets DEF Owners
<1>5. Foreign \subseteq Foreign' /\ (x \notin Roles => Len(owner) + 1 \in Foreign')
  BY <1>1, <1>3 DEF Foreign
<1> QED
  BY <1>1, <1>2, <1>4, <1>5

\* Whose an id is, and what it was lost to, stays.
LEMMA TakenStays ==
    ASSUME Owners, UNCHANGED owner \/ \E x \in Roles \cup {"other"} : owner' = Append(owner, x),
           orphans' \in [Roles -> Nat], \A r \in Roles : orphans[r] <= orphans'[r]
    PROVE  \A r, id : OwnOrTaken(r, id) => OwnOrTaken(r, id)'
<1>1. /\ \A r : AgentsOf(r) \subseteq AgentsOf(r)'
      /\ Foreign \subseteq Foreign'
      /\ Len(owner) \in Nat /\ Len(owner') \in Nat /\ Len(owner) <= Len(owner')
  <2>1. CASE UNCHANGED owner
    BY <2>1 DEF AgentsOf, Foreign, Owners
  <2>2. CASE \E x \in Roles \cup {"other"} : owner' = Append(owner, x)
    <3>1. PICK x \in Roles \cup {"other"} : owner' = Append(owner, x)
      BY <2>2
    <3>2. Len(owner) \in Nat
      BY DEF Owners
    <3> QED
      BY <3>1, <3>2, OwnerGrows
  <2> QED
    BY <2>1, <2>2
<1>2. ASSUME NEW s \in Roles, orphans[s] > (IF Outgrown THEN 0 ELSE 1)
      PROVE  orphans'[s] > (IF Outgrown' THEN 0 ELSE 1)
  BY <1>1, <1>2, Wallets DEF Owners, Outgrown
<1>3. ASSUME NEW r, NEW id, OwnOrTaken(r, id)
      PROVE  OwnOrTaken(r, id)'
  <2>1. CASE id \in AgentsOf(r)
    BY <1>1, <2>1 DEF OwnOrTaken
  <2>2. CASE id \in Foreign
    BY <1>1, <2>2 DEF OwnOrTaken, TakenFrom
  <2>3. CASE \E s \in Roles \ {r} :
               id \in AgentsOf(s) /\ orphans[s] > (IF Outgrown THEN 0 ELSE 1)
    <3>1. PICK s \in Roles \ {r} :
               id \in AgentsOf(s) /\ orphans[s] > (IF Outgrown THEN 0 ELSE 1)
      BY <2>3
    <3>2. id \in AgentsOf(s)' /\ orphans'[s] > (IF Outgrown' THEN 0 ELSE 1)
      BY <1>1, <1>2, <3>1
    <3> QED
      BY <3>2 DEF OwnOrTaken, TakenFrom
  <2> QED
    BY <1>3, <2>1, <2>2, <2>3 DEF OwnOrTaken, TakenFrom
<1> QED
  BY <1>3

-----------------------------------------------------------------------------
(* Where the programs go.                                                  *)

\* Where Goes leads.
LEMMA GoesTo ==
    ASSUME ScriptShape, NEW at, NEW n \in Nat, Goes(at, n)
    PROVE  /\ script'.cli = script.cli /\ script'.i = script.i /\ script'.at = at /\ script'.n = n
           /\ Role' = Role
           /\ at \in {"next", "sending", "waiting", "stopped"} =>
                 script' \in [cli : Clis, i : Nat \ {0},
                              at : {"next", "sending", "waiting", "stopped"}, n : Nat]
<1>1. script'.cli = script.cli /\ script'.i = script.i /\ script'.at = at /\ script'.n = n
  BY DEF ScriptShape, Goes
<1> QED
  BY <1>1 DEF Role, ScriptShape, Goes

\* Where a program begins.
LEMMA BeginsAt ==
    ASSUME NEW cli \in Clis
    PROVE  /\ Begin(cli) \in [cli : Clis, i : Nat \ {0},
                              at : {"next", "sending", "waiting", "stopped"}, n : Nat]
           /\ Begin(cli).cli = cli /\ Begin(cli).i = 1 /\ Begin(cli).at = "next" /\ Begin(cli).n = 0
BY DEF Begin

\* A loop goes on to its next role, or the script to its next program.
LEMMA ProceedsTo ==
    ASSUME ScriptShape, script.cli \in {"gas", "usdc", "register"}, Proceeds
    PROVE  /\ ScriptShape' /\ script'.at = "next"
           /\ \/ /\ script.i < Len(Loop[script.cli])
                 /\ script'.cli = script.cli /\ script'.i = script.i + 1
              \/ /\ script.i = Len(Loop[script.cli])
                 /\ script'.cli = NextCli[script.cli] /\ script'.i = 1
                 /\ script'.cli = (CASE script.cli = "gas" -> "usdc" [] script.cli = "usdc" -> "register"
                                     [] OTHER -> "up")
<1>1. script.i \in Nat \ {0} /\ script.i <= Len(Loop[script.cli]) /\ Len(Loop[script.cli]) \in Nat
  BY TheRole, Wallets DEF ScriptShape
<1>2. CASE script.i < Len(Loop[script.cli])
  <2>1. script' = [Begin(script.cli) EXCEPT !.i = script.i + 1]
    BY <1>2 DEF Proceeds
  <2>2. script.cli \in Clis
    BY DEF Clis
  <2>3. /\ script' \in [cli : Clis, i : Nat \ {0},
                        at : {"next", "sending", "waiting", "stopped"}, n : Nat]
        /\ script'.cli = script.cli /\ script'.i = script.i + 1 /\ script'.at = "next"
    BY <1>1, <2>1, <2>2, BeginsAt
  <2>4. ScriptShape'
    BY <1>1, <1>2, <2>3 DEF ScriptShape, Loop
  <2> QED
    BY <1>2, <2>3, <2>4
<1>3. CASE ~(script.i < Len(Loop[script.cli]))
  <2>1. script' = Begin(NextCli[script.cli])
    BY <1>3 DEF Proceeds
  <2>2. NextCli[script.cli] = (CASE script.cli = "gas" -> "usdc" [] script.cli = "usdc" -> "register"
                                 [] OTHER -> "up")
    BY DEF NextCli
  <2>3. NextCli[script.cli] \in Clis
    BY <2>2 DEF Clis
  <2>4. /\ script' \in [cli : Clis, i : Nat \ {0},
                        at : {"next", "sending", "waiting", "stopped"}, n : Nat]
        /\ script'.cli = NextCli[script.cli] /\ script'.i = 1 /\ script'.at = "next"
    BY <2>1, <2>3, BeginsAt
  <2>5. /\ "usdc" \in DOMAIN Loop /\ "register" \in DOMAIN Loop
        /\ Loop["usdc"] = NEEDS_USDC /\ Loop["register"] = FLEET
        /\ 1 <= Len(NEEDS_USDC) /\ 1 <= Len(FLEET)
    BY Wallets DEF Loop
  <2>6. ScriptShape'
    BY <2>2, <2>4, <2>5 DEF ScriptShape
  <2> QED
    BY <1>1, <1>3, <2>2, <2>4, <2>6
<1> QED
  BY <1>2, <1>3

\* With no transaction new, gone, or waited for, only the script's place can
\* disturb what is said of transactions.
LEMMA MempoolStays ==
    ASSUME ScriptShape, MempoolShape, Waited = {}, UNCHANGED <<mempool, deploys, stops>>
    PROVE  MempoolShape' /\ Waited' = {} /\ \A r : ~Awaits(r)'
<1>1. Waited' = {}
  BY SameTxs
<1>2. \A i \in DOMAIN mempool : mempool[i].run # <<deploys, stops>>
  BY TheWaited
<1> QED
  BY <1>1, <1>2 DEF MempoolShape, Awaits

\* An unchanged registry and mempool leave the orphans as they are, unless a
\* registration is prepared or one is entered.
LEMMA OrphansStay ==
    ASSUME SetupInv, UNCHANGED <<owner, mempool, orphans>>,
           \A r \in Roles : ~Awaits(r), \A r \in Roles : ~Awaits(r)',
           \A r \in Roles : map'[r] > 0 => map[r] > 0,
           ~(script'.cli = "register" /\ script'.at \in {"sending", "waiting"})
    PROVE  Orphans'
<1>1. \A r : AgentsOf(r)' = AgentsOf(r) /\ Held(r)' = Held(r) /\ Pending(r)' = Pending(r) /\ Sent(r)' = Sent(r)
  BY SameTxs, SameOwners
<1>2. \A r \in Roles : ~In("register", "sending")'
  BY DEF In
<1> QED
  BY <1>1, <1>2, Wallets DEF SetupInv, Orphans

-----------------------------------------------------------------------------
(* A transaction is sent.                                                  *)

\* What holds of the mempool once this run has sent its transaction.
LEMMA SendsIt ==
    ASSUME ScriptShape, MempoolShape, Waited = {}, UNCHANGED <<deploys, stops>>,
           script.cli \in {"gas", "usdc", "register"},
           NEW n \in Nat, n = IF script.cli = "usdc" THEN USDC_EACH ELSE script.n,
           Sends(Tx(OpOf[script.cli], Role, n))
    PROVE  /\ ScriptShape' /\ MempoolShape'
           /\ script'.cli = script.cli /\ script'.i = script.i /\ script'.at = "waiting"
           /\ script'.n = script.n /\ Role' = Role
           /\ Waited' # {}
           /\ \A r : Pending(r)' = IF script.cli = "register" /\ Role = r
                                   THEN Pending(r) \cup {Tx(OpOf[script.cli], Role, n)} ELSE Pending(r)
           /\ \A r : Sent(r)' = IF script.cli = "register" /\ Role = r THEN Sent(r) + 1 ELSE Sent(r)
<1> DEFINE tx == Tx(OpOf[script.cli], Role, n)
<1>1. /\ tx \in TxRecord /\ tx.run = <<deploys, stops>> /\ tx.role = Role /\ tx.n = n
      /\ tx.op = OpOf[script.cli]
      /\ tx.op = "register" <=> script.cli = "register"
  <2>1. Role \in Funded /\ deploys \in Nat /\ stops \in Nat
    BY TheRole DEF MempoolShape
  <2> QED
    BY <2>1 DEF Tx, TxRecord, OpOf
<1>2. script.n \in Nat
  BY DEF ScriptShape
<1>3. /\ script'.cli = script.cli /\ script'.i = script.i /\ script'.at = "waiting"
      /\ script'.n = script.n /\ Role' = Role
      /\ script' \in [cli : Clis, i : Nat \ {0},
                      at : {"next", "sending", "waiting", "stopped"}, n : Nat]
  BY <1>2, GoesTo DEF Sends
<1>4. ScriptShape'
  BY <1>3 DEF ScriptShape, Loop
<1>5. mempool' = Append(mempool, tx)
  BY DEF Sends
<1> HIDE DEF tx
<1>6. /\ Waited' = {tx}
      /\ \A r : Pending(r)' = IF tx.op = "register" /\ tx.role = r THEN Pending(r) \cup {tx} ELSE Pending(r)
      /\ \A r : Sent(r)' = IF tx.op = "register" /\ tx.role = r THEN Sent(r) + 1 ELSE Sent(r)
  BY <1>1, <1>5, Sending
<1>7. MempoolShape'
  <2>1. /\ mempool' \in Seq(TxRecord) /\ Len(mempool') = Len(mempool) + 1
        /\ DOMAIN mempool' = 1..(Len(mempool) + 1) /\ DOMAIN mempool = 1..Len(mempool)
        /\ \A i \in 1..Len(mempool) : mempool'[i] = mempool[i]
        /\ mempool'[Len(mempool) + 1] = tx /\ Len(mempool) \in Nat
    BY <1>1, <1>5, Txs, Appended
  <2>2. \A i \in DOMAIN mempool : mempool[i].run # <<deploys, stops>>
    BY TheWaited
  <2>3. deploys \in Nat /\ stops \in Nat
    BY DEF MempoolShape
  <2>4. ASSUME NEW i \in DOMAIN mempool'
        PROVE  LET x == mempool'[i] IN
               /\ x.run[1] <= deploys' /\ x.run[2] <= stops'
               /\ x.op = "register" => x.role \in Roles
               /\ x.run = <<deploys', stops'>> =>
                     /\ i = Len(mempool') /\ script'.at = "waiting"
                     /\ x.op = OpOf[script'.cli] /\ x.role = Role'
                     /\ x.n = IF script'.cli = "usdc" THEN USDC_EACH ELSE script'.n
    <3>1. CASE i \in DOMAIN mempool
      BY <2>1, <2>2, <3>1 DEF MempoolShape
    <3>2. CASE i = Len(mempool) + 1
      <4>1. tx.op = "register" => tx.role \in Roles
        BY <1>1, TheRole
      <4> QED
        BY <1>1, <1>3, <2>1, <2>3, <3>2, <4>1
    <3> QED
      BY <2>1, <3>1, <3>2
  <2>5. ASSUME NEW i \in DOMAIN mempool', NEW j \in DOMAIN mempool', mempool'[i].run = mempool'[j].run
        PROVE  i = j
    <3>1. CASE i \in DOMAIN mempool /\ j \in DOMAIN mempool
      BY <2>1, <2>5, <3>1 DEF MempoolShape
    <3>2. CASE i = Len(mempool) + 1 \/ j = Len(mempool) + 1
      BY <1>1, <2>1, <2>2, <2>5, <3>2
    <3> QED
      BY <2>1, <3>1, <3>2
  <2> QED
    BY <2>1, <2>3, <2>4, <2>5 DEF MempoolShape
<1> QED
  BY <1>1, <1>3, <1>4, <1>6, <1>7 DEF tx

-----------------------------------------------------------------------------
(* Step by step.                                                           *)

\* A program that dies leaves everything as it was.
LEMMA DiesKeeps ==
    ASSUME SetupInv, Dies, script.at = "sending" \/ In("deploy", "next") \/ In("gas", "next"),
           UNCHANGED <<owner, map, gas, usdc, deployer, mempool, stops, deploys, orphans>>
    PROVE  SetupInv'
<1>1. ScriptShape /\ MempoolShape /\ Waited = {} /\ Owners /\ script.cli \in {"deploy", "gas", "register"}
  BY TheWaited DEF SetupInv, ScriptShape, In
<1>2. /\ script'.cli = script.cli /\ script'.i = script.i /\ script'.at = "stopped"
      /\ script' \in [cli : Clis, i : Nat \ {0},
                      at : {"next", "sending", "waiting", "stopped"}, n : Nat]
  BY <1>1, GoesTo DEF Dies
<1>3. ScriptShape'
  BY <1>1, <1>2 DEF ScriptShape
<1>4. MempoolShape' /\ Waited' = {} /\ \A r : ~Awaits(r)'
  BY <1>1, MempoolStays
<1>5. \A r : /\ Held(r)' = Held(r) /\ Sent(r)' = Sent(r) /\ AgentsOf(r)' = AgentsOf(r)
             /\ Got(r)' = Got(r)
  BY SameTxs, SameOwners DEF Got
<1>6. Money' /\ Owners'
  BY <1>5 DEF SetupInv, Money, Owners
<1>7. \A r, id : OwnOrTaken(r, id) => OwnOrTaken(r, id)'
  BY <1>1, TakenStays DEF Owners
<1>8. GasGiven'
  BY <1>2, <1>5 DEF SetupInv, GasGiven, In
<1>9. Entered' /\ Simulated' /\ UsdcGiven'
  BY <1>2, <1>5, <1>7 DEF SetupInv, Entered, Simulated, UsdcGiven, In
<1>10. \A r \in Roles : ~Awaits(r)
  BY <1>1 DEF Awaits
<1>11. Orphans'
  BY <1>2, <1>4, <1>10, OrphansStay
<1> QED
  BY <1>3, <1>4, <1>6, <1>8, <1>9, <1>11 DEF SetupInv

\* A fresh deployment empties the map and the balances of USDC only.
LEMMA DeploysKeeps ==
    ASSUME SetupInv, Deploys
    PROVE  SetupInv'
<1>0. /\ script.cli = "deploy" /\ script.at = "next"
      /\ UNCHANGED <<owner, gas, deployer, mempool, stops, deploys, orphans>>
      /\ IF deployer = 0 THEN Dies /\ UNCHANGED <<map, usdc>>
         ELSE map' = [r \in Roles |-> 0] /\ usdc' = [r \in Funded |-> 0] /\ script' = Begin("gas")
  BY DEF Deploys, In, setupBounds, NextCli
<1> SUFFICES ASSUME ~(deployer = 0) PROVE SetupInv'
  BY <1>0, DiesKeeps DEF In
<1>1. /\ script.cli = "deploy" /\ script.at = "next"
      /\ map' = [r \in Roles |-> 0] /\ usdc' = [r \in Funded |-> 0] /\ script' = Begin("gas")
      /\ UNCHANGED <<owner, gas, deployer, mempool, stops, deploys, orphans>>
  BY <1>0
<1>2. ScriptShape /\ MempoolShape /\ Waited = {}
  BY <1>1, TheWaited DEF SetupInv
<1>3. /\ script'.cli = "gas" /\ script'.i = 1 /\ script'.at = "next"
      /\ script' \in [cli : Clis, i : Nat \ {0},
                      at : {"next", "sending", "waiting", "stopped"}, n : Nat]
  BY <1>1, BeginsAt DEF Clis
<1>4. ScriptShape'
  <2>1. Len(Loop["gas"]) >= 1
    BY Wallets DEF Loop
  <2> QED
    BY <1>3, <2>1 DEF ScriptShape
<1>5. MempoolShape' /\ Waited' = {} /\ \A r : ~Awaits(r)'
  BY <1>1, <1>2, MempoolStays
<1>6. \A r : Held(r)' = Held(r) /\ Sent(r)' = Sent(r)
  BY <1>1, SameTxs, SameOwners
<1>7. Money'
  BY <1>1, <1>6 DEF SetupInv, Money
<1>8. GasGiven'
  BY <1>3 DEF GasGiven, In
<1>9. Owners' /\ Entered' /\ Simulated' /\ UsdcGiven'
  BY <1>1, <1>3 DEF SetupInv, Owners, Entered, Simulated, UsdcGiven, In
<1>10. Orphans'
  <2>1. \A r \in Roles : ~Awaits(r)
    BY <1>2 DEF Awaits
  <2>2. \A r \in Roles : map'[r] = 0
    BY <1>1
  <2> QED
    BY <1>1, <1>3, <1>5, <2>1, <2>2, OrphansStay
<1> QED
  BY <1>4, <1>5, <1>7, <1>8, <1>9, <1>10 DEF SetupInv

\* A wallet has its target, and it is the next one's turn.
LEMMA GasProceeds ==
    ASSUME SetupInv, script.cli = "gas", Waited = {}, Proceeds, Got(Role) >= GasTarget(Role),
           UNCHANGED <<owner, map, gas, usdc, deployer, mempool, stops, deploys, orphans>>
    PROVE  SetupInv'
<1>1. ScriptShape /\ MempoolShape /\ Owners
  BY DEF SetupInv
<1>2. /\ Role = NEEDS_GAS[script.i] /\ script.i \in 1..Len(NEEDS_GAS)
      /\ Loop[script.cli] = NEEDS_GAS /\ Len(NEEDS_GAS) \in Nat
  BY <1>1, TheRole, Wallets
<1>3. MempoolShape' /\ Waited' = {} /\ (\A r : ~Awaits(r)') /\ \A r : ~Awaits(r)
  BY <1>1, MempoolStays DEF Awaits
<1>4. \A r : /\ Held(r)' = Held(r) /\ Sent(r)' = Sent(r) /\ AgentsOf(r)' = AgentsOf(r)
             /\ Got(r)' = Got(r)
  BY SameTxs, SameOwners DEF Got
<1>5. Money' /\ Owners'
  BY <1>4 DEF SetupInv, Money, Owners
<1>6. \A r, id : OwnOrTaken(r, id) => OwnOrTaken(r, id)'
  BY <1>1, TakenStays DEF Owners
<1>7. /\ ScriptShape' /\ script'.at = "next"
      /\ \/ script'.cli = "gas" /\ script'.i = script.i + 1
         \/ script.i = Len(NEEDS_GAS) /\ script'.cli = "usdc" /\ script'.i = 1
  BY <1>1, <1>2, ProceedsTo
<1>8. \A k \in 1..script.i : Got(NEEDS_GAS[k]) >= GasTarget(NEEDS_GAS[k])
  <2>1. \A k \in 1..(script.i - 1) : Got(NEEDS_GAS[k]) >= GasTarget(NEEDS_GAS[k])
    BY DEF SetupInv, GasGiven
  <2> QED
    BY <1>2, <2>1
<1>9. GasGiven'
  <2>1. CASE script'.cli = "gas" /\ script'.i = script.i + 1
    BY <1>2, <1>4, <1>7, <1>8, <2>1 DEF GasGiven, In
  <2>2. CASE script.i = Len(NEEDS_GAS) /\ script'.cli = "usdc" /\ script'.i = 1
    <3>1. \A r \in Funded : Got(r) >= GasTarget(r)
      BY <1>8, <2>2, Wallets
    <3> QED
      BY <1>4, <1>7, <2>2, <3>1 DEF GasGiven, In
  <2> QED
    BY <1>7, <2>1, <2>2
<1>10. Entered' /\ Simulated' /\ UsdcGiven'
  BY <1>4, <1>6, <1>7 DEF SetupInv, Entered, Simulated, UsdcGiven, In
<1>11. Orphans'
  BY <1>3, <1>7, OrphansStay
<1> QED
  BY <1>3, <1>5, <1>7, <1>9, <1>10, <1>11 DEF SetupInv

\* A wallet is passed over only if it has its target.
LEMMA LooksAtGasKeeps ==
    ASSUME SetupInv, LooksAtGas
    PROVE  SetupInv'
<1>1. /\ script.cli = "gas" /\ script.at = "next"
      /\ UNCHANGED <<owner, map, gas, usdc, deployer, mempool, stops, deploys, orphans>>
      /\ \/ Dies
         \/ IF gas[Role] >= GasTarget(Role) THEN Proceeds ELSE Goes("sending", GasTarget(Role) - gas[Role])
  BY DEF LooksAtGas, In, setupBounds, wallets
<1>2. ScriptShape /\ MempoolShape /\ Waited = {} /\ Owners
  BY <1>1, TheWaited DEF SetupInv
<1>3. /\ Role = NEEDS_GAS[script.i] /\ Role \in Funded /\ script.i \in 1..Len(NEEDS_GAS)
      /\ Loop[script.cli] = NEEDS_GAS /\ Len(NEEDS_GAS) \in Nat
      /\ GasTarget(Role) \in Nat /\ gas[Role] \in Nat
  BY <1>1, <1>2, TheRole, Wallets DEF SetupInv, Money
<1>4. MempoolShape' /\ Waited' = {} /\ \A r : ~Awaits(r)'
  BY <1>1, <1>2, MempoolStays
<1>5. \A r : /\ Held(r)' = Held(r) /\ Sent(r)' = Sent(r) /\ AgentsOf(r)' = AgentsOf(r)
             /\ Got(r)' = Got(r)
  BY <1>1, SameTxs, SameOwners DEF Got
<1>6. Money'
  BY <1>1, <1>5 DEF SetupInv, Money
<1>7. Owners'
  BY <1>1 DEF SetupInv, Owners
<1>8. \A r \in Roles : ~Awaits(r)
  BY <1>2 DEF Awaits
<1>9. \A r, id : OwnOrTaken(r, id) => OwnOrTaken(r, id)'
  BY <1>1, <1>2, TakenStays DEF Owners
<1>10. \A k \in 1..(script.i - 1) : Got(NEEDS_GAS[k]) >= GasTarget(NEEDS_GAS[k])
  BY <1>1 DEF SetupInv, GasGiven
<1>11. Got(Role) \in Nat /\ Got(Role) >= gas[Role]
  BY <1>2, <1>3, Counts DEF Got
<1>12. CASE Dies \/ gas[Role] >= GasTarget(Role)
  BY <1>1, <1>2, <1>3, <1>11, <1>12, GasProceeds, DiesKeeps DEF In
<1>13. CASE ~Dies /\ ~(gas[Role] >= GasTarget(Role))
  <2>1. GasTarget(Role) - gas[Role] \in Nat
    BY <1>3, <1>13
  <2>2. /\ script'.cli = "gas" /\ script'.i = script.i /\ script'.at = "sending" /\ Role' = Role
        /\ script'.n = GasTarget(Role) - gas[Role]
        /\ script' \in [cli : Clis, i : Nat \ {0},
                        at : {"next", "sending", "waiting", "stopped"}, n : Nat]
    BY <1>1, <1>2, <1>13, <2>1, GoesTo
  <2>3. ScriptShape'
    BY <1>2, <2>2, <1>1 DEF ScriptShape
  <2>4. GasGiven'
    <3>1. Got(Role)' = Got(Role) /\ Got(Role)' + script'.n >= GasTarget(Role)
      BY <1>1, <1>3, <1>5, <1>11, <2>2 DEF Got
    <3>2. \A k \in 1..(script'.i - 1) : Got(NEEDS_GAS[k])' >= GasTarget(NEEDS_GAS[k])
      BY <1>5, <1>10, <2>2
    <3> QED
      BY <2>2, <3>1, <3>2 DEF GasGiven, In
  <2>5. Entered' /\ Simulated' /\ UsdcGiven'
    BY <1>1, <1>5, <1>9, <2>2 DEF SetupInv, Entered, Simulated, UsdcGiven, In
  <2>6. Orphans'
    BY <1>1, <1>4, <1>8, <2>2, OrphansStay
  <2> QED
    BY <1>4, <1>6, <1>7, <2>3, <2>4, <2>5, <2>6 DEF SetupInv
<1> QED
  BY <1>12, <1>13

\* The transfer makes up for what is missing, or the program dies.
LEMMA TopsUpKeeps ==
    ASSUME SetupInv, TopsUp
    PROVE  SetupInv'
<1>1. /\ script.cli = "gas" /\ script.at = "sending"
      /\ UNCHANGED <<owner, map, gas, usdc, stops, deploys, orphans>>
  BY DEF TopsUp, In, setupBounds
<1>2. ScriptShape /\ MempoolShape /\ Waited = {} /\ Owners /\ script.n \in Nat
  BY <1>1, TheWaited DEF SetupInv, ScriptShape
<1>3. CASE deployer >= script.n
  <2>1. Sends(Tx("gas", Role, script.n)) /\ deployer' = deployer - script.n /\ OpOf["gas"] = "gas"
    BY <1>3 DEF TopsUp, OpOf
  <2>2. /\ ScriptShape' /\ MempoolShape'
        /\ script'.cli = "gas" /\ script'.i = script.i /\ script'.at = "waiting"
        /\ script'.n = script.n /\ Role' = Role
        /\ Waited' # {}
        /\ \A r : Pending(r)' = Pending(r)
        /\ \A r : Sent(r)' = Sent(r)
    BY <1>1, <1>2, <2>1, SendsIt
  <2>3. \A r : Held(r)' = Held(r) /\ AgentsOf(r)' = AgentsOf(r) /\ Got(r)' = Got(r)
    BY <1>1, SameOwners DEF Got
  <2>4. Money' /\ Owners'
    BY <1>1, <1>2, <1>3, <2>1, <2>2 DEF SetupInv, Money, Owners
  <2>5. GasGiven'
    <3>1. Got(Role)' = Got(Role) /\ Got(Role) + script.n >= GasTarget(Role)
      BY <1>1, <2>2, <2>3 DEF SetupInv, GasGiven, In, Got
    <3>2. \A k \in 1..(script.i - 1) : Got(NEEDS_GAS[k]) >= GasTarget(NEEDS_GAS[k])
      BY <1>1 DEF SetupInv, GasGiven
    <3> QED
      BY <2>2, <2>3, <3>1, <3>2 DEF GasGiven, In
  <2>6. \A r, id : OwnOrTaken(r, id) => OwnOrTaken(r, id)'
    BY <1>1, <1>2, TakenStays DEF Owners
  <2>7. Entered' /\ Simulated' /\ UsdcGiven'
    BY <1>1, <2>2, <2>3, <2>6 DEF SetupInv, Entered, Simulated, UsdcGiven, In
  <2>8. (\A r \in Roles : ~Awaits(r)) /\ (\A r \in Roles : ~Awaits(r)')
    BY <1>2, <2>2 DEF Awaits, In
  <2>9. Orphans'
    BY <1>1, <2>2, <2>3, <2>8, Wallets DEF SetupInv, Orphans, In
  <2> QED
    BY <2>2, <2>4, <2>5, <2>7, <2>9 DEF SetupInv
<1>4. CASE ~(deployer >= script.n)
  <2>1. Dies /\ UNCHANGED <<mempool, deployer>>
    BY <1>4 DEF TopsUp
  <2> QED
    BY <1>1, <2>1, DiesKeeps
<1> QED
  BY <1>3, <1>4

\* A mint is passed over only by a mishap.
LEMMA MintsUsdcKeeps ==
    ASSUME SetupInv, MintsUsdc
    PROVE  SetupInv'
<1>1. /\ script.cli = "usdc"
      /\ UNCHANGED <<owner, map, gas, usdc, deployer, deploys, orphans>>
      /\ \/ script.at = "next" /\ Sends(Tx("mint", Role, USDC_EACH)) /\ UNCHANGED stops
         \/ stops' = stops + 1 /\ Proceeds /\ UNCHANGED mempool
  BY DEF MintsUsdc, In, wallets
<1>2. ScriptShape /\ MempoolShape /\ Owners
  BY DEF SetupInv
<1>3. \A r : Held(r)' = Held(r) /\ AgentsOf(r)' = AgentsOf(r) /\ Got(r)' = Got(r)
  BY <1>1, SameOwners DEF Got
<1>4. \A r, id : OwnOrTaken(r, id) => OwnOrTaken(r, id)'
  BY <1>1, <1>2, TakenStays DEF Owners
<1>5. Owners'
  BY <1>1 DEF SetupInv, Owners
<1>6. \A r \in Funded : Got(r)' >= GasTarget(r)
  BY <1>1, <1>3 DEF SetupInv, GasGiven
<1>7. \A r \in Roles : ~Awaits(r)
  BY <1>1 DEF Awaits, In
<1>8. CASE script.at = "next" /\ Sends(Tx("mint", Role, USDC_EACH)) /\ UNCHANGED stops
  <2>0. Waited = {}
    BY <1>2, <1>8, TheWaited
  <2>1. OpOf["usdc"] = "mint" /\ USDC_EACH \in Nat
    BY Wallets DEF OpOf
  <2>2. /\ ScriptShape' /\ MempoolShape'
        /\ script'.cli = "usdc" /\ script'.i = script.i /\ script'.at = "waiting"
        /\ script'.n = script.n /\ Role' = Role
        /\ Waited' # {}
        /\ \A r : Pending(r)' = Pending(r)
        /\ \A r : Sent(r)' = Sent(r)
    BY <1>1, <1>2, <1>8, <2>0, <2>1, SendsIt
  <2>3. Money'
    BY <1>1, <2>2 DEF SetupInv, Money
  <2>4. GasGiven'
    BY <1>6, <2>2 DEF GasGiven, In
  <2>5. Entered' /\ Simulated' /\ UsdcGiven'
    BY <1>1, <1>3, <1>4, <1>8, <2>2 DEF SetupInv, Entered, Simulated, UsdcGiven, In
  <2>6. \A r \in Roles : ~Awaits(r)'
    BY <2>2 DEF Awaits, In
  <2>7. Orphans'
    BY <1>1, <1>3, <1>7, <2>2, <2>6, Wallets DEF SetupInv, Orphans, In
  <2> QED
    BY <1>5, <2>2, <2>3, <2>4, <2>5, <2>7 DEF SetupInv
<1>9. CASE stops' = stops + 1 /\ Proceeds /\ UNCHANGED mempool
  <2>1. /\ ScriptShape' /\ script'.at = "next"
        /\ \/ script'.cli = "usdc" /\ script'.i = script.i + 1
           \/ script'.cli = "register" /\ script'.i = 1
    BY <1>1, <1>2, <1>9, ProceedsTo
  <2>2. /\ Waited' = {}
        /\ \A i \in DOMAIN mempool : /\ mempool[i].run # <<deploys', stops'>>
                                     /\ mempool[i].run[1] <= deploys' /\ mempool[i].run[2] <= stops'
    BY <1>1, <1>2, <1>9, NewRun
  <2>3. MempoolShape' /\ stops' # 0
    BY <1>1, <1>2, <1>9, <2>2 DEF MempoolShape
  <2>4. \A r : Pending(r)' = Pending(r) /\ Sent(r)' = Sent(r)
    BY <1>9, SameTxs
  <2>5. Money'
    BY <1>1, <2>4 DEF SetupInv, Money
  <2>6. GasGiven'
    BY <1>6, <2>1 DEF GasGiven, In
  <2>7. Entered' /\ Simulated' /\ UsdcGiven'
    BY <1>1, <1>3, <1>4, <2>1, <2>3 DEF SetupInv, Entered, Simulated, UsdcGiven, In
  <2>8. \A r \in Roles : ~Awaits(r)'
    BY <2>1 DEF Awaits, In
  <2>9. Orphans'
    BY <1>1, <1>7, <1>9, <2>1, <2>8, OrphansStay
  <2> QED
    BY <1>5, <2>1, <2>3, <2>5, <2>6, <2>7, <2>9 DEF SetupInv
<1> QED
  BY <1>1, <1>8, <1>9

\* What the search for an agent finds: one of this wallet's, and all of them as
\* long as what was registered since is no longer than the scan.
LEMMA Recovered ==
    ASSUME Owners, NEW r
    PROVE  /\ RecoverAgentId(r) # {} => Max(RecoverAgentId(r)) \in AgentsOf(r)
           /\ r # "other" /\ Len(owner) <= TAKEN + SCAN => RecoverAgentId(r) = AgentsOf(r)
<1>1. Len(owner) \in Nat /\ DOMAIN owner = 1..Len(owner) /\ SCAN \in Nat /\ TAKEN \in Nat
  BY Wallets DEF Owners
<1>2. RecoverAgentId(r) \subseteq AgentsOf(r) /\ AgentsOf(r) \subseteq 1..Len(owner)
  BY <1>1 DEF RecoverAgentId, AgentsOf
<1>3. ASSUME RecoverAgentId(r) # {} PROVE Max(RecoverAgentId(r)) \in AgentsOf(r)
  <2>1. \E m \in RecoverAgentId(r) : \A x \in RecoverAgentId(r) : x <= m
    BY <1>1, <1>2, <1>3, LastOfSome
  <2>2. \E m \in RecoverAgentId(r) : \A x \in RecoverAgentId(r) : m >= x
    BY <1>2, <2>1
  <2>3. Max(RecoverAgentId(r)) \in RecoverAgentId(r)
    BY <2>2 DEF Max
  <2> QED
    BY <1>2, <2>3
<1>4. ASSUME Len(owner) <= TAKEN + SCAN, r # "other" PROVE RecoverAgentId(r) = AgentsOf(r)
  <2> DEFINE top == Len(owner) + 1
             lowest == IF top - SCAN > 1 THEN top - SCAN ELSE 1
  <2>1. lowest <= TAKEN + 1 /\ lowest \in Int /\ top - 1 = Len(owner)
    BY <1>1, <1>4
  <2>2. RecoverAgentId(r) = AgentsOf(r) \cap (lowest..(top - 1))
    BY DEF RecoverAgentId
  <2> HIDE DEF top, lowest
  <2>3. AgentsOf(r) \subseteq (TAKEN + 1)..Len(owner)
    BY <1>1, <1>2, <1>4 DEF Owners, AgentsOf
  <2> QED
    BY <1>1, <2>1, <2>2, <2>3
<1> QED
  BY <1>3, <1>4

\* Whose the ids of the new map are, one id at a time.
LEMMA EnteredNext ==
    ASSUME map' \in [Roles -> Nat],
           \A r \in Roles : \A id \in Nat : id = map'[r] /\ id > 0 =>
               id \in DOMAIN owner' /\ AgentsOf(r)' # {} /\ OwnOrTaken(r, id)'
    PROVE  \A r \in Roles : map'[r] > 0 =>
               (map[r] \in DOMAIN owner /\ AgentsOf(r) # {} /\ OwnOrTaken(r, map[r]))'
<1>1. ASSUME NEW r \in Roles, NEW id \in Nat, id = map'[r], OwnOrTaken(r, id)'
      PROVE  OwnOrTaken(r, map[r])'
  BY <1>1 DEF OwnOrTaken, TakenFrom
<1> QED
  BY <1>1

\* While nothing is waited for, what is pending is an orphan.
LEMMA Unawaited ==
    ASSUME SetupInv, Waited = {}
    PROVE  /\ \A r : ~Awaits(r)
           /\ \A r \in Roles : /\ orphans[r] \in Nat /\ Held(r) \in Nat /\ Sent(r) \in Nat
                               /\ Pending(r) # {} => orphans[r] > 0
           /\ Len(owner) <= TAKEN + SCAN =>
                 /\ \A r \in Roles : /\ Held(r) + Sent(r) <= 1 + orphans[r]
                                     /\ Pending(r) # {} => Held(r) + Sent(r) <= orphans[r]
                 /\ \A k, l \in DOMAIN FLEET : k < l /\ Pending(FLEET[l]) # {} => AgentsOf(FLEET[k]) # {}
<1>1. (\A r : ~Awaits(r)) /\ orphans \in [Roles -> Nat]
  BY DEF Awaits, SetupInv, Owners
<1>2. \A r \in Roles : Held(r) \in Nat /\ Sent(r) \in Nat /\ orphans[r] \in Nat
  BY <1>1, Counts DEF SetupInv
<1>3. \A r \in Roles : orphans[r] + (IF Awaits(r) THEN 1 ELSE 0) = orphans[r]
  BY <1>1, <1>2
<1>4. \A r \in Roles : Pending(r) # {} => orphans[r] > 0
  BY <1>1 DEF SetupInv, Orphans
<1>5. Len(owner) <= TAKEN + SCAN =>
         /\ \A r \in Roles : /\ Held(r) + Sent(r) <= 1 + orphans[r]
                             /\ Pending(r) # {} => Held(r) + Sent(r) <= orphans[r]
         /\ \A k, l \in DOMAIN FLEET : k < l /\ Pending(FLEET[l]) # {} => AgentsOf(FLEET[k]) # {}
  <2>1. Orphans
    BY DEF SetupInv
  <2> QED
    BY <1>3, <2>1 DEF Orphans
<1> QED
  BY <1>1, <1>2, <1>4, <1>5

\* An agent is entered, or was, and it is the next one's turn.
LEMMA EntersAgent ==
    ASSUME SetupInv, script.cli = "register", Waited = {}, Proceeds,
           UNCHANGED <<owner, gas, usdc, deployer, mempool, stops, deploys, orphans>>,
           map' \in [Roles -> Nat], \A r \in Roles : r # Role => map'[r] = map[r],
           NEW id \in Nat \ {0}, id = map'[Role],
           \/ id = map[Role]
           \/ /\ id \in DOMAIN owner /\ AgentsOf(Role) # {} /\ OwnOrTaken(Role, id)
              /\ Len(owner) <= TAKEN + SCAN /\ Pending(Role) # {} => orphans[Role] > 1
    PROVE  SetupInv'
<1>2. ScriptShape /\ MempoolShape /\ Owners /\ orphans \in [Roles -> Nat] /\ map \in [Roles -> Nat]
  BY DEF SetupInv, Owners
<1>3. /\ Role = FLEET[script.i] /\ Role \in Roles /\ script.i \in 1..Len(FLEET)
      /\ Loop[script.cli] = FLEET /\ Len(FLEET) \in Nat
  BY <1>2, TheRole, Wallets
<1>4. MempoolShape' /\ Waited' = {} /\ (\A r : ~Awaits(r)') /\ \A r : ~Awaits(r)
  BY <1>2, MempoolStays DEF Awaits
<1>5. \A r : /\ Held(r)' = Held(r) /\ Sent(r)' = Sent(r) /\ AgentsOf(r)' = AgentsOf(r)
             /\ Pending(r)' = Pending(r) /\ Got(r)' = Got(r)
  BY SameTxs, SameOwners DEF Got
<1>6. Money' /\ Owners'
  BY <1>5 DEF SetupInv, Money, Owners
<1>7. \A r, n : OwnOrTaken(r, n) => OwnOrTaken(r, n)'
  BY <1>2, TakenStays
<1>8. \A r \in Funded : Got(r)' >= GasTarget(r)
  BY <1>5 DEF SetupInv, GasGiven
<1>9. /\ ScriptShape' /\ script'.at = "next"
      /\ \/ script'.cli = "register" /\ script'.i = script.i + 1
         \/ script.i = Len(FLEET) /\ script'.cli = "up" /\ script'.i = 1
  BY <1>2, <1>3, ProceedsTo
<1>10. GasGiven'
  BY <1>8, <1>9 DEF GasGiven, In
<1>11. ASSUME NEW r \in Roles, NEW n \in Nat, n = map'[r], n > 0
       PROVE  n \in DOMAIN owner' /\ AgentsOf(r)' # {} /\ OwnOrTaken(r, n)'
  <2>1. n \in DOMAIN owner /\ AgentsOf(r) # {} /\ OwnOrTaken(r, n)
    <3>1. CASE n = map[r]
      BY <1>11, <3>1 DEF SetupInv, Entered
    <3>2. CASE n # map[r]
      BY <1>11, <3>2
    <3> QED
      BY <3>1, <3>2
  <2> QED
    BY <1>5, <1>7, <2>1
<1>12. \A k \in 1..script.i : map'[FLEET[k]] > 0
  <2>1. ASSUME NEW k \in 1..script.i PROVE map'[FLEET[k]] > 0
    <3>1. CASE FLEET[k] = Role
      BY <3>1
    <3>2. CASE FLEET[k] # Role
      <4>1. k \in 1..(script.i - 1) /\ FLEET[k] \in Roles
        BY <1>3, <3>2, Wallets
      <4>2. map[FLEET[k]] > 0
        BY <4>1 DEF SetupInv, Entered
      <4> QED
        BY <3>2, <4>1, <4>2
    <3> QED
      BY <3>1, <3>2
  <2> QED
    BY <2>1
<1>13. Entered'
  <2>1. \A r \in Roles : map'[r] > 0 =>
           (map[r] \in DOMAIN owner /\ AgentsOf(r) # {} /\ OwnOrTaken(r, map[r]))'
    BY <1>11, EnteredNext
  <2>2. script'.cli = "up" => \A r \in Roles : map'[r] > 0
    BY <1>9, <1>12, Wallets
  <2>3. script'.cli = "register" => \A k \in 1..(script'.i - 1) : map'[FLEET[k]] > 0
    BY <1>3, <1>9, <1>12
  <2> QED
    BY <1>9, <2>1, <2>2, <2>3 DEF Entered
<1>14. Simulated' /\ UsdcGiven'
  BY <1>9 DEF SetupInv, Simulated, UsdcGiven, In
<1>15. Orphans'
  <2>1. /\ \A r \in Roles : orphans[r] \in Nat /\ Held(r) \in Nat /\ Sent(r) \in Nat
        /\ \A k \in DOMAIN FLEET : FLEET[k] \in Roles
    BY <1>2, Counts, Wallets
  <2>2. \A r \in Roles : Pending(r) # {} => orphans[r] > 0
    BY Unawaited
  <2>3. Len(owner) <= TAKEN + SCAN =>
           /\ \A r \in Roles : /\ Held(r) + Sent(r) <= 1 + orphans[r]
                               /\ Pending(r) # {} => Held(r) + Sent(r) <= orphans[r]
           /\ \A k, l \in DOMAIN FLEET : k < l /\ Pending(FLEET[l]) # {} => AgentsOf(FLEET[k]) # {}
    BY Unawaited
  <2>4. ASSUME Len(owner) <= TAKEN + SCAN, NEW r \in Roles, map'[r] > 0, Pending(r) # {}
        PROVE  orphans[r] > 1
    <3>1. CASE map'[r] = map[r]
      BY <2>4, <3>1 DEF SetupInv, Orphans
    <3>2. CASE r = Role /\ id # map[Role]
      BY <2>4, <3>2
    <3> QED
      BY <3>1, <3>2
  <2>5. ASSUME Len(owner) <= TAKEN + SCAN, NEW r \in Roles
        PROVE  /\ Held(r)' + Sent(r)' <= 1 + orphans'[r]
               /\ Pending(r)' # {} => Held(r)' + Sent(r)' <= orphans'[r] + (IF Awaits(r)' THEN 1 ELSE 0)
               /\ map'[r] > 0 /\ Pending(r)' # {} => orphans'[r] > 1
    BY <1>4, <1>5, <2>1, <2>3, <2>4, <2>5
  <2> QED
    BY <1>5, <1>9, <2>2, <2>3, <2>5, Wallets DEF Orphans, In
<1> QED
  BY <1>4, <1>6, <1>9, <1>10, <1>13, <1>14, <1>15 DEF SetupInv

\* A role is entered as found, or about to register with nothing in the scan.
LEMMA LooksForAgentKeeps ==
    ASSUME SetupInv, LooksForAgent
    PROVE  SetupInv'
<1>1. /\ script.cli = "register" /\ script.at = "next"
      /\ UNCHANGED <<owner, gas, usdc, deployer, mempool, stops, deploys, orphans>>
  BY DEF LooksForAgent, In, setupBounds, wallets
<1>2. ScriptShape /\ MempoolShape /\ Waited = {} /\ Owners
  BY <1>1, TheWaited DEF SetupInv
<1>3. /\ Role = FLEET[script.i] /\ Role \in Roles /\ script.i \in 1..Len(FLEET)
      /\ Loop[script.cli] = FLEET /\ Len(FLEET) \in Nat
  BY <1>1, <1>2, TheRole, Wallets
<1>4. MempoolShape' /\ Waited' = {} /\ (\A r : ~Awaits(r)') /\ \A r : ~Awaits(r)
  BY <1>1, <1>2, MempoolStays DEF Awaits
<1>5. \A r : /\ Held(r)' = Held(r) /\ Sent(r)' = Sent(r) /\ AgentsOf(r)' = AgentsOf(r)
             /\ Pending(r)' = Pending(r) /\ Got(r)' = Got(r)
  BY <1>1, SameTxs, SameOwners DEF Got
<1>6. Money'
  BY <1>1, <1>5 DEF SetupInv, Money
<1>7. \A r, id : OwnOrTaken(r, id) => OwnOrTaken(r, id)'
  BY <1>1, <1>2, TakenStays DEF Owners
<1>8. \A r \in Funded : Got(r)' >= GasTarget(r)
  BY <1>1, <1>5 DEF SetupInv, GasGiven
<1>9. \A r : Held(r) \in Nat /\ Sent(r) \in Nat /\ (Held(r) = 0 <=> AgentsOf(r) = {}) /\ (Sent(r) = 0 <=> Pending(r) = {})
  BY <1>2, Counts
<1>10. \A k \in 1..(script.i - 1) : map[FLEET[k]] > 0
  BY <1>1 DEF SetupInv, Entered
<1>11. /\ \A r \in Roles : Pending(r) # {} => orphans[r] > 0
       /\ orphans \in [Roles -> Nat] /\ map \in [Roles -> Nat]
  BY <1>4 DEF SetupInv, Orphans, Owners
<1>13. CASE map[Role] > 0 /\ Proceeds /\ UNCHANGED map
  <2>1. map[Role] \in Nat \ {0} /\ map[Role] = map'[Role]
    BY <1>3, <1>11, <1>13
  <2> QED
    BY <1>1, <1>2, <1>11, <1>13, <2>1, EntersAgent
<1>14. CASE /\ map[Role] = 0 /\ RecoverAgentId(Role) # {}
            /\ map' = [map EXCEPT ![Role] = Max(RecoverAgentId(Role))]
            /\ Proceeds
  <2> DEFINE id == Max(RecoverAgentId(Role))
  <2>1. id \in AgentsOf(Role)
    BY <1>2, <1>14, Recovered
  <2>2. id \in Nat \ {0} /\ id \in DOMAIN owner
    BY <1>2, <2>1, Counts
  <2>3. OwnOrTaken(Role, id)
    BY <2>1 DEF OwnOrTaken
  <2> HIDE DEF id
  <2>4. /\ map' = [map EXCEPT ![Role] = id] /\ map' \in [Roles -> Nat] /\ id = map'[Role]
        /\ \A r \in Roles : r # Role => map'[r] = map[r]
    BY <1>3, <1>11, <1>14, <2>2 DEF id
  <2>5. Len(owner) <= TAKEN + SCAN /\ Pending(Role) # {} => orphans[Role] > 1
    <3>1. orphans[Role] \in Nat
      BY <1>3, <1>11
    <3>2. Len(owner) <= TAKEN + SCAN /\ Pending(Role) # {} => Held(Role) + Sent(Role) <= orphans[Role]
      BY <1>3, <1>4, <1>9, <3>1 DEF SetupInv, Orphans
    <3>3. Pending(Role) # {} => Held(Role) >= 1 /\ Sent(Role) >= 1
      BY <1>9, <2>1
    <3> QED
      BY <1>9, <3>1, <3>2, <3>3
  <2> QED
    BY <1>1, <1>2, <1>14, <2>1, <2>2, <2>3, <2>4, <2>5, EntersAgent
<1>15. CASE map[Role] = 0 /\ RecoverAgentId(Role) = {} /\ Goes("sending", Len(owner) + 1) /\ UNCHANGED map
  <2>1. Len(owner) + 1 \in Nat
    BY <1>2, Counts
  <2>2. /\ script'.cli = "register" /\ script'.i = script.i /\ script'.at = "sending" /\ Role' = Role
        /\ script'.n = Len(owner) + 1
        /\ script' \in [cli : Clis, i : Nat \ {0},
                        at : {"next", "sending", "waiting", "stopped"}, n : Nat]
    BY <1>1, <1>2, <1>15, <2>1, GoesTo
  <2>3. ScriptShape' /\ Owners'
    BY <1>1, <1>2, <1>15, <2>2 DEF ScriptShape, Owners
  <2>4. GasGiven'
    BY <1>8, <2>2 DEF GasGiven, In
  <2>5. Entered'
    BY <1>1, <1>5, <1>7, <1>10, <1>15, <2>2 DEF SetupInv, Entered
  <2>6. Simulated' /\ UsdcGiven'
    BY <1>1, <2>2 DEF SetupInv, Simulated, UsdcGiven, In
  <2>7. Orphans'
    <3>1. Len(owner) <= TAKEN + SCAN => AgentsOf(Role) = {} /\ Held(Role) = 0
      BY <1>2, <1>3, <1>9, <1>15, Recovered, Wallets
    <3>2. Len(owner) <= TAKEN + SCAN =>
             /\ \A r \in Roles : /\ Held(r) + Sent(r) <= 1 + orphans[r]
                                 /\ Pending(r) # {} => Held(r) + Sent(r) <= orphans[r]
                                 /\ map[r] > 0 /\ Pending(r) # {} => orphans[r] > 1
             /\ \A k, l \in DOMAIN FLEET : k < l /\ Pending(FLEET[l]) # {} => AgentsOf(FLEET[k]) # {}
      BY <1>4, <1>9, <1>11 DEF SetupInv, Orphans
    <3>3. Len(owner) <= TAKEN + SCAN => Held(Role) + Sent(Role) <= orphans[Role]
      BY <1>3, <1>9, <1>11, <3>1, <3>2
    <3>4. Len(owner) <= TAKEN + SCAN => \A l \in DOMAIN FLEET : script.i < l => Pending(FLEET[l]) = {}
      BY <1>3, <3>1, <3>2, Wallets
    <3>5. \A r \in Roles : orphans[r] + 0 = orphans[r]
      BY <1>11
    <3>6. \A r \in Roles : Pending(r)' # {} => orphans'[r] > 0
      BY <1>1, <1>5, <1>11
    <3>7. ASSUME Len(owner') <= TAKEN + SCAN, NEW r \in Roles
          PROVE  /\ Held(r)' + Sent(r)' <= 1 + orphans'[r]
                 /\ Pending(r)' # {} => Held(r)' + Sent(r)' <= orphans'[r] + (IF Awaits(r)' THEN 1 ELSE 0)
                 /\ Role' = r => Held(r)' + Sent(r)' <= orphans'[r]
                 /\ map'[r] > 0 /\ Pending(r)' # {} => orphans'[r] > 1
      BY <1>1, <1>4, <1>5, <1>15, <2>2, <3>2, <3>3, <3>5, <3>7
    <3>8. ASSUME Len(owner') <= TAKEN + SCAN, NEW k \in DOMAIN FLEET, NEW l \in DOMAIN FLEET
          PROVE  /\ k < l /\ Pending(FLEET[l])' # {} => AgentsOf(FLEET[k])' # {}
                 /\ script'.i < l => Pending(FLEET[l])' = {}
      BY <1>1, <1>5, <2>2, <3>2, <3>4, <3>8
    <3> QED
      BY <1>1, <3>6, <3>7, <3>8 DEF Orphans
  <2> QED
    BY <1>4, <1>6, <2>3, <2>4, <2>5, <2>6, <2>7 DEF SetupInv
<1> QED
  BY <1>13, <1>14, <1>15 DEF LooksForAgent

\* The registration that is sent is covered by gas, and the only one of this run.
LEMMA RegistersKeeps ==
    ASSUME SetupInv, Registers
    PROVE  SetupInv'
<1>1. /\ script.cli = "register" /\ script.at = "sending"
      /\ UNCHANGED <<owner, map, gas, usdc, deployer, stops, deploys, orphans>>
  BY DEF Registers, In, setupBounds, wallets
<1>2. ScriptShape /\ MempoolShape /\ Waited = {} /\ Owners /\ script.n \in Nat
  BY <1>1, TheWaited DEF SetupInv, ScriptShape
<1>3. CASE gas[Role] > Cardinality(Pending(Role))
  <2>1. Sends(Tx("register", Role, script.n)) /\ OpOf["register"] = "register"
    BY <1>3 DEF Registers, OpOf
  <2>2. /\ ScriptShape' /\ MempoolShape'
        /\ script'.cli = "register" /\ script'.i = script.i /\ script'.at = "waiting"
        /\ script'.n = script.n /\ Role' = Role
        /\ Waited' # {}
        /\ \A r : Role # r => Pending(r)' = Pending(r)
        /\ \A r : Sent(r)' = IF Role = r THEN Sent(r) + 1 ELSE Sent(r)
    BY <1>1, <1>2, <2>1, SendsIt
  <2>3. /\ Role = FLEET[script.i] /\ Role \in Roles /\ script.i \in 1..Len(FLEET)
        /\ \A k \in 1..Len(FLEET) : FLEET[k] = Role => k = script.i
    BY <1>1, <1>2, TheRole, Wallets
  <2>4. \A r : Held(r)' = Held(r) /\ AgentsOf(r)' = AgentsOf(r) /\ Got(r)' = Got(r)
    BY <1>1, SameOwners DEF Got
  <2>5. \A r \in Roles : /\ gas[r] \in Nat /\ orphans[r] \in Nat /\ Held(r) \in Nat /\ Sent(r) \in Nat
    BY <1>1, <1>2, Unawaited, Wallets DEF SetupInv, Money
  <2>6. Money' /\ Owners'
    <3>1. \A r \in Roles : Sent(r)' <= gas'[r]
      BY <1>1, <1>3, <2>2, <2>5 DEF SetupInv, Money, Sent
    <3> QED
      BY <1>1, <3>1 DEF SetupInv, Money, Owners
  <2>7. \A r, id : OwnOrTaken(r, id) => OwnOrTaken(r, id)'
    BY <1>1, <1>2, TakenStays DEF Owners
  <2>8. GasGiven'
    BY <1>1, <2>2, <2>4 DEF SetupInv, GasGiven, In
  <2>9. Entered' /\ Simulated' /\ UsdcGiven'
    BY <1>1, <2>2, <2>4, <2>7 DEF SetupInv, Entered, Simulated, UsdcGiven, In
  <2>10. Orphans'
    <3>1. Awaits(Role)' /\ \A r : Awaits(r)' <=> Role = r
      BY <2>2 DEF Awaits, In
    <3>2. \A r \in Roles : Pending(r)' # {} => orphans'[r] > 0 \/ Awaits(r)'
      BY <1>1, <1>2, <2>2, <3>1, Unawaited
    <3>3. ASSUME Len(owner) <= TAKEN + SCAN
          PROVE  /\ Held(Role) + Sent(Role) <= orphans[Role] /\ map[Role] = 0
                 /\ \A r \in Roles : map[r] > 0 /\ Pending(r) # {} => orphans[r] > 1
                 /\ \A l \in DOMAIN FLEET : script.i < l => Pending(FLEET[l]) = {}
                 /\ \A k \in 1..(script.i - 1) : map[FLEET[k]] > 0 /\ FLEET[k] \in Roles
                 /\ \A r \in Roles : map[r] > 0 => AgentsOf(r) # {}
      BY <1>1, <2>3, <3>3, Wallets DEF SetupInv, Orphans, Entered, In
    <3>4. ASSUME Len(owner) <= TAKEN + SCAN, NEW r \in Roles
          PROVE  /\ Held(r)' + Sent(r)' <= 1 + orphans'[r]
                 /\ Pending(r)' # {} => Held(r)' + Sent(r)' <= orphans'[r] + (IF Awaits(r)' THEN 1 ELSE 0)
                 /\ map'[r] > 0 /\ Pending(r)' # {} => orphans'[r] > 1
      BY <1>1, <1>2, <2>2, <2>4, <2>5, <3>1, <3>3, <3>4, Unawaited
    <3>5. ASSUME Len(owner) <= TAKEN + SCAN, NEW k \in DOMAIN FLEET, NEW l \in DOMAIN FLEET, k < l,
                 Pending(FLEET[l])' # {}
          PROVE  AgentsOf(FLEET[k])' # {}
      <4>1. CASE FLEET[l] = Role
        <5>1. l = script.i /\ k \in 1..(script.i - 1)
          BY <2>3, <3>5, <4>1, Wallets
        <5>2. map[FLEET[k]] > 0 /\ FLEET[k] \in Roles
          BY <3>3, <3>5, <5>1
        <5> QED
          BY <2>4, <3>3, <3>5, <5>2
      <4>2. CASE FLEET[l] # Role
        BY <1>2, <2>2, <2>4, <3>5, <4>2, Unawaited
      <4> QED
        BY <4>1, <4>2
    <3>6. ASSUME Len(owner) <= TAKEN + SCAN, NEW l \in DOMAIN FLEET, script'.i < l
          PROVE  Pending(FLEET[l])' = {}
      BY <2>2, <2>3, <3>3, <3>6, Wallets
    <3> QED
      BY <1>1, <2>2, <3>2, <3>4, <3>5, <3>6 DEF Orphans, In
  <2> QED
    BY <2>2, <2>6, <2>8, <2>9, <2>10 DEF SetupInv
<1>4. CASE ~(gas[Role] > Cardinality(Pending(Role)))
  <2>1. Dies /\ UNCHANGED mempool
    BY <1>4 DEF Registers
  <2> QED
    BY <1>1, <2>1, DiesKeeps
<1> QED
  BY <1>3, <1>4

\* With the receipt the simulated id is the role's, or taken.
LEMMA HearsReceiptKeeps ==
    ASSUME SetupInv, HearsReceipt
    PROVE  SetupInv'
<1>1. /\ script.at = "waiting" /\ Waited = {} /\ Proceeds
      /\ UNCHANGED <<owner, gas, usdc, deployer, mempool, stops, deploys, orphans>>
      /\ map' = IF script.cli = "register" THEN [map EXCEPT ![Role] = script.n] ELSE map
  BY DEF HearsReceipt, setupBounds, wallets
<1>2. ScriptShape /\ MempoolShape /\ Owners /\ script.cli \in {"gas", "usdc", "register"} /\ script.n \in Nat
  BY <1>1 DEF SetupInv, ScriptShape
<1>3. CASE script.cli = "gas"
  <2>1. Got(Role) >= GasTarget(Role)
    BY <1>1, <1>3 DEF SetupInv, GasGiven, In
  <2> QED
    BY <1>1, <1>3, <2>1, GasProceeds
<1>4. CASE script.cli = "register"
  <2>1. /\ script.n \in DOMAIN owner /\ OwnOrTaken(Role, script.n)
        /\ AgentsOf(Role) # {} /\ Pending(Role) = {}
    BY <1>1, <1>4 DEF SetupInv, Simulated, In
  <2>2. script.n \in Nat \ {0} /\ Role \in Roles /\ map \in [Roles -> Nat]
    BY <1>2, <1>4, <2>1, Counts, TheRole DEF Owners
  <2>3. /\ map' \in [Roles -> Nat] /\ script.n = map'[Role]
        /\ \A r \in Roles : r # Role => map'[r] = map[r]
    BY <1>1, <1>4, <2>2
  <2> QED
    BY <1>1, <1>4, <2>1, <2>2, <2>3, EntersAgent
<1>5. CASE script.cli = "usdc"
  <2>1. /\ Role = NEEDS_USDC[script.i] /\ script.i \in 1..Len(NEEDS_USDC)
        /\ Loop[script.cli] = NEEDS_USDC /\ Len(NEEDS_USDC) \in Nat
    BY <1>2, <1>5, TheRole, Wallets
  <2>2. /\ ScriptShape' /\ script'.at = "next" /\ UNCHANGED map
        /\ \/ script'.cli = "usdc" /\ script'.i = script.i + 1
           \/ script.i = Len(NEEDS_USDC) /\ script'.cli = "register" /\ script'.i = 1
    BY <1>1, <1>2, <1>5, <2>1, ProceedsTo
  <2>3. MempoolShape' /\ Waited' = {} /\ (\A r : ~Awaits(r)') /\ \A r : ~Awaits(r)
    BY <1>1, <1>2, MempoolStays DEF Awaits
  <2>4. \A r : /\ Held(r)' = Held(r) /\ Sent(r)' = Sent(r) /\ AgentsOf(r)' = AgentsOf(r)
               /\ Got(r)' = Got(r)
    BY <1>1, SameTxs, SameOwners DEF Got
  <2>5. Money' /\ Owners'
    BY <1>1, <2>2, <2>4 DEF SetupInv, Money, Owners
  <2>6. \A r, id : OwnOrTaken(r, id) => OwnOrTaken(r, id)'
    BY <1>1, <1>2, TakenStays DEF Owners
  <2>7. GasGiven'
    <3>1. \A r \in Funded : Got(r)' >= GasTarget(r)
      BY <1>5, <2>4 DEF SetupInv, GasGiven
    <3> QED
      BY <2>2, <3>1 DEF GasGiven, In
  <2>8. UsdcGiven'
    <3>1. ASSUME stops = 0 PROVE \A k \in 1..script.i : usdc[NEEDS_USDC[k]] >= USDC_EACH
      <4>1. /\ \A k \in 1..(script.i - 1) : usdc[NEEDS_USDC[k]] >= USDC_EACH
            /\ usdc[Role] >= USDC_EACH
        BY <1>1, <1>5, <3>1 DEF SetupInv, UsdcGiven, In
      <4> QED
        BY <2>1, <4>1
    <3>2. ASSUME stops = 0, script'.cli = "register"
          PROVE  \A r \in ToSet(NEEDS_USDC) : usdc[r] >= USDC_EACH
      BY <2>2, <3>1, <3>2, Wallets
    <3>3. script'.cli = "usdc" => script'.i - 1 = script.i
      BY <2>1, <2>2
    <3> QED
      BY <1>1, <2>2, <3>1, <3>2, <3>3 DEF UsdcGiven, In
  <2>9. Entered' /\ Simulated'
    BY <1>1, <1>5, <2>2, <2>4, <2>6 DEF SetupInv, Entered, Simulated, In
  <2>10. Orphans'
    BY <1>1, <2>2, <2>3, OrphansStay
  <2> QED
    BY <2>2, <2>3, <2>5, <2>7, <2>8, <2>9, <2>10 DEF SetupInv
<1> QED
  BY <1>2, <1>3, <1>4, <1>5

\* What a stop leaves behind is the registration that was waited for, if any.
LEMMA NewOrphans ==
    ASSUME SetupInv, NEW r \in Roles
    PROVE  Cardinality({tx \in Waited : tx.op = "register" /\ tx.role = r}) =
               IF Awaits(r) THEN 1 ELSE 0
<1> DEFINE S == {tx \in Waited : tx.op = "register" /\ tx.role = r}
<1>1. ScriptShape /\ MempoolShape
  BY DEF SetupInv
<1>2. CASE Awaits(r)
  <2>1. Waited = {mempool[Len(mempool)]} /\ script.cli = "register" /\ Role = r
    BY <1>1, <1>2, TheWaited DEF Awaits, In
  <2>2. mempool[Len(mempool)].op = "register" /\ mempool[Len(mempool)].role = r
    BY <1>1, <2>1, TheWaited DEF OpOf
  <2>3. S = {mempool[Len(mempool)]}
    BY <2>1, <2>2
  <2> QED
    BY <1>2, <2>3, FS_Singleton
<1>3. CASE ~Awaits(r)
  <2>1. S = {}
    <3>1. ASSUME NEW tx \in Waited, tx.op = "register", tx.role = r PROVE FALSE
      <4>1. script.at = "waiting" /\ tx.op = OpOf[script.cli] /\ Role = r
        BY <1>1, <3>1, TheWaited
      <4>2. script.cli = "register"
        BY <1>1, <3>1, <4>1 DEF ScriptShape, OpOf
      <4> QED
        BY <1>3, <3>1, <4>1, <4>2 DEF Awaits, In
    <3> QED
      BY <3>1
  <2> QED
    BY <1>3, <2>1, FS_EmptySet
<1> QED
  BY <1>2, <1>3

\* A stop turns the registration that was waited for into an orphan.
LEMMA StopsKeeps ==
    ASSUME SetupInv, Stops
    PROVE  SetupInv'
<1>1. /\ script.at # "stopped" /\ script.cli # "up" /\ stops' = stops + 1 /\ Goes("stopped", 0)
      /\ UNCHANGED <<owner, map, gas, usdc, deployer, mempool, deploys>>
      /\ orphans' = [r \in Roles |-> orphans[r] +
                       Cardinality({tx \in Waited : tx.op = "register" /\ tx.role = r})]
  BY DEF Stops, Dies, wallets
<1>2. ScriptShape /\ MempoolShape /\ Owners /\ orphans \in [Roles -> Nat]
  BY DEF SetupInv, Owners
<1>3. /\ script'.cli = script.cli /\ script'.i = script.i /\ script'.at = "stopped"
      /\ script' \in [cli : Clis, i : Nat \ {0},
                      at : {"next", "sending", "waiting", "stopped"}, n : Nat]
  BY <1>1, <1>2, GoesTo
<1>4. ScriptShape'
  BY <1>1, <1>2, <1>3 DEF ScriptShape
<1>5. /\ Waited' = {}
      /\ \A i \in DOMAIN mempool : /\ mempool[i].run # <<deploys', stops'>>
                                   /\ mempool[i].run[1] <= deploys' /\ mempool[i].run[2] <= stops'
  BY <1>1, <1>2, NewRun
<1>6. MempoolShape' /\ stops' # 0
  BY <1>1, <1>2, <1>5 DEF MempoolShape
<1>7. \A r : /\ Held(r)' = Held(r) /\ Sent(r)' = Sent(r) /\ AgentsOf(r)' = AgentsOf(r)
             /\ Pending(r)' = Pending(r) /\ Got(r)' = Got(r)
  BY <1>1, SameTxs, SameOwners DEF Got
<1>8. \A r \in Roles : orphans'[r] = orphans[r] + (IF Awaits(r) THEN 1 ELSE 0)
  BY <1>1, NewOrphans
<1>9. orphans' \in [Roles -> Nat] /\ \A r \in Roles : orphans[r] <= orphans'[r]
  <2>1. \A r \in Roles : orphans[r] + (IF Awaits(r) THEN 1 ELSE 0) \in Nat
    BY <1>2
  <2>2. orphans' = [r \in Roles |-> orphans'[r]]
    BY <1>1
  <2> QED
    BY <1>2, <1>8, <2>1, <2>2
<1>10. Money' /\ Owners'
  BY <1>1, <1>7, <1>9 DEF SetupInv, Money, Owners
<1>11. \A r, id : OwnOrTaken(r, id) => OwnOrTaken(r, id)'
  BY <1>1, <1>2, <1>9, TakenStays
<1>12. GasGiven'
  BY <1>1, <1>3, <1>7 DEF SetupInv, GasGiven, In
<1>13. Entered' /\ Simulated' /\ UsdcGiven'
  BY <1>1, <1>3, <1>6, <1>7, <1>11 DEF SetupInv, Entered, Simulated, UsdcGiven, In
<1>14. Orphans'
  <2>1. \A r \in Roles : /\ orphans[r] \in Nat /\ orphans'[r] \in Nat
                         /\ Held(r) \in Nat /\ Sent(r) \in Nat
    BY <1>2, <1>9, Counts
  <2>2. \A r \in Roles : Pending(r) # {} => orphans'[r] > 0
    BY <1>8, <2>1 DEF SetupInv, Orphans
  <2>3. ASSUME Len(owner) <= TAKEN + SCAN, NEW r \in Roles
        PROVE  /\ Held(r) + Sent(r) <= 1 + orphans'[r]
               /\ Pending(r) # {} => Held(r) + Sent(r) <= orphans'[r]
               /\ map[r] > 0 /\ Pending(r) # {} => orphans'[r] > 1
    <3>1. /\ Held(r) + Sent(r) <= 1 + orphans[r]
          /\ Pending(r) # {} => Held(r) + Sent(r) <= orphans[r] + (IF Awaits(r) THEN 1 ELSE 0)
          /\ map[r] > 0 /\ Pending(r) # {} => orphans[r] > 1
      BY <2>3 DEF SetupInv, Orphans
    <3> QED
      BY <1>8, <1>9, <2>1, <3>1
  <2>4. \A r \in Roles : ~Awaits(r)' /\ orphans'[r] + 0 = orphans'[r]
    BY <1>5, <2>1 DEF Awaits
  <2>5. ASSUME Len(owner) <= TAKEN + SCAN, NEW k \in DOMAIN FLEET, NEW l \in DOMAIN FLEET,
               k < l, Pending(FLEET[l]) # {}
        PROVE  AgentsOf(FLEET[k]) # {}
    BY <2>5 DEF SetupInv, Orphans
  <2> QED
    BY <1>1, <1>3, <1>7, <2>2, <2>3, <2>4, <2>5, Wallets DEF Orphans, In
<1> QED
  BY <1>4, <1>6, <1>10, <1>12, <1>13, <1>14 DEF SetupInv

\* A rerun starts with what earlier runs have left.
LEMMA RerunsKeeps ==
    ASSUME SetupInv, Reruns
    PROVE  SetupInv'
<1>1. /\ script.at = "stopped"
      /\ deployer' = (IF deployer < Drip THEN deployer + Drip ELSE deployer) \/ deployer' = deployer
      /\ stops' \in {stops, stops + 1}
      /\ UNCHANGED <<owner, map, gas, usdc, mempool, orphans>>
      /\ \/ script' = Begin(Program) /\ UNCHANGED deploys
         \/ deploys' = deploys + 1 /\ script' = Begin("deploy")
  BY DEF Reruns
<1>2. ScriptShape /\ MempoolShape /\ Waited = {} /\ Owners /\ script.cli # "up" /\ script.cli \in Clis
  BY <1>1, TheWaited DEF SetupInv, ScriptShape
<1>3. /\ script'.cli \in {script.cli, "gas", "deploy"} /\ script'.i = 1 /\ script'.at = "next"
      /\ script'.cli # "usdc" /\ script'.cli = "register" => script.cli = "register"
      /\ script' \in [cli : Clis, i : Nat \ {0},
                      at : {"next", "sending", "waiting", "stopped"}, n : Nat]
  <2>1. Program \in Clis /\ Program \in {script.cli, "gas"} /\ Program # "usdc" /\ "deploy" \in Clis
    BY <1>2 DEF Program, Clis
  <2> QED
    BY <1>1, <2>1, BeginsAt
<1>4. ScriptShape'
  <2>1. Len(Loop["gas"]) >= 1 /\ Len(Loop["usdc"]) >= 1 /\ Len(Loop["register"]) >= 1
    BY Wallets DEF Loop
  <2> QED
    BY <1>2, <1>3, <2>1 DEF ScriptShape
<1>5. MempoolShape' /\ (\A r : ~Awaits(r)') /\ \A r : ~Awaits(r)
  <2>1. (\A r : ~Awaits(r)') /\ \A r : ~Awaits(r)
    BY <1>1, <1>3 DEF Awaits, In
  <2>2. CASE UNCHANGED <<deploys, stops>>
    BY <1>1, <1>2, <2>1, <2>2, MempoolStays
  <2>3. CASE deploys' # deploys \/ stops' # stops
    <3>1. \A i \in DOMAIN mempool : /\ mempool[i].run # <<deploys', stops'>>
                                    /\ mempool[i].run[1] <= deploys' /\ mempool[i].run[2] <= stops'
      BY <1>1, <1>2, <2>3, NewRun
    <3>2. stops' \in Nat /\ deploys' \in Nat
      BY <1>1, <1>2 DEF MempoolShape
    <3> QED
      BY <1>1, <1>2, <2>1, <2>3, <3>1, <3>2 DEF MempoolShape
  <2> QED
    BY <2>1, <2>2, <2>3
<1>6. \A r : /\ Held(r)' = Held(r) /\ Sent(r)' = Sent(r) /\ AgentsOf(r)' = AgentsOf(r)
             /\ Got(r)' = Got(r)
  BY <1>1, SameTxs, SameOwners DEF Got
<1>7. Money' /\ Owners'
  BY <1>1, <1>6, Wallets DEF SetupInv, Money, Owners
<1>8. \A r, id : OwnOrTaken(r, id) => OwnOrTaken(r, id)'
  BY <1>1, <1>2, TakenStays DEF Owners
<1>9. GasGiven'
  BY <1>1, <1>2, <1>3, <1>6 DEF SetupInv, GasGiven, In
<1>10. Entered' /\ Simulated' /\ UsdcGiven'
  <2>1. stops' = 0 => stops = 0
    BY <1>1, <1>2 DEF MempoolShape
  <2>2. Entered' /\ Simulated'
    BY <1>1, <1>2, <1>3, <1>6, <1>8 DEF SetupInv, Entered, Simulated, In
  <2> QED
    BY <1>1, <1>3, <2>1, <2>2 DEF SetupInv, UsdcGiven, In
<1>11. Orphans'
  BY <1>1, <1>3, <1>5, OrphansStay
<1> QED
  BY <1>4, <1>5, <1>7, <1>9, <1>10, <1>11 DEF SetupInv

\* A stranger may take the id that was simulated.
LEMMA RegistersForeignKeeps ==
    ASSUME SetupInv, RegistersForeign
    PROVE  SetupInv'
<1>1. /\ script.cli = "register" /\ owner' = Append(owner, "other")
      /\ UNCHANGED <<map, gas, usdc, deployer, script, mempool, stops, deploys, orphans>>
  BY DEF RegistersForeign, setupBounds, wallets
<1>2. ScriptShape /\ MempoolShape /\ Owners /\ Len(owner) \in Nat /\ DOMAIN owner = 1..Len(owner)
  BY Counts DEF SetupInv
<1>3. ScriptShape' /\ MempoolShape' /\ Waited' = Waited /\ Role' = Role /\ \A r : Awaits(r)' = Awaits(r)
  <2>1. Waited' = Waited /\ Role' = Role
    BY <1>1, SameTxs DEF Role
  <2> QED
    BY <1>1, <1>2, <2>1 DEF ScriptShape, MempoolShape, Awaits, In
<1>4. /\ owner' \in Seq(Roles \cup {"other"})
      /\ Len(owner') = Len(owner) + 1 /\ DOMAIN owner' = 1..(Len(owner) + 1)
      /\ \A r \in Roles : AgentsOf(r)' = AgentsOf(r) /\ Held(r)' = Held(r)
      /\ Len(owner) + 1 \in Foreign'
      /\ TAKEN <= Len(owner') /\ \A id \in 1..TAKEN : owner'[id] = "other"
  BY <1>1, <1>2, OwnerGrows, Wallets
<1>5. \A r : Got(r)' = Got(r) /\ Pending(r)' = Pending(r) /\ Sent(r)' = Sent(r)
  BY <1>1, <1>4, SameTxs DEF Got
<1>6. \A r, id : OwnOrTaken(r, id) => OwnOrTaken(r, id)'
  <2>1. \E x \in Roles \cup {"other"} : owner' = Append(owner, x)
    BY <1>1
  <2>2. orphans' \in [Roles -> Nat] /\ \A r \in Roles : orphans[r] <= orphans'[r]
    BY <1>1, <1>2 DEF Owners
  <2> QED
    BY <1>2, <2>1, <2>2, TakenStays
<1>7. Money' /\ Owners' /\ UsdcGiven'
  BY <1>1, <1>3, <1>4, <1>5 DEF SetupInv, Money, Owners, UsdcGiven, In
<1>8. GasGiven'
  BY <1>1, <1>3, <1>5 DEF SetupInv, GasGiven, In
<1>9. Entered'
  BY <1>1, <1>2, <1>3, <1>4, <1>6 DEF SetupInv, Entered
<1>10. Simulated'
  <2>1. Role \in Roles
    BY <1>1, <1>2, TheRole
  <2>2. script.n = Len(owner) + 1 => OwnOrTaken(Role, script.n)'
    BY <1>1, <1>4 DEF OwnOrTaken, TakenFrom
  <2> QED
    BY <1>1, <1>2, <1>3, <1>4, <1>5, <1>6, <2>1, <2>2 DEF SetupInv, Simulated, In
<1>11. Orphans'
  <2>1. Len(owner') <= TAKEN + SCAN => Len(owner) <= TAKEN + SCAN
    BY <1>2, <1>4, Wallets
  <2>2. \A r \in Roles : Pending(r)' # {} => orphans'[r] > 0 \/ Awaits(r)'
    BY <1>1, <1>3, <1>5 DEF SetupInv, Orphans
  <2>3. ASSUME Len(owner) <= TAKEN + SCAN, NEW r \in Roles
        PROVE  /\ Held(r)' + Sent(r)' <= 1 + orphans'[r]
               /\ Pending(r)' # {} => Held(r)' + Sent(r)' <= orphans'[r] + (IF Awaits(r)' THEN 1 ELSE 0)
               /\ In("register", "sending") /\ Role = r => Held(r)' + Sent(r)' <= orphans'[r]
               /\ map'[r] > 0 /\ Pending(r)' # {} => orphans'[r] > 1
    BY <1>1, <1>3, <1>4, <1>5, <2>3 DEF SetupInv, Orphans
  <2>4. ASSUME Len(owner) <= TAKEN + SCAN, NEW k \in DOMAIN FLEET, NEW l \in DOMAIN FLEET
        PROVE  /\ k < l /\ Pending(FLEET[l])' # {} => AgentsOf(FLEET[k])' # {}
               /\ script.at \in {"sending", "waiting"} /\ script.i < l => Pending(FLEET[l])' = {}
    <3>1. AgentsOf(FLEET[k])' = AgentsOf(FLEET[k]) /\ Pending(FLEET[l])' = Pending(FLEET[l])
      BY <1>4, <1>5, <2>4, Wallets
    <3>2. Orphans
      BY DEF SetupInv
    <3> QED
      BY <1>1, <2>4, <3>1, <3>2 DEF Orphans
  <2>5. In("register", "sending")' <=> In("register", "sending")
    BY <1>1 DEF In
  <2> QED
    BY <1>1, <1>3, <2>1, <2>2, <2>3, <2>4, <2>5 DEF Orphans
<1> QED
  BY <1>3, <1>7, <1>8, <1>9, <1>10, <1>11 DEF SetupInv

\* A transaction leaves the mempool; the others keep their order.
LEMMA MiningKeepsShape ==
    ASSUME ScriptShape, MempoolShape, NEW i \in DOMAIN mempool,
           mempool' = RemoveAt(mempool, i), UNCHANGED <<script, deploys, stops>>
    PROVE  ScriptShape' /\ MempoolShape' /\ Role' = Role
<1>1. /\ mempool' \in Seq(TxRecord) /\ Len(mempool') = Len(mempool) - 1
      /\ DOMAIN mempool' = 1..(Len(mempool) - 1)
      /\ \A k \in DOMAIN mempool' : mempool'[k] = mempool[IF k < i THEN k ELSE k + 1]
  BY Mining
<1>2. Len(mempool) \in Nat /\ DOMAIN mempool = 1..Len(mempool) /\ i \in 1..Len(mempool)
  BY Txs
<1>3. \A k \in DOMAIN mempool' : (IF k < i THEN k ELSE k + 1) \in DOMAIN mempool
  BY <1>1, <1>2
<1>4. Role' = Role /\ ScriptShape'
  BY DEF Role, ScriptShape
<1>5. ASSUME NEW k \in DOMAIN mempool'
      PROVE  LET tx == mempool'[k] IN
             /\ tx.run[1] <= deploys' /\ tx.run[2] <= stops'
             /\ tx.op = "register" => tx.role \in Roles
             /\ tx.run = <<deploys', stops'>> =>
                   /\ k = Len(mempool') /\ script'.at = "waiting"
                   /\ tx.op = OpOf[script'.cli] /\ tx.role = Role'
                   /\ tx.n = IF script'.cli = "usdc" THEN USDC_EACH ELSE script'.n
  <2>1. PICK j \in DOMAIN mempool : j = (IF k < i THEN k ELSE k + 1) /\ mempool'[k] = mempool[j]
    BY <1>1, <1>3
  <2>2. j = Len(mempool) => k = Len(mempool')
    BY <1>1, <1>2, <2>1
  <2> QED
    BY <1>4, <2>1, <2>2 DEF MempoolShape
<1>6. ASSUME NEW k \in DOMAIN mempool', NEW l \in DOMAIN mempool', mempool'[k].run = mempool'[l].run
      PROVE  k = l
  <2>1. (IF k < i THEN k ELSE k + 1) = (IF l < i THEN l ELSE l + 1)
    BY <1>1, <1>3, <1>6 DEF MempoolShape
  <2> QED
    BY <1>1, <1>2, <2>1
<1> QED
  BY <1>1, <1>4, <1>5, <1>6 DEF MempoolShape

\* What a mined transaction does to the money.
LEMMA MiningPays ==
    ASSUME SetupInv, NEW i \in DOMAIN mempool, SetupMines(i)
    PROVE  /\ Money'
           /\ \A r \in Funded : /\ Got(r) \in Nat /\ Got(r)' \in Nat /\ Got(r)' >= Got(r)
                               /\ usdc[r] \in Nat /\ usdc'[r] \in Nat /\ usdc'[r] >= usdc[r]
           /\ \A r : mempool[i].op = "gas" /\ mempool[i].role = r => Got(r)' = Got(r) + mempool[i].n
           /\ mempool[i].op = "mint" /\ mempool[i].run[1] = deploys =>
                 usdc'[mempool[i].role] = usdc[mempool[i].role] + mempool[i].n
<1> DEFINE tx == mempool[i]
<1>1. ScriptShape /\ MempoolShape /\ Owners /\ Money
  BY DEF SetupInv
<1>2. /\ tx.op \in {"gas", "mint", "register"} /\ tx.role \in Funded /\ tx.n \in Nat
      /\ tx.op = "register" => tx.role \in Roles
  BY <1>1, Txs DEF TxRecord
<1>3. /\ mempool' = RemoveAt(mempool, i) /\ UNCHANGED <<map, deployer, script, stops, deploys, orphans>>
      /\ gas' = CASE tx.op = "gas" -> [gas EXCEPT ![tx.role] = @ + tx.n]
                  [] tx.op = "register" -> [gas EXCEPT ![tx.role] = @ - 1]
                  [] OTHER -> gas
      /\ usdc' = IF tx.op = "mint" /\ tx.run[1] = deploys
                 THEN [usdc EXCEPT ![tx.role] = @ + tx.n] ELSE usdc
      /\ owner' = IF tx.op = "register" THEN Append(owner, tx.role) ELSE owner
  BY DEF SetupMines, setupBounds
<1>4. /\ \A r : Sent(r)' = IF tx \in Pending(r) THEN Sent(r) - 1 ELSE Sent(r)
      /\ \A r : tx \in Pending(r) => Sent(r) >= 1
      /\ \A r : tx \in Pending(r) <=> tx.op = "register" /\ tx.role = r
  BY <1>1, <1>3, Mining
<1>5. \A r \in Roles : Sent(r) \in Nat /\ Held(r) \in Nat /\ Sent(r) <= gas[r]
  BY <1>1, Counts DEF Money
<1> HIDE DEF tx
<1>6. CASE tx.op = "register"
  <2>1. /\ gas' = [gas EXCEPT ![tx.role] = @ - 1] /\ usdc' = usdc
        /\ owner' = Append(owner, tx.role) /\ tx.role \in Roles
    BY <1>2, <1>3, <1>6
  <2>2. \A r : Held(r)' = IF r = tx.role THEN Held(r) + 1 ELSE Held(r)
    BY <1>1, <2>1, OwnerGrows
  <2>3. gas[tx.role] \in Nat /\ gas[tx.role] >= 1
    BY <1>1, <1>2, <1>4, <1>5, <1>6, <2>1 DEF Money
  <2>4. /\ gas' \in [Funded -> Nat]
        /\ \A r \in Funded : gas'[r] = (IF r = tx.role THEN gas[r] - 1 ELSE gas[r]) /\ gas[r] \in Nat
    <3>1. gas[tx.role] - 1 \in Nat /\ gas \in [Funded -> Nat]
      BY <1>1, <2>3 DEF Money
    <3> QED
      BY <1>2, <2>1, <3>1
  <2>5. \A r \in Roles : Sent(r)' <= gas'[r]
    <3>1. ASSUME NEW r \in Roles PROVE Sent(r)' <= gas'[r]
      <4>1. /\ Sent(r)' = (IF r = tx.role THEN Sent(r) - 1 ELSE Sent(r)) /\ r \in Funded
            /\ Sent(r) \in Nat /\ Sent(r) <= gas[r]
        BY <1>4, <1>5, <1>6, Wallets
      <4>2. gas'[r] = (IF r = tx.role THEN gas[r] - 1 ELSE gas[r]) /\ gas[r] \in Nat
        BY <2>4, <4>1
      <4> QED
        BY <4>1, <4>2
    <3> QED
      BY <3>1
  <2>6. \A r \in Funded : Got(r)' = Got(r) /\ Got(r) \in Nat
    <3>1. ASSUME NEW r \in Funded PROVE Got(r)' = Got(r) /\ Got(r) \in Nat
      <4>1. CASE r \in Roles
        BY <1>5, <2>2, <2>4, <4>1 DEF Got
      <4>2. CASE r \notin Roles
        BY <2>1, <2>4, <4>2 DEF Got
      <4> QED
        BY <4>1, <4>2
    <3> QED
      BY <3>1
  <2> QED
    <3>1. Money'
      BY <1>1, <1>3, <2>1, <2>4, <2>5 DEF Money
    <3>2. \A r \in Funded : usdc'[r] >= usdc[r] /\ usdc[r] \in Nat /\ usdc'[r] \in Nat
      BY <1>1, <2>1 DEF Money
    <3> QED
      BY <1>6, <2>6, <3>1, <3>2 DEF tx
<1>7. CASE tx.op = "gas"
  <2>1. gas' = [gas EXCEPT ![tx.role] = @ + tx.n] /\ usdc' = usdc /\ owner' = owner
    BY <1>3, <1>7
  <2>2. \A r : Held(r)' = Held(r)
    BY <2>1, SameOwners
  <2>3. /\ gas' \in [Funded -> Nat]
        /\ \A r \in Funded : gas'[r] = (IF r = tx.role THEN gas[r] + tx.n ELSE gas[r]) /\ gas[r] \in Nat
    BY <1>1, <1>2, <2>1 DEF Money
  <2>4. \A r \in Roles : Sent(r)' <= gas'[r]
    <3>1. ASSUME NEW r \in Roles PROVE Sent(r)' <= gas'[r]
      <4>1. Sent(r)' = Sent(r) /\ r \in Funded
        BY <1>4, <1>7, Wallets
      <4>2. gas'[r] >= gas[r] /\ gas'[r] \in Nat /\ gas[r] \in Nat
        BY <1>2, <2>3, <4>1
      <4> QED
        BY <1>5, <4>1, <4>2
    <3> QED
      BY <3>1
  <2>5. \A r \in Funded : Got(r)' = (IF r = tx.role THEN Got(r) + tx.n ELSE Got(r)) /\ Got(r) \in Nat
    BY <1>2, <1>5, <2>2, <2>3 DEF Got
  <2> QED
    <3>1. Money'
      BY <1>1, <1>3, <2>1, <2>3, <2>4 DEF Money
    <3>2. \A r \in Funded : Got(r)' >= Got(r) /\ Got(r) \in Nat /\ Got(r)' \in Nat
      BY <1>2, <2>5
    <3>3. \A r \in Funded : usdc'[r] >= usdc[r] /\ usdc[r] \in Nat /\ usdc'[r] \in Nat
      BY <1>1, <2>1 DEF Money
    <3>4. \A r : tx.role = r => Got(r)' = Got(r) + tx.n
      BY <1>2, <2>5
    <3> QED
      BY <1>7, <3>1, <3>2, <3>3, <3>4 DEF tx
<1>8. CASE tx.op = "mint"
  <2>1. gas' = gas /\ owner' = owner
    BY <1>3, <1>8
  <2>2. \A r : Got(r)' = Got(r)
    BY <2>1, SameOwners DEF Got
  <2>3. \A r \in Funded : Got(r) \in Nat
    BY <1>1, <1>5 DEF Money, Got
  <2>4. \A r \in Roles : Sent(r)' <= gas'[r]
    BY <1>4, <1>5, <1>8, <2>1
  <2>5. /\ usdc' \in [Funded -> Nat]
        /\ \A r \in Funded : usdc'[r] >= usdc[r] /\ usdc[r] \in Nat /\ usdc'[r] \in Nat
    BY <1>1, <1>2, <1>3 DEF Money
  <2>6. tx.run[1] = deploys => usdc'[tx.role] = usdc[tx.role] + tx.n
    BY <1>1, <1>2, <1>3, <1>8 DEF Money
  <2> QED
    <3>1. Money'
      BY <1>1, <1>3, <2>1, <2>4, <2>5 DEF Money
    <3> QED
      BY <1>8, <2>2, <2>3, <2>5, <2>6, <3>1 DEF tx
<1> QED
  BY <1>2, <1>6, <1>7, <1>8

\* When a run's own registration is mined its wallet has none pending: they are
\* mined in the order in which they were sent.
LEMMA OwnIsLast ==
    ASSUME ScriptShape, MempoolShape, NEW i \in DOMAIN mempool, SetupMines(i),
           script.cli = "register", mempool[i] \in Waited
    PROVE  /\ Pending(Role) = {mempool[i]} /\ Waited = {mempool[i]}
           /\ mempool[i].op = "register" /\ mempool[i].role = Role
<1> DEFINE tx == mempool[i]
<1>1. i = Len(mempool) /\ Waited = {tx} /\ tx.op = "register" /\ tx.role = Role
  BY TheWaited DEF OpOf
<1>2. \A j \in 1..(i - 1) : Sender(mempool[j]) # Sender(tx)
  BY DEF SetupMines
<1>3. ASSUME NEW x \in Pending(Role) PROVE x = tx
  <2>1. x \in ToSet(mempool) /\ Sender(x) = Role /\ Sender(tx) = Role
    BY <1>1, <1>3 DEF Pending, Sender
  <2>2. PICK j \in DOMAIN mempool : mempool[j] = x
    BY <2>1, Txs
  <2>3. j \in 1..Len(mempool) /\ Len(mempool) \in Nat
    BY Txs
  <2>4. j \notin 1..(i - 1)
    BY <1>2, <2>1, <2>2
  <2> QED
    BY <1>1, <2>2, <2>3, <2>4
<1>4. tx \in Pending(Role)
  BY <1>1, Txs DEF Pending
<1> QED
  BY <1>1, <1>3, <1>4

\* A registration that is mined becomes an agent: the sum of both stays.
LEMMA SetupMinesKeeps ==
    ASSUME SetupInv, NEW i \in DOMAIN mempool, SetupMines(i)
    PROVE  SetupInv'
<1>1. PICK tx \in TxRecord : tx = mempool[i]
  BY Txs DEF SetupInv
<1>2. /\ mempool' = RemoveAt(mempool, i) /\ UNCHANGED <<map, deployer, script, stops, deploys, orphans>>
      /\ owner' = IF tx.op = "register" THEN Append(owner, tx.role) ELSE owner
  BY <1>1 DEF SetupMines, setupBounds
<1>3. /\ ScriptShape /\ MempoolShape /\ Owners /\ Len(owner) \in Nat /\ DOMAIN owner = 1..Len(owner)
      /\ orphans \in [Roles -> Nat]
  BY Counts DEF SetupInv, Owners
<1>4. /\ tx.op \in {"gas", "mint", "register"} /\ tx.role \in Funded /\ tx.n \in Nat
      /\ tx.op = "register" => tx.role \in Roles
  BY <1>1, <1>3, Txs DEF TxRecord, MempoolShape
<1>5. ScriptShape' /\ MempoolShape' /\ Role' = Role
  BY <1>2, <1>3, MiningKeepsShape
<1>6. /\ Money'
      /\ \A r \in Funded : /\ Got(r) \in Nat /\ Got(r)' \in Nat /\ Got(r)' >= Got(r)
                          /\ usdc[r] \in Nat /\ usdc'[r] \in Nat /\ usdc'[r] >= usdc[r]
      /\ \A r : tx.op = "gas" /\ tx.role = r => Got(r)' = Got(r) + tx.n
      /\ tx.op = "mint" /\ tx.run[1] = deploys => usdc'[tx.role] = usdc[tx.role] + tx.n
  BY <1>1, MiningPays
<1>7. /\ Waited' = Waited \ {tx} /\ \A r : Pending(r)' = Pending(r) \ {tx}
      /\ \A r : Sent(r)' = IF tx \in Pending(r) THEN Sent(r) - 1 ELSE Sent(r)
      /\ \A r : tx \in Pending(r) <=> tx.op = "register" /\ tx.role = r
  BY <1>1, <1>2, <1>3, Mining
<1>8. tx \in Waited => /\ Waited = {tx} /\ tx.op = OpOf[script.cli] /\ tx.role = Role /\ tx.run[1] = deploys
                       /\ tx.n = IF script.cli = "usdc" THEN USDC_EACH ELSE script.n
  BY <1>1, <1>3, TheWaited DEF Waited
<1>9. tx \in Waited /\ script.cli = "register" => Pending(Role) = {tx} /\ Waited = {tx} /\ tx.op = "register" /\ tx.role = Role
  BY <1>1, <1>3, OwnIsLast
<1>10. /\ owner' \in Seq(Roles \cup {"other"}) /\ Len(owner') \in Nat
       /\ \A r : AgentsOf(r)' = IF tx.op = "register" /\ tx.role = r
                                THEN AgentsOf(r) \cup {Len(owner) + 1} ELSE AgentsOf(r)
       /\ \A r : Held(r)' = IF tx.op = "register" /\ tx.role = r THEN Held(r) + 1 ELSE Held(r)
       /\ Len(owner') = IF tx.op = "register" THEN Len(owner) + 1 ELSE Len(owner)
  <2>1. CASE tx.op = "register"
    <3>1. owner' = Append(owner, tx.role) /\ tx.role \in Roles \cup {"other"}
      BY <1>2, <1>4, <2>1
    <3>2. /\ owner' \in Seq(Roles \cup {"other"}) /\ Len(owner') = Len(owner) + 1
          /\ \A r : AgentsOf(r)' = IF r = tx.role THEN AgentsOf(r) \cup {Len(owner) + 1} ELSE AgentsOf(r)
          /\ \A r : Held(r)' = IF r = tx.role THEN Held(r) + 1 ELSE Held(r)
      BY <1>3, <3>1, OwnerGrows
    <3> QED
      BY <1>3, <2>1, <3>2
  <2>2. CASE tx.op # "register"
    <3>1. owner' = owner
      BY <1>2, <2>2
    <3> QED
      BY <1>3, <2>2, <3>1, SameOwners DEF Owners
  <2> QED
    BY <2>1, <2>2
<1>11. Len(owner) <= Len(owner') /\ DOMAIN owner' = 1..Len(owner') /\ DOMAIN owner \subseteq DOMAIN owner'
  <2>1. DOMAIN owner' = 1..Len(owner')
    BY <1>10
  <2>2. Len(owner) <= Len(owner')
    BY <1>3, <1>10
  <2> QED
    BY <1>3, <1>10, <2>1, <2>2
<1>12. \A r : AgentsOf(r) \subseteq AgentsOf(r)'
  BY <1>10
<1>13. \A r, id : OwnOrTaken(r, id) => OwnOrTaken(r, id)'
  <2>1. UNCHANGED owner \/ \E x \in Roles \cup {"other"} : owner' = Append(owner, x)
    BY <1>2, <1>4
  <2>2. orphans' \in [Roles -> Nat] /\ \A r \in Roles : orphans[r] <= orphans'[r]
    BY <1>2, <1>3
  <2> QED
    BY <1>3, <2>1, <2>2, TakenStays
<1>14. \A r : Awaits(r)' /\ Pending(r)' # {} <=> Awaits(r) /\ Pending(r)' # {}
  BY <1>2, <1>5, <1>7, <1>9 DEF Awaits, In
<1>15. \A r \in Roles : Held(r) \in Nat /\ Sent(r) \in Nat /\ Held(r)' + Sent(r)' = Held(r) + Sent(r)
  <2>1. \A r : Held(r) \in Nat /\ Sent(r) \in Nat
    BY <1>3, Counts
  <2>2. ASSUME NEW r \in Roles PROVE Held(r)' + Sent(r)' = Held(r) + Sent(r)
    <3>1. CASE tx.op = "register" /\ tx.role = r
      <4>1. Held(r)' = Held(r) + 1 /\ Sent(r)' = Sent(r) - 1
        BY <1>7, <1>10, <3>1
      <4> QED
        BY <2>1, <4>1
    <3>2. CASE ~(tx.op = "register" /\ tx.role = r)
      BY <1>7, <1>10, <3>2
    <3> QED
      BY <3>1, <3>2
  <2> QED
    BY <2>1, <2>2
<1>16. Owners'
  <2>1. TAKEN <= Len(owner') /\ \A id \in 1..TAKEN : owner'[id] = "other"
    <3>1. CASE tx.op = "register"
      BY <1>2, <1>3, <1>4, <3>1, OwnerGrows
    <3>2. CASE tx.op # "register"
      BY <1>2, <1>3, <3>2 DEF Owners
    <3> QED
      BY <3>1, <3>2
  <2> QED
    BY <1>2, <1>3, <1>10, <2>1 DEF Owners
<1>17. GasGiven'
  <2>1. \A r \in Funded : GasTarget(r) \in Nat /\ Got(r)' \in Nat /\ Got(r)' >= Got(r) /\ Got(r) \in Nat
    BY <1>6, Wallets
  <2>2. ASSUME NEW r \in Funded, Got(r) >= GasTarget(r) PROVE Got(r)' >= GasTarget(r)
    BY <2>1, <2>2
  <2>3. CASE script.cli = "gas"
    <3>1. Role \in Funded /\ \A k \in 1..(script.i - 1) : NEEDS_GAS[k] \in Funded
      BY <1>3, <2>3, TheRole, Wallets
    <3>2. \A k \in 1..(script.i - 1) : Got(NEEDS_GAS[k])' >= GasTarget(NEEDS_GAS[k])
      BY <2>2, <2>3, <3>1 DEF SetupInv, GasGiven
    <3>3. \A r : Role = r => Got(r)' >= Got(r) /\ Got(r)' \in Nat /\ Got(r) \in Nat /\ GasTarget(r) \in Nat
      BY <2>1, <3>1
    <3>4. ASSUME NEW r, Role = r, script.at = "sending" PROVE Got(r)' + script.n >= GasTarget(r)
      <4>1. Got(r) + script.n >= GasTarget(r) /\ script.n \in Nat
        BY <1>3, <2>3, <3>4 DEF SetupInv, GasGiven, In, ScriptShape
      <4> QED
        BY <3>3, <3>4, <4>1
    <3>5. ASSUME NEW r, Role = r, script.at = "waiting", Waited' # {}
          PROVE  Got(r)' + script.n >= GasTarget(r)
      <4>1. Got(r) + script.n >= GasTarget(r) /\ script.n \in Nat
        BY <1>3, <1>7, <2>3, <3>5 DEF SetupInv, GasGiven, In, ScriptShape
      <4> QED
        BY <3>3, <3>5, <4>1
    <3>6. ASSUME NEW r, Role = r, script.at = "waiting", Waited' = {}
          PROVE  Got(r)' >= GasTarget(r)
      <4>1. CASE Waited = {}
        <5>1. Got(r) >= GasTarget(r)
          BY <2>3, <3>6, <4>1 DEF SetupInv, GasGiven, In
        <5> QED
          BY <3>3, <3>6, <5>1
      <4>2. CASE Waited # {}
        <5>1. tx \in Waited
          BY <1>7, <3>6, <4>2
        <5>2. Got(r)' = Got(r) + script.n
          BY <1>6, <1>8, <2>3, <3>6, <5>1 DEF OpOf
        <5>3. Got(r) + script.n >= GasTarget(r)
          BY <2>3, <3>6, <4>2 DEF SetupInv, GasGiven, In
        <5> QED
          BY <5>2, <5>3
      <4> QED
        BY <4>1, <4>2
    <3> QED
      BY <1>2, <1>5, <2>3, <3>2, <3>4, <3>5, <3>6 DEF GasGiven, In
  <2>4. CASE script.cli # "gas"
    BY <1>2, <2>2, <2>4 DEF SetupInv, GasGiven, In
  <2> QED
    BY <2>3, <2>4
<1>18. UsdcGiven'
  <2>1. ASSUME NEW r \in Funded, usdc[r] >= USDC_EACH PROVE usdc'[r] >= USDC_EACH
    BY <1>6, <2>1, Wallets
  <2>2. script.cli = "usdc" => Role \in Funded /\ \A k \in 1..(script.i - 1) : NEEDS_USDC[k] \in Funded
    BY <1>3, TheRole, Wallets
  <2>3. ASSUME stops = 0, In("usdc", "waiting"), Waited' = {} PROVE usdc'[Role] >= USDC_EACH
    <3>1. CASE Waited = {}
      BY <2>1, <2>2, <2>3, <3>1 DEF SetupInv, UsdcGiven, In
    <3>2. CASE Waited # {}
      <4>1. tx \in Waited /\ script.cli = "usdc"
        BY <1>7, <2>3, <3>2 DEF In
      <4>2. usdc'[Role] = usdc[Role] + USDC_EACH
        BY <1>6, <1>8, <4>1 DEF OpOf
      <4> QED
        BY <1>6, <2>2, <4>1, <4>2, Wallets
    <3> QED
      BY <3>1, <3>2
  <2>4. \A r \in ToSet(NEEDS_USDC) : r \in Funded
    BY Wallets
  <2> QED
    BY <1>2, <1>5, <2>1, <2>2, <2>3, <2>4 DEF SetupInv, UsdcGiven, In
<1>19. Entered'
  <2>1. ASSUME NEW r \in Roles, NEW n \in Nat, n = map'[r], n > 0
        PROVE  n \in DOMAIN owner' /\ AgentsOf(r)' # {} /\ OwnOrTaken(r, n)'
    <3>1. n \in DOMAIN owner /\ AgentsOf(r) # {} /\ OwnOrTaken(r, n)
      BY <1>2, <2>1 DEF SetupInv, Entered
    <3> QED
      BY <1>13, <1>11, <1>12, <3>1
  <2>2. map' \in [Roles -> Nat]
    BY <1>16 DEF Owners
  <2>3. \A r \in Roles : map'[r] > 0 =>
           (map[r] \in DOMAIN owner /\ AgentsOf(r) # {} /\ OwnOrTaken(r, map[r]))'
    BY <2>1, <2>2, EnteredNext
  <2> QED
    BY <1>2, <1>5, <2>3 DEF SetupInv, Entered
<1>20. ASSUME script.cli = "register", script.at \in {"sending", "waiting"},
              NEW r \in Roles, r = Role, NEW n, n = script.n, n = Len(owner) + 1, tx.op = "register"
       PROVE  OwnOrTaken(r, n)' /\ n \in DOMAIN owner'
  <2>1. tx.role \in Roles /\ n \in AgentsOf(tx.role)' /\ n \in DOMAIN owner' /\ Pending(tx.role) # {}
    BY <1>3, <1>4, <1>7, <1>10, <1>11, <1>20
  <2>2. CASE tx.role = r
    BY <2>1, <2>2 DEF OwnOrTaken
  <2>3. CASE tx.role # r
    <3>1. ~Awaits(tx.role) /\ orphans[tx.role] > 0
      BY <1>20, <2>1, <2>3 DEF SetupInv, Orphans, Awaits
    <3>2. ASSUME Len(owner') <= TAKEN + SCAN PROVE orphans[tx.role] > 1
      <4>1. PICK l \in DOMAIN FLEET : FLEET[l] = tx.role
        BY <2>1, Wallets
      <4>2. Role = FLEET[script.i] /\ script.i \in 1..Len(FLEET) /\ Len(owner) <= TAKEN + SCAN
        BY <1>3, <1>10, <1>11, <1>20, <3>2, TheRole, Wallets
      <4>3. l < script.i
        <5>1. ~(script.i < l)
          BY <1>20, <2>1, <4>1, <4>2 DEF SetupInv, Orphans
        <5>2. l # script.i
          BY <1>20, <2>3, <4>1, <4>2
        <5> QED
          BY <4>2, <5>1, <5>2, Wallets
      <4>4. map[tx.role] > 0
        <5>1. l \in 1..(script.i - 1)
          BY <4>2, <4>3, Wallets
        <5> QED
          BY <1>20, <4>1, <5>1 DEF SetupInv, Entered
      <4> QED
        BY <2>1, <4>2, <4>4 DEF SetupInv, Orphans
    <3>3. orphans'[tx.role] > (IF Outgrown' THEN 0 ELSE 1)
      BY <1>2, <1>10, <1>11, <3>1, <3>2, Wallets DEF Outgrown
    <3> QED
      BY <2>1, <2>3, <3>3 DEF OwnOrTaken, TakenFrom
  <2> QED
    BY <2>2, <2>3
<1>21. Simulated'
  <2>1. ASSUME script.cli = "register", script.at \in {"sending", "waiting"},
               NEW r, r = Role, NEW n, n = script.n,
               n = Len(owner) + 1 \/ (n \in DOMAIN owner /\ OwnOrTaken(r, n))
        PROVE  n = Len(owner') + 1 \/ (n \in DOMAIN owner' /\ OwnOrTaken(r, n)')
    <3>1. CASE n \in DOMAIN owner /\ OwnOrTaken(r, n)
      BY <1>13, <1>11, <3>1
    <3>2. CASE n = Len(owner) + 1 /\ tx.op = "register"
      <4>1. r \in Roles
        BY <1>3, <2>1, TheRole
      <4> QED
        BY <1>20, <2>1, <3>2, <4>1
    <3>3. CASE n = Len(owner) + 1 /\ tx.op # "register"
      BY <1>10, <3>3
    <3> QED
      BY <2>1, <3>1, <3>2, <3>3
  <2>2. ASSUME In("register", "sending") \/ (In("register", "waiting") /\ Waited' # {}),
               NEW r, r = Role, NEW n, n = script.n
        PROVE  n = Len(owner') + 1 \/ (n \in DOMAIN owner' /\ OwnOrTaken(r, n)')
    <3>1. script.cli = "register" /\ script.at \in {"sending", "waiting"}
      BY <2>2 DEF In
    <3>2. n = Len(owner) + 1 \/ (n \in DOMAIN owner /\ OwnOrTaken(r, n))
      BY <1>7, <2>2 DEF SetupInv, Simulated
    <3> QED
      BY <2>1, <2>2, <3>1, <3>2
  <2>3. ASSUME In("register", "waiting"), Waited' = {}, NEW r, r = Role, NEW n, n = script.n
        PROVE  /\ n \in DOMAIN owner' /\ OwnOrTaken(r, n)'
               /\ AgentsOf(r)' # {} /\ Pending(r)' = {}
    <3>1. CASE Waited = {}
      <4>1. n \in DOMAIN owner /\ OwnOrTaken(r, n) /\ AgentsOf(r) # {} /\ Pending(r) = {}
        BY <2>3, <3>1 DEF SetupInv, Simulated
      <4> QED
        BY <1>7, <1>13, <1>11, <1>12, <4>1
    <3>2. CASE Waited # {}
      <4>1. script.cli = "register" /\ script.at = "waiting" /\ tx \in Waited
        BY <1>7, <2>3, <3>2 DEF In
      <4>2. tx.op = "register" /\ tx.role = r /\ Pending(r) = {tx} /\ r \in Roles
        BY <1>3, <1>9, <2>3, <4>1, TheRole
      <4>3. n = Len(owner) + 1 \/ (n \in DOMAIN owner /\ OwnOrTaken(r, n))
        BY <2>3, <3>2 DEF SetupInv, Simulated
      <4>4. n \in DOMAIN owner' /\ OwnOrTaken(r, n)'
        BY <1>13, <1>20, <1>11, <2>3, <4>1, <4>2, <4>3
      <4> QED
        BY <1>7, <1>10, <4>2, <4>4
    <3> QED
      BY <3>1, <3>2
  <2>4. In("register", "sending")' = In("register", "sending") /\ In("register", "waiting")' = In("register", "waiting")
    BY <1>2 DEF In
  <2> QED
    BY <1>2, <1>5, <2>2, <2>3, <2>4 DEF Simulated
<1>22. Orphans'
  <2>1. \A r \in Roles : Pending(r)' # {} => orphans'[r] > 0 \/ Awaits(r)'
    BY <1>2, <1>7, <1>14 DEF SetupInv, Orphans
  <2>2. Len(owner') <= TAKEN + SCAN => Len(owner) <= TAKEN + SCAN
    BY <1>3, <1>10, <1>11, Wallets
  <2>3. ASSUME Len(owner) <= TAKEN + SCAN, NEW r \in Roles
        PROVE  /\ Held(r)' + Sent(r)' <= 1 + orphans'[r]
               /\ Pending(r)' # {} => Held(r)' + Sent(r)' <= orphans'[r] + (IF Awaits(r)' THEN 1 ELSE 0)
               /\ In("register", "sending") /\ Role = r => Held(r)' + Sent(r)' <= orphans'[r]
               /\ map'[r] > 0 /\ Pending(r)' # {} => orphans'[r] > 1
    <3>1. Held(r)' + Sent(r)' = Held(r) + Sent(r) /\ (Pending(r)' # {} => Pending(r) # {})
      BY <1>7, <1>15
    <3>2. Pending(r)' # {} => (Awaits(r)' <=> Awaits(r))
      BY <1>14
    <3> QED
      BY <1>2, <2>3, <3>1, <3>2 DEF SetupInv, Orphans
  <2>4. ASSUME Len(owner) <= TAKEN + SCAN, NEW k \in DOMAIN FLEET, NEW l \in DOMAIN FLEET
        PROVE  /\ k < l /\ Pending(FLEET[l])' # {} => AgentsOf(FLEET[k])' # {}
               /\ script.cli = "register" /\ script.at \in {"sending", "waiting"} /\ script.i < l =>
                     Pending(FLEET[l])' = {}
    <3>1. AgentsOf(FLEET[k]) \subseteq AgentsOf(FLEET[k])' /\ Pending(FLEET[l])' \subseteq Pending(FLEET[l])
      BY <1>7, <1>12
    <3> QED
      BY <2>4, <3>1 DEF SetupInv, Orphans
  <2>5. In("register", "sending")' <=> In("register", "sending")
    BY <1>2 DEF In
  <2> QED
    BY <1>2, <1>5, <2>1, <2>2, <2>3, <2>4, <2>5 DEF Orphans
<1> QED
  BY <1>5, <1>6, <1>16, <1>17, <1>18, <1>19, <1>21, <1>22 DEF SetupInv

\* Every step of the bring-up keeps its half of the invariant.
LEMMA SetupNextKeeps ==
    ASSUME SetupInv, SetupNext
    PROVE  SetupInv'
BY DeploysKeeps, LooksAtGasKeeps, TopsUpKeeps, MintsUsdcKeeps, LooksForAgentKeeps, RegistersKeeps,
   HearsReceiptKeeps, StopsKeeps, RerunsKeeps, RegistersForeignKeeps, SetupMinesKeeps
   DEF SetupNext, Runs


\* Of what the bring-up left, the market spends the USDC, and nothing else.
LEMMA MarketKeepsSetup ==
    ASSUME SetupInv, usdc' \in [Funded -> Nat], script.cli = "up" \/ UNCHANGED usdc,
           UNCHANGED <<owner, map, gas, deployer, script, mempool, setupBounds>>
    PROVE  SetupInv'
<1>1. UNCHANGED <<stops, deploys, orphans>>
  BY DEF setupBounds
<1>2. ScriptShape /\ MempoolShape /\ Owners /\ orphans \in [Roles -> Nat]
  BY DEF SetupInv, Owners
<1>3. /\ Waited' = Waited /\ Role' = Role
      /\ \A cli, at : In(cli, at)' = In(cli, at)
      /\ \A r : Awaits(r)' = Awaits(r)
  BY <1>1, SameTxs DEF Role, In, Awaits
<1>4. \A r : /\ Held(r)' = Held(r) /\ Sent(r)' = Sent(r) /\ AgentsOf(r)' = AgentsOf(r)
             /\ Pending(r)' = Pending(r) /\ Got(r)' = Got(r)
  BY SameTxs, SameOwners DEF Got
<1>5. \A r, id : OwnOrTaken(r, id) => OwnOrTaken(r, id)'
  BY <1>1, <1>2, TakenStays
<1>6. ScriptShape' /\ MempoolShape'
  BY <1>1, <1>2, <1>3 DEF ScriptShape, MempoolShape
<1>7. Money' /\ Owners'
  BY <1>1, <1>4 DEF SetupInv, Money, Owners
<1>8. GasGiven'
  BY <1>3, <1>4 DEF SetupInv, GasGiven
<1>9. UsdcGiven'
  BY <1>1, <1>3, <1>6 DEF SetupInv, UsdcGiven, In, ScriptShape
<1>10. Entered' /\ Simulated'
  BY <1>1, <1>3, <1>4, <1>5 DEF SetupInv, Entered, Simulated, In
<1>11. Orphans'
  BY <1>1, <1>3, <1>4, Wallets DEF SetupInv, Orphans
<1> QED
  BY <1>6, <1>7, <1>8, <1>9, <1>10, <1>11 DEF SetupInv

-----------------------------------------------------------------------------
(* What the agents' rules amount to.                                       *)

\* The times are numbers.
LEMMA Times ==
    ASSUME NEW a \in Nat, NEW b \in Nat, NEW c \in Nat, b <= c
    PROVE  a * b \in Nat /\ a * b <= a * c
<1>1. a * (c - b) \in Nat /\ c - b \in Nat
  OBVIOUS
<1>2. a * c = a * b + a * (c - b) /\ a * b \in Nat /\ a * c \in Nat
  OBVIOUS
<1> QED
  BY <1>1, <1>2

\* Rounding down.
LEMMA Floor ==
    ASSUME NEW a \in Nat, NEW d \in Nat \ {0}
    PROVE  a \div d \in Nat /\ d * (a \div d) <= a /\ a < d * (a \div d) + d
OBVIOUS

\* The worker's stake: at least a tenth of the reward, which the contract's least is
\* not above, and at most half of it.
LEMMA StakeWithin ==
    ASSUME NEW reward \in Nat, reward >= Usdc(1), NEW conf \in Nat
    PROVE  /\ StakeFor(reward, conf) \in Nat /\ StakeFor(reward, conf) > 0
           /\ StakeFor(reward, conf) >= MinSelfStake(reward)
           /\ 2 * StakeFor(reward, conf) <= reward
<1> DEFINE c == Clamp(conf, 10, 50)
           p == reward * c
           q == reward * MIN_SELF_STAKE_BPS
<1>1. c \in 10..50
  BY DEF Clamp, Least, Largest
<1>2. 10 \in Nat /\ 50 \in Nat /\ c \in Nat /\ 10 <= c /\ c <= 50
  BY <1>1
<1>3. p \in Nat /\ reward * 10 <= p /\ p <= reward * 50
  BY <1>2, Times
<1>4. MIN_SELF_STAKE_BPS \in Nat /\ MIN_SELF_STAKE_BPS <= 1000 /\ 1000 \in Nat
  BY MoneyAssumption
<1>5. q \in Nat /\ q <= reward * 1000
  BY <1>4, Times
<1>6. StakeFor(reward, conf) = (p * 100) \div 10000 /\ MinSelfStake(reward) = q \div 10000
  BY DEF StakeFor, MinSelfStake
<1>7. reward >= 10
  BY DEF Usdc
<1> HIDE DEF p, q, c
<1> QED
  BY <1>3, <1>5, <1>6, <1>7

\* A model's bet is within the guard rails.
LEMMA ModelBetWithin ==
    ASSUME NEW d \in ModelBets
    PROVE  \/ ToDecision(d).action = "abstain" /\ ToDecision(d) = Abstain
           \/ /\ ToDecision(d) \in [action : {"bet"}, side : {"Yes", "No"}, amount : Nat]
              /\ ToDecision(d).amount \in MIN_BET..MAX_BET
<1>1. d.amount \in Int /\ d.side \in {"Yes", "No"}
  BY MoneyAssumption
<1>2. MIN_BET \in Nat /\ MAX_BET \in Nat /\ MIN_BET <= MAX_BET
  BY MoneyAssumption, BetLimits DEF Usdc
<1>3. Largest(MIN_BET, Clamp(d.amount, 0, MAX_BET)) \in MIN_BET..MAX_BET
  BY <1>1, <1>2 DEF Largest, Clamp, Least
<1> QED
  BY <1>1, <1>2, <1>3 DEF ToDecision, Abstain, Bet

\* So is every rule's: a bettor that trusts the worker's record bets 20 USDC.
LEMMA RepBetsTwenty ==
    ASSUME NEW n \in Nat \ {0}, NEW wins \in Nat, 10 * wins >= 6 * n
    PROVE  Least((Usdc(40) * ((20000 * wins + n) \div (2 * n))) \div 10000, Usdc(20)) = Usdc(20)
<1> DEFINE a == 20000 * wins + n
           m == 2 * n
           rate == a \div m
<1>1. a \in Nat /\ m \in Nat \ {0} /\ a >= 6000 * m + n
  OBVIOUS
<1> HIDE DEF a, m
<1>2. rate \in Nat /\ a < m * rate + m
  BY <1>1, Floor
<1> HIDE DEF rate
<1>3. rate >= 6000
  <2>1. SUFFICES ASSUME rate <= 5999 PROVE FALSE
    BY <1>2
  <2>2. m * rate <= m * 5999
    BY <1>1, <1>2, <2>1, Times
  <2> QED
    BY <1>1, <1>2, <2>2
<1>4. (400 * rate) \div 10000 >= 240 /\ (400 * rate) \div 10000 \in Nat
  BY <1>2, <1>3
<1> QED
  BY <1>4 DEF Least, Usdc, rate, a, m

Within(choice) ==
    \/ choice = Abstain
    \/ /\ choice \in [action : {"bet"}, side : {"Yes", "No"}, amount : Nat]
       /\ choice.amount \in MIN_BET..MAX_BET

\* Every rule bets within the contract's limits, or abstains.
LEMMA RulesWithin ==
    ASSUME MarketShape
    PROVE  /\ Within(RepDecision(hist, task)) /\ Within(SkepticDecision(task, hist.n))
           /\ \A p : Within(MirrorDecision(p))
<1>1. /\ \A amount \in {Usdc(10), Usdc(15), Usdc(20)} : amount \in Nat /\ amount \in MIN_BET..MAX_BET
  BY MoneyAssumption, BetLimits DEF Usdc
<1>2. \A side \in {"Yes", "No"}, amount \in {Usdc(10), Usdc(15), Usdc(20)} : Within(Bet(side, amount))
  BY <1>1 DEF Within, Bet
<1>3. Within(Abstain)
  BY DEF Within
<1>4. hist.n \in Nat /\ hist.wins \in Nat
  BY DEF MarketShape
<1>5. Within(RepDecision(hist, task))
  <2>1. hist.n >= 1 /\ 10 * hist.wins >= 6 * hist.n => RepDecision(hist, task) = Bet("Yes", Usdc(20))
    BY <1>4, RepBetsTwenty DEF RepDecision
  <2>2. ~(hist.n >= 1 /\ 10 * hist.wins >= 6 * hist.n) =>
           RepDecision(hist, task) \in {Bet("No", Usdc(15)), Bet("Yes", Usdc(10)), Abstain}
    BY DEF RepDecision
  <2> QED
    BY <1>2, <1>3, <2>1, <2>2
<1> QED
  BY <1>2, <1>3, <1>5 DEF SkepticDecision, MirrorDecision

\* What a bettor reports is within limits, and the mirror's rule is the mirror's.
LEMMA DecisionsWithin ==
    ASSUME MarketShape, NEW b \in Bettors, NEW d \in Decisions(b)
    PROVE  /\ Within(d.choice) /\ d.source \in {"rule", "gemini"}
           /\ b = "bettorMirror" /\ d.source = "rule" => d.choice = MirrorDecision(PBps(Pools))
<1>1. b \in {"bettorRep", "bettorSkeptic", "bettorMirror"}
  BY DEF Bettors
<1>2. PICK rule : /\ d \in Reported(rule) /\ Within(rule)
                  /\ b = "bettorMirror" => rule = MirrorDecision(PBps(Pools))
  BY <1>1, RulesWithin DEF Decisions, RepDecides, SkepticDecides, MirrorDecides, SettledCountFor
<1>3. \/ d = [choice |-> rule, source |-> "rule"]
      \/ \E m \in ModelBets : d = [choice |-> ToDecision(m), source |-> "gemini"]
  BY <1>2 DEF Reported, LlmBetDecision, Asked
<1> QED
  BY <1>2, <1>3, ModelBetWithin DEF Within

\* The feed's price is on the same side of three fifths as the money.
LEMMA PriceTells ==
    ASSUME NEW yes \in Nat, NEW no \in Nat, yes + no > 0
    PROVE  LET p == PBps([yes |-> yes, no |-> no]) IN
           /\ p > 6000 => 5 * yes > 3 * (yes + no)
           /\ p < 4000 => 5 * no > 3 * (yes + no)
<1> DEFINE t == yes + no
           a == 10000 * yes
           p == a \div t
<1>1. t \in Nat \ {0} /\ a \in Nat
  OBVIOUS
<1>2. p \in Nat /\ t * p <= a /\ a < t * p + t
  <2> HIDE DEF a, t
  <2> QED
    BY <1>1, Floor
<1> HIDE DEF p
<1>3. ASSUME p > 6000 PROVE 5 * yes > 3 * t
  <2>1. t * 6001 <= t * p
    BY <1>1, <1>2, <1>3, Times
  <2> QED
    BY <1>1, <1>2, <2>1
<1>4. ASSUME p < 4000 PROVE 5 * no > 3 * t
  <2>1. t * p <= t * 3999
    BY <1>1, <1>2, <1>4, Times
  <2> QED
    BY <1>1, <1>2, <2>1
<1> QED
  BY <1>3, <1>4 DEF PBps, p

-----------------------------------------------------------------------------
(* A bettor's clock.                                                       *)

\* The times are numbers.
LEMMA Clocks ==
    /\ {WINDOW, POLL, MARGIN, MAX_DELAY} \subseteq Nat /\ WINDOW > 0
    /\ \A bot \in BotRecord : Behind(bot) \in Nat /\ POLL * bot.failed \in Nat
<1>1. {WINDOW, POLL, MARGIN, MAX_DELAY} \subseteq Nat /\ WINDOW > 0
  BY TimeAssumption, BetLimits
<1>2. ASSUME NEW bot \in BotRecord PROVE Behind(bot) \in Nat /\ POLL * bot.failed \in Nat
  <2>1. bot.failed \in Nat /\ bot.lost \in Nat /\ bot.slow \in Nat /\ POLL \in Nat
    BY <1>1 DEF BotRecord
  <2>2. POLL * bot.failed \in Nat
    BY <2>1, Times
  <2> QED
    BY <2>1, <2>2 DEF Behind
<1> QED
  BY <1>1, <1>2

\* A bettor before its market is in time for all of them.
LEMMA IdleBot ==
    /\ Idle \in BotRecord /\ Behind(Idle) = 0
    /\ \A due \in Nat : LET bot == [Idle EXCEPT !.due = due] IN
          bot \in BotRecord /\ bot.at = "polling" /\ bot.due = due /\ bot.seen = -1 /\ Behind(bot) = 0
    /\ \A at \in {"off", "done"} : LET bot == [Idle EXCEPT !.at = at] IN
          bot \in BotRecord /\ bot.at = at
<1>1. /\ Idle \in BotRecord /\ Idle.at = "polling" /\ Idle.seen = -1
      /\ Idle.failed = 0 /\ Idle.lost = 0 /\ Idle.slow = 0
  BY DEF Idle, BotRecord, Abstain
<1>2. POLL \in Nat /\ POLL * 0 = 0
  BY Clocks
<1>3. \A at \in {"off", "done"} : LET bot == [Idle EXCEPT !.at = at] IN bot \in BotRecord /\ bot.at = at
  BY <1>1 DEF BotRecord
<1>4. ASSUME NEW due \in Nat
      PROVE  LET bot == [Idle EXCEPT !.due = due] IN
             /\ bot \in BotRecord /\ bot.at = "polling" /\ bot.due = due /\ bot.seen = -1
             /\ bot.failed = 0 /\ bot.lost = 0 /\ bot.slow = 0
  BY <1>1 DEF BotRecord
<1>5. \A bot : bot.failed = 0 /\ bot.lost = 0 /\ bot.slow = 0 => Behind(bot) = 0
  BY <1>2 DEF Behind
<1> QED
  BY <1>1, <1>3, <1>4, <1>5

\* Time that is counted is not lost; a sleep is what it is.
LEMMA CountedBot ==
    ASSUME NEW bot \in BotRecord
    PROVE  /\ Counted(bot) \in BotRecord /\ Behind(Counted(bot)) = Behind(bot)
           /\ Counted(bot).at = bot.at /\ Counted(bot).due = bot.due
           /\ Counted(bot).seen = bot.seen /\ Counted(bot).slow = 0
           /\ Sleeps(bot) \in BotRecord /\ Behind(Sleeps(bot)) = Behind(bot)
           /\ Sleeps(bot).at = "polling" /\ Sleeps(bot).due = POLL /\ Sleeps(bot).seen = bot.seen
           /\ Sleeps(bot).slow = 0 /\ Sleeps(bot).lost = bot.lost + bot.slow /\ Sleeps(bot).failed = bot.failed
<1>1. POLL \in Nat /\ POLL * bot.failed \in Nat /\ bot.lost \in Nat /\ bot.slow \in Nat
  BY Clocks DEF BotRecord
<1>2. /\ Counted(bot) \in BotRecord /\ Counted(bot).at = bot.at /\ Counted(bot).due = bot.due
      /\ Counted(bot).seen = bot.seen /\ Counted(bot).slow = 0
      /\ Counted(bot).lost = bot.lost + bot.slow /\ Counted(bot).failed = bot.failed
  <2> DEFINE lost == [bot EXCEPT !.lost = @ + bot.slow]
             next == [lost EXCEPT !.slow = 0]
  <2>1. /\ lost \in BotRecord /\ lost.at = bot.at /\ lost.due = bot.due /\ lost.seen = bot.seen
        /\ lost.lost = bot.lost + bot.slow /\ lost.failed = bot.failed
    BY <1>1 DEF BotRecord
  <2>2. Counted(bot) = next
    BY DEF Counted
  <2> HIDE DEF lost
  <2>3. /\ next \in BotRecord /\ next.at = lost.at /\ next.due = lost.due /\ next.seen = lost.seen
        /\ next.slow = 0 /\ next.lost = lost.lost /\ next.failed = lost.failed
    BY <2>1 DEF BotRecord
  <2> QED
    BY <2>1, <2>2, <2>3
<1>3. /\ Sleeps(bot) \in BotRecord /\ Sleeps(bot).at = "polling" /\ Sleeps(bot).due = POLL
      /\ Sleeps(bot).seen = bot.seen /\ Sleeps(bot).slow = 0
      /\ Sleeps(bot).lost = bot.lost + bot.slow /\ Sleeps(bot).failed = bot.failed
  <2> DEFINE next == [[Counted(bot) EXCEPT !.at = "polling"] EXCEPT !.due = POLL]
  <2>1. /\ next \in BotRecord /\ next.at = "polling" /\ next.due = POLL
        /\ next.seen = bot.seen /\ next.slow = 0
        /\ next.lost = bot.lost + bot.slow /\ next.failed = bot.failed
    BY <1>1, <1>2 DEF BotRecord
  <2>2. Sleeps(bot) = next
    BY DEF Sleeps
  <2> QED
    BY <2>1, <2>2
<1> QED
  BY <1>1, <1>2, <1>3 DEF Behind

\* A read that fails costs one sleep.
LEMMA FailedBot ==
    ASSUME NEW bot \in BotRecord
    PROVE  LET next == [Sleeps(bot) EXCEPT !.failed = @ + 1] IN
           /\ next \in BotRecord /\ Behind(next) = Behind(bot) + POLL
           /\ next.at = "polling" /\ next.due = POLL /\ next.seen = bot.seen
<1> DEFINE next == [Sleeps(bot) EXCEPT !.failed = @ + 1]
<1>1. POLL \in Nat /\ bot.failed \in Nat /\ bot.lost \in Nat /\ bot.slow \in Nat
  BY Clocks DEF BotRecord
<1>2. /\ next \in BotRecord /\ next.at = "polling" /\ next.due = POLL
      /\ next.seen = bot.seen /\ next.slow = 0
      /\ next.lost = bot.lost + bot.slow /\ next.failed = bot.failed + 1
  BY <1>1, CountedBot DEF BotRecord
<1>3. POLL * (bot.failed + 1) = POLL * bot.failed + POLL /\ POLL * bot.failed \in Nat
  BY <1>1, Clocks
<1> HIDE DEF next
<1>4. Behind(next) = Behind(bot) + POLL
  BY <1>1, <1>2, <1>3 DEF Behind
<1> QED
  BY <1>2, <1>4 DEF next

\* A second that goes by is slept or lost.
LEMMA SecondPasses ==
    ASSUME NEW b, NEW bot \in BotRecord, NEW time \in Nat, Timely(b, bot, time), NEW busy \in BOOLEAN,
           busy <=> (bot.at = "polling" /\ bot.due = 0) \/ bot.at \in {"reading", "placing"}
    PROVE  LET next == IF busy THEN [bot EXCEPT !.slow = @ + 1]
                       ELSE IF bot.due > 0 THEN [bot EXCEPT !.due = @ - 1] ELSE bot
           IN  next \in BotRecord /\ Timely(b, next, time + 1)
<1>1. /\ {WINDOW, POLL, MARGIN} \subseteq Nat /\ Behind(bot) \in Nat /\ POLL * bot.failed \in Nat
      /\ bot.due \in Nat /\ bot.slow \in Nat /\ bot.lost \in Nat /\ bot.seen \in Int
  BY Clocks DEF BotRecord
<1>2. CASE busy
  <2> DEFINE next == [bot EXCEPT !.slow = @ + 1]
  <2>1. /\ next \in BotRecord /\ next.at = bot.at /\ next.due = bot.due /\ next.seen = bot.seen
        /\ next.slow = bot.slow + 1 /\ next.lost = bot.lost /\ next.failed = bot.failed
    BY <1>1 DEF BotRecord
  <2> HIDE DEF next
  <2>2. Behind(next) = Behind(bot) + 1
    BY <1>1, <2>1 DEF Behind
  <2>3. Timely(b, next, time + 1)
    BY <1>1, <1>2, <2>1, <2>2 DEF Timely
  <2> QED
    BY <1>2, <2>1, <2>3 DEF next
<1>3. CASE ~busy /\ bot.due > 0
  <2> DEFINE next == [bot EXCEPT !.due = @ - 1]
  <2>1. /\ next \in BotRecord /\ next.at = bot.at /\ next.due = bot.due - 1 /\ next.seen = bot.seen
        /\ next.slow = bot.slow /\ next.lost = bot.lost /\ next.failed = bot.failed
    BY <1>1, <1>3 DEF BotRecord
  <2> HIDE DEF next
  <2>2. Behind(next) = Behind(bot)
    BY <2>1 DEF Behind
  <2>3. Timely(b, next, time + 1)
    BY <1>1, <1>3, <2>1, <2>2 DEF Timely
  <2> QED
    BY <1>3, <2>1, <2>3 DEF next
<1>4. CASE ~busy /\ ~(bot.due > 0)
  <2>1. bot.at \notin {"polling", "reading", "placing"}
    BY <1>1, <1>4
  <2>2. Timely(b, bot, time + 1)
    BY <2>1 DEF Timely
  <2> QED
    BY <1>4, <2>2
<1> QED
  BY <1>2, <1>3, <1>4

\* A failed read leaves time for its sleep.
LEMMA FailsInTime ==
    ASSUME NEW b, NEW bot \in BotRecord, NEW time \in Nat, Timely(b, bot, time),
           bot.at \in {"polling", "reading"}
    PROVE  Timely(b, [Sleeps(bot) EXCEPT !.failed = @ + 1], time)
<1> DEFINE next == [Sleeps(bot) EXCEPT !.failed = @ + 1]
<1>1. /\ next \in BotRecord /\ Behind(next) = Behind(bot) + POLL
      /\ next.at = "polling" /\ next.due = POLL /\ next.seen = bot.seen
  BY FailedBot
<1>2. {WINDOW, POLL} \subseteq Nat /\ Behind(bot) \in Nat /\ bot.due \in Nat /\ bot.seen \in Int
  BY Clocks DEF BotRecord
<1> HIDE DEF next
<1>3. Timely(b, next, time)
  BY <1>1, <1>2 DEF Timely
<1> QED
  BY <1>3 DEF next

\* What a poll finds: that it is too late, by what its bettor has lost; that it is
\* early, and a sleep does no harm; or that it is time.
LEMMA PollsInTime ==
    ASSUME NEW b, NEW bot \in BotRecord, NEW time \in Nat, Timely(b, bot, time),
           bot.at = "polling", bot.due = 0, NEW seen, seen = IF bot.seen < 0 THEN time ELSE bot.seen
    PROVE  LET saw == [bot EXCEPT !.seen = seen] IN
           /\ WINDOW <= time + MARGIN => LET next == [Counted(bot) EXCEPT !.at = "missed"] IN
                 next \in BotRecord /\ Timely(b, next, time)
           /\ time + MARGIN < WINDOW /\ time < seen + DelayFor(b, seen) =>
                 Sleeps(saw) \in BotRecord /\ Timely(b, Sleeps(saw), time)
           /\ time + MARGIN < WINDOW => LET next == [Counted(saw) EXCEPT !.at = "reading"] IN
                 next \in BotRecord /\ Timely(b, next, time)
<1> DEFINE saw == [bot EXCEPT !.seen = seen]
           mirror == b = "bettorMirror"
           late == [Counted(bot) EXCEPT !.at = "missed"]
           reads == [Counted(saw) EXCEPT !.at = "reading"]
<1>1. /\ WINDOW \in Nat /\ POLL \in Nat /\ MARGIN \in Nat /\ WINDOW > 0 /\ MAX_DELAY \in Nat
      /\ Behind(bot) \in Nat /\ bot.seen \in Int
  BY Clocks DEF BotRecord
<1>2. seen \in Nat /\ seen <= time /\ seen <= POLL + Behind(bot)
  BY <1>1 DEF Timely
<1>3. 2 * time < WINDOW + 3 * POLL + 2 * Behind(bot) /\ (~mirror => time <= POLL + Behind(bot))
  BY <1>1 DEF Timely
<1>4. saw \in BotRecord /\ Behind(saw) = Behind(bot) /\ saw.seen = seen
  BY <1>2 DEF BotRecord, Behind
<1>5. /\ Sleeps(saw) \in BotRecord /\ Behind(Sleeps(saw)) = Behind(bot)
      /\ Sleeps(saw).at = "polling" /\ Sleeps(saw).due = POLL /\ Sleeps(saw).seen = seen
  BY <1>4, CountedBot
<1>6. /\ late \in BotRecord /\ Behind(late) = Behind(bot) /\ late.at = "missed" /\ late.slow = 0
  BY CountedBot DEF BotRecord, Behind
<1>7. /\ reads \in BotRecord /\ Behind(reads) = Behind(bot) /\ reads.at = "reading"
      /\ reads.slow = 0 /\ reads.seen = seen /\ reads.due = 0
  <2>1. /\ Counted(saw) \in BotRecord /\ Behind(Counted(saw)) = Behind(bot)
        /\ Counted(saw).slow = 0 /\ Counted(saw).seen = seen /\ Counted(saw).due = 0
    <3>1. saw.due = 0
      OBVIOUS
    <3> QED
      BY <1>4, <3>1, CountedBot
  <2> QED
    BY <2>1 DEF BotRecord, Behind
<1> HIDE DEF late, reads, saw
<1>8. WINDOW <= time + MARGIN => Timely(b, late, time)
  BY <1>1, <1>3, <1>6 DEF Timely
<1>9. time + MARGIN < WINDOW => Timely(b, reads, time)
  BY <1>1, <1>2, <1>3, <1>7 DEF Timely
<1>10. ASSUME time + MARGIN < WINDOW, time < seen + DelayFor(b, seen) PROVE Timely(b, Sleeps(saw), time)
  <2>1. mirror /\ time < seen + MirrorWait(WINDOW, seen)
    BY <1>2, <1>10 DEF DelayFor
  <2>2. MirrorWait(WINDOW, seen) \in Nat /\ 2 * MirrorWait(WINDOW, seen) <= WINDOW - seen + 1
    <3>1. Largest(0, WINDOW - seen) = WINDOW - seen /\ WINDOW - seen \in Nat
      BY <1>1, <1>2, <1>10 DEF Largest
    <3> QED
      BY <1>1, <3>1 DEF MirrorWait, Least
  <2>3. 2 * (time + POLL) < WINDOW + 3 * POLL + 2 * Behind(bot)
    BY <1>1, <1>2, <2>1, <2>2
  <2> QED
    BY <1>1, <1>2, <1>5, <2>1, <2>3 DEF Timely
<1> QED
  BY <1>5, <1>6, <1>7, <1>8, <1>9, <1>10 DEF late, reads, saw

-----------------------------------------------------------------------------
(* The market.                                                             *)

\* Once the fleet is up the bring-up has no step left; what is pending is mined.
LEMMA UpOnlyMines ==
    ASSUME ScriptShape, SetupNext
    PROVE  /\ script.cli = "up" => script'.cli = "up" /\ \E i \in DOMAIN mempool : SetupMines(i)
           /\ script.cli # "up" /\ script'.cli = "up" => script.cli = "register" /\ UNCHANGED <<usdc, stops>>
<1>1. ASSUME NEW at, NEW n \in Nat, Goes(at, n) PROVE script'.cli = script.cli
  BY <1>1, GoesTo
<1>2. ASSUME Proceeds, script.cli \in {"gas", "usdc", "register"}
      PROVE  script'.cli = "up" => script.cli = "register"
  BY <1>2, ProceedsTo
<1>3. script.n \in Nat
  BY DEF ScriptShape
<1>4. CASE Deploys
  <2>1. script.cli = "deploy" /\ (Goes("stopped", 0) \/ script' = Begin("gas"))
    BY <1>4 DEF Deploys, In, NextCli, Dies
  <2>2. script'.cli \in {"deploy", "gas"}
    BY <1>1, <2>1, BeginsAt DEF Clis
  <2> QED
    BY <2>1, <2>2
<1>5. CASE LooksAtGas
  BY <1>5, <1>2 DEF LooksAtGas, In, Goes, Dies, ScriptShape
<1>6. CASE TopsUp
  BY <1>6 DEF TopsUp, In, Goes, Sends, Dies, ScriptShape
<1>7. CASE MintsUsdc
  BY <1>7, <1>2 DEF MintsUsdc, In, Goes, Sends, ScriptShape
<1>8. CASE LooksForAgent
  BY <1>8 DEF LooksForAgent, In, Goes, ScriptShape, wallets, setupBounds
<1>9. CASE Registers
  BY <1>9 DEF Registers, In, Goes, Sends, Dies, ScriptShape
<1>10. CASE HearsReceipt
  BY <1>10, <1>2 DEF HearsReceipt, ScriptShape, wallets, setupBounds
<1>11. CASE Stops
  BY <1>11 DEF Stops, Goes, Dies, ScriptShape
<1>12. CASE Reruns
  <2>1. script.cli # "up" /\ script.cli \in Clis /\ script'.cli \in {script.cli, "gas", "deploy"}
    BY <1>12 DEF Reruns, Begin, Program, ScriptShape
  <2> QED
    BY <2>1
<1>13. CASE RegistersForeign
  BY <1>13 DEF RegistersForeign
<1>14. CASE \E i \in DOMAIN mempool : SetupMines(i)
  BY <1>14 DEF SetupMines
<1> QED
  BY <1>4, <1>5, <1>6, <1>7, <1>8, <1>9, <1>10, <1>11, <1>12, <1>13, <1>14 DEF SetupNext, Runs

\* Steps of the market come after the bring-up, and leave it alone.
MarketFrame == UNCHANGED <<owner, map, gas, deployer, script, mempool, setupBounds>>

\* Who is who.
LEMMA Who ==
    /\ "worker" \in Roles /\ "bettorMirror" \in Bettors
    /\ {"worker"} \cup Bettors \subseteq Roles /\ Roles \subseteq Funded
    /\ {"worker"} \cup Bettors \subseteq ToSet(NEEDS_USDC)
    /\ "worker" \notin Bettors /\ "validator" \notin Bettors
    /\ ToSet(NEEDS_USDC) \subseteq Funded
    /\ {MAX_BET, MIN_BET, CAP, USDC_EACH, ACCEPT_WINDOW} \subseteq Nat
BY MoneyAssumption, TimeAssumption, BetLimits, Wallets DEF Bettors, Roles

\* A cause outlives what is spent after it.
LEMMA RefusalsStay ==
    ASSUME MarketInv, UNCHANGED <<refusals, stops>>,
           \A r \in Roles : Controls(r)' <=> Controls(r),
           spent' \in [Funded -> Int], \A r \in Funded : spent'[r] >= spent[r],
           task'.kind = task.kind, task'.reward = task.reward, task'.left = task.left,
           task'.yes = task.yes, task'.no = task.no
    PROVE  RefusedForCause'
<1> SUFFICES ASSUME NEW r \in refusals'
             PROVE  LET left == USDC_EACH - spent'[r.who]
                        worker == r.who = "worker"
                    IN  \/ r.cause = "paused"
                        \/ r.cause = "taken" /\ ~HasSolver(task'.kind)
                        \/ r.cause = "late" /\ worker /\ r.took > ACCEPT_WINDOW
                        \/ r.cause = "controls" /\ ~Controls(r.who)'
                        \/ r.cause = "roles" /\ \E s \in Roles \cap {r.who, "validator"} : ~Controls(s)'
                        \/ /\ r.cause = "funds"
                           /\ stops' > 0 \/ IF worker THEN 2 * left < task'.reward ELSE left < MAX_BET
                        \/ r.cause = "cap" /\ IF worker THEN task'.reward > 2 * CAP
                                              ELSE CAP < task'.yes + MAX_BET \/ CAP < task'.no + MAX_BET
                        \/ r.cause = "time" /\ ~worker /\ (r.took > MARGIN \/ task'.left < WINDOW)
  BY DEF RefusedForCause
<1>1. r \in refusals /\ RefusedForCause /\ r.who \in {"worker"} \cup Bettors /\ task.reward \in Nat
      /\ spent \in [Funded -> Int]
  BY DEF MarketInv, MarketShape
<1>2. /\ r.who \in Roles /\ r.who \in Funded /\ spent[r.who] \in Int /\ spent'[r.who] \in Int
      /\ spent'[r.who] >= spent[r.who] /\ USDC_EACH \in Int /\ MAX_BET \in Int
  BY <1>1, Who
<1> DEFINE left == USDC_EACH - spent[r.who]
           left2 == USDC_EACH - spent'[r.who]
<1>3. left2 <= left /\ left \in Int /\ left2 \in Int
  BY <1>2
<1>4. \/ r.cause = "paused"
      \/ r.cause = "taken" /\ ~HasSolver(task.kind)
      \/ r.cause = "late" /\ r.who = "worker" /\ r.took > ACCEPT_WINDOW
      \/ r.cause = "controls" /\ ~Controls(r.who)
      \/ r.cause = "roles" /\ \E s \in Roles \cap {r.who, "validator"} : ~Controls(s)
      \/ r.cause = "funds" /\ (stops > 0 \/ IF r.who = "worker" THEN 2 * left < task.reward ELSE left < MAX_BET)
      \/ r.cause = "cap" /\ IF r.who = "worker" THEN task.reward > 2 * CAP
                            ELSE CAP < task.yes + MAX_BET \/ CAP < task.no + MAX_BET
      \/ r.cause = "time" /\ ~(r.who = "worker") /\ (r.took > MARGIN \/ task.left < WINDOW)
  BY <1>1 DEF RefusedForCause
<1> HIDE DEF left, left2
<1>5. r.cause = "funds" =>
         stops' > 0 \/ IF r.who = "worker" THEN 2 * left2 < task'.reward ELSE left2 < MAX_BET
  BY <1>1, <1>2, <1>3, <1>4
<1>6. /\ HasSolver(task'.kind) = HasSolver(task.kind)
      /\ Controls(r.who)' <=> Controls(r.who)
      /\ (\E s \in Roles \cap {r.who, "validator"} : ~Controls(s)') <=>
             \E s \in Roles \cap {r.who, "validator"} : ~Controls(s)
  BY <1>2
<1>7. \/ r.cause = "paused"
      \/ r.cause = "taken" /\ ~HasSolver(task'.kind)
      \/ r.cause = "late" /\ r.who = "worker" /\ r.took > ACCEPT_WINDOW
      \/ r.cause = "controls" /\ ~Controls(r.who)'
      \/ r.cause = "roles" /\ \E s \in Roles \cap {r.who, "validator"} : ~Controls(s)'
      \/ r.cause = "funds" /\ (stops' > 0 \/ IF r.who = "worker" THEN 2 * left2 < task'.reward ELSE left2 < MAX_BET)
      \/ r.cause = "cap" /\ IF r.who = "worker" THEN task'.reward > 2 * CAP
                            ELSE CAP < task'.yes + MAX_BET \/ CAP < task'.no + MAX_BET
      \/ r.cause = "time" /\ ~(r.who = "worker") /\ (r.took > MARGIN \/ task'.left < WINDOW)
  BY <1>4, <1>5, <1>6
<1> QED
  BY <1>7 DEF left2

\* Who pays spends what it had.
LEMMA PaysFrom ==
    ASSUME usdc \in [Funded -> Nat], spent \in [Funded -> Int], NEW who \in Funded,
           NEW amount \in Nat, amount <= usdc[who], Pays(who, amount)
    PROVE  /\ usdc' \in [Funded -> Nat] /\ spent' \in [Funded -> Int]
           /\ \A r \in Funded : usdc'[r] + spent'[r] = usdc[r] + spent[r] /\ spent'[r] >= spent[r]
<1>1. /\ usdc' = [usdc EXCEPT ![who] = usdc[who] - amount]
      /\ spent' = [spent EXCEPT ![who] = spent[who] + amount]
  BY DEF Pays
<1>2. usdc[who] - amount \in Nat /\ spent[who] + amount \in Int
  OBVIOUS
<1> QED
  BY <1>1, <1>2

\* Until the fleet is up there is no market.
LEMMA SetupKeepsMarket ==
    ASSUME SetupInv, MarketInv, SetupNext, UNCHANGED marketVars
    PROVE  MarketInv'
<1>1. UNCHANGED <<llm, hist, spent, task, paused, now, bots, refusals, demo>> /\ ScriptShape
  BY DEF marketVars, SetupInv
<1>2. MarketShape'
  BY <1>1 DEF MarketInv, MarketShape
<1>3. \A b \in Bettors : Timely(b, bots'[b], now') /\ Chosen(b, bots'[b])
  BY <1>1 DEF MarketInv
<1>4. CASE script.cli # "up"
  <2>1. /\ task.state = "None" /\ refusals = {} /\ now = 0 /\ Early
        /\ (\A b \in Bettors : bots[b] = Idle) /\ \A r \in Funded : spent[r] = 0
    BY <1>4 DEF MarketInv, InOrder, Early
  <2>2. InOrder' /\ RefusedForCause'
    BY <1>1, <2>1 DEF InOrder, RefusedForCause, Early
  <2>3. Covered'
    <3>1. CASE script'.cli = "up"
      <4>1. script.cli = "register" /\ UNCHANGED <<usdc, stops>>
        BY <1>1, <1>4, <3>1, UpOnlyMines
      <4>2. stops = 0 => \A r \in ToSet(NEEDS_USDC) : usdc[r] >= USDC_EACH
        BY <4>1 DEF SetupInv, UsdcGiven
      <4>3. \A r \in ToSet(NEEDS_USDC) : usdc[r] \in Nat /\ spent[r] = 0
        BY <2>1, Who DEF SetupInv, Money
      <4> QED
        BY <1>1, <4>1, <4>2, <4>3 DEF Covered
    <3>2. CASE script'.cli # "up"
      BY <3>2 DEF Covered
    <3> QED
      BY <3>1, <3>2
  <2> QED
    BY <1>2, <1>3, <2>2, <2>3 DEF MarketInv
<1>5. CASE script.cli = "up"
  <2>1. PICK i \in DOMAIN mempool : SetupMines(i)
    BY <1>1, <1>5, UpOnlyMines
  <2>2. /\ script'.cli = "up" /\ UNCHANGED <<map, stops>>
        /\ owner' = owner \/ \E x \in Roles \cup {"other"} : owner' = Append(owner, x)
    <3>1. mempool[i].op = "register" => mempool[i].role \in Roles
      BY Txs DEF SetupInv
    <3> QED
      BY <1>5, <2>1, <3>1 DEF SetupMines, setupBounds
  <2>3. \A r \in Funded : usdc[r] \in Nat /\ usdc'[r] \in Nat /\ usdc'[r] >= usdc[r]
    BY <2>1, MiningPays
  <2>4. \A r \in Roles : Controls(r)' <=> Controls(r)
    <3>1. ASSUME NEW r \in Roles, NEW id, id = map[r] PROVE id \in AgentsOf(r)' <=> id \in AgentsOf(r)
      <4>1. id \in DOMAIN owner
        BY <1>5, <3>1 DEF SetupInv, Entered
      <4>2. owner' = owner \/ \E x \in Roles \cup {"other"} :
               owner' = Append(owner, x) /\ owner \in Seq(Roles \cup {"other"})
        BY <2>2 DEF SetupInv, Owners
      <4>3. id \in DOMAIN owner' /\ owner'[id] = owner[id]
        BY <4>1, <4>2, Appended
      <4> QED
        BY <4>1, <4>3 DEF AgentsOf
    <3> QED
      BY <2>2, <3>1 DEF Controls
  <2>5. InOrder'
    <3>1. Controls("worker")' <=> Controls("worker")
      BY <2>4, Who
    <3>2. InOrder
      BY DEF MarketInv
    <3> QED
      BY <1>1, <1>5, <2>2, <3>1, <3>2 DEF InOrder, Early
  <2>6. Covered'
    <3>1. ToSet(NEEDS_USDC) \subseteq Funded /\ USDC_EACH \in Nat
      BY Who
    <3>2. spent \in [Funded -> Int] /\ Covered
      BY DEF MarketInv, MarketShape
    <3> QED
      BY <1>1, <1>5, <2>2, <2>3, <3>1, <3>2 DEF Covered
  <2>7. RefusedForCause'
    <3>1. spent \in [Funded -> Int]
      BY DEF MarketInv, MarketShape
    <3> QED
      BY <1>1, <2>2, <2>4, <3>1, RefusalsStay
  <2> QED
    BY <1>2, <1>3, <2>5, <2>6, <2>7 DEF MarketInv
<1> QED
  BY <1>4, <1>5

\* A market is posted with a reward that the contract takes.
LEMMA PostsKeeps ==
    ASSUME AgentInv, NEW kind, NEW reward \in CustomRewards \cup {Usdc(100)},
           NEW slack \in Slacks \cup {DEMO_SLACK}, Posts(kind, reward, slack)
    PROVE  MarketInv'
<1>1. /\ script.cli = "up" /\ task.state = "None"
      /\ task' = [NoTask EXCEPT !.state = "Created", !.kind = kind, !.reward = reward, !.left = WINDOW + slack]
      /\ UNCHANGED <<setupVars, llm, hist, spent, paused, now, bots, refusals>>
  BY DEF Posts
<1>2. UNCHANGED <<owner, map, usdc, script, stops>>
  BY <1>1 DEF setupVars, wallets, setupBounds
<1>3. reward \in Nat /\ reward >= Usdc(1) /\ WINDOW + slack \in Int
  BY MoneyAssumption, TimeAssumption DEF Usdc
<1>4. /\ task'.state = "Created" /\ task'.reward = reward /\ DOMAIN task' = DOMAIN NoTask
      /\ task'.stake = 0 /\ task'.yes = 0 /\ task'.no = 0 /\ task'.left \in Int
  BY <1>1, <1>3 DEF NoTask
<1>5. MarketInv /\ MarketShape /\ InOrder /\ Covered
  BY DEF AgentInv, MarketInv
<1>6. Early /\ refusals = {} /\ now = 0 /\ \A b \in Bettors : bots[b] = Idle
  BY <1>1, <1>5 DEF InOrder, Early
<1>7. MarketShape'
  BY <1>1, <1>3, <1>4, <1>5 DEF MarketShape
<1>8. InOrder'
  BY <1>1, <1>2, <1>3, <1>4, <1>6 DEF InOrder, Early
<1>9. Covered' /\ RefusedForCause' /\ \A b \in Bettors : Timely(b, bots'[b], now') /\ Chosen(b, bots'[b])
  BY <1>1, <1>2, <1>5, <1>6 DEF MarketInv, Covered, RefusedForCause
<1> QED
  BY <1>7, <1>8, <1>9 DEF MarketInv

\* A step that pays nobody, and only moves the market on.
LEMMA MovesOn ==
    ASSUME AgentInv, UNCHANGED <<setupVars, llm, hist, spent, now, bots, refusals>>, paused' \in BOOLEAN,
           DOMAIN task' = DOMAIN task, task'.kind = task.kind, task'.reward = task.reward,
           task'.left = task.left, task'.stake = task.stake, task'.yes = task.yes, task'.no = task.no,
           \/ task'.state = task.state
           \/ task.state = "Created" /\ task'.state = "Taken" /\ ~HasSolver(task.kind)
           \/ /\ task.state \in {"Open", "Delivered"} /\ task'.state \in {"Delivered", "Settled"}
              /\ now >= WINDOW \/ task.left < WINDOW \/ task.state = "Delivered"
    PROVE  MarketInv'
<1>1. /\ UNCHANGED <<owner, map, usdc, script, stops>>
      /\ MarketInv /\ MarketShape /\ InOrder /\ Covered
  BY DEF setupVars, wallets, setupBounds, AgentInv, MarketInv
<1>2. MarketShape'
  BY <1>1 DEF MarketShape
<1>3. InOrder'
  <2>1. Controls("worker")' = Controls("worker")
    BY <1>1 DEF Controls, AgentsOf
  <2> QED
    BY <1>1, <2>1 DEF InOrder, Early
<1>4. Covered' /\ \A b \in Bettors : Timely(b, bots'[b], now') /\ Chosen(b, bots'[b])
  BY <1>1 DEF MarketInv, Covered
<1>5. RefusedForCause'
  <2>1. spent' \in [Funded -> Int] /\ \A r \in Funded : spent'[r] >= spent[r]
    BY <1>1 DEF MarketShape
  <2>2. \A r \in Roles : Controls(r)' <=> Controls(r)
    BY <1>1 DEF Controls, AgentsOf
  <2> QED
    BY <1>1, <2>1, <2>2, RefusalsStay
<1> QED
  BY <1>2, <1>3, <1>4, <1>5 DEF MarketInv

\* Another worker takes an open job.
LEMMA LosesKeeps ==
    ASSUME AgentInv, Loses
    PROVE  MarketInv'
<1>1. /\ task.state = "Created" /\ ~HasSolver(task.kind) /\ task' = [task EXCEPT !.state = "Taken"]
      /\ UNCHANGED <<setupVars, llm, hist, spent, paused, now, bots, refusals>>
  BY DEF Loses
<1>2. DOMAIN task = DOMAIN NoTask /\ paused \in BOOLEAN
  BY DEF AgentInv, MarketInv, MarketShape
<1>3. /\ DOMAIN task' = DOMAIN task /\ task'.kind = task.kind /\ task'.reward = task.reward
      /\ task'.left = task.left /\ task'.stake = task.stake /\ task'.yes = task.yes /\ task'.no = task.no
      /\ task'.state = "Taken"
  BY <1>1, <1>2 DEF NoTask
<1> QED
  BY <1>1, <1>2, <1>3, MovesOn

\* The owner's pause, the demo's look, and steps of somebody else.
LEMMA OnlookersKeep ==
    ASSUME AgentInv, UNCHANGED <<setupVars, llm, hist, spent, task, now, bots, refusals>>,
           paused' = paused \/ paused' = ~paused
    PROVE  MarketInv'
<1>1. paused' \in BOOLEAN
  BY DEF AgentInv, MarketInv, MarketShape
<1> QED
  BY <1>1, MovesOn

\* The worker delivers after the cutoff.
LEMMA DeliversKeeps ==
    ASSUME AgentInv, Delivers
    PROVE  MarketInv'
<1>1. /\ task.state = "Open" /\ now >= WINDOW /\ task' = [task EXCEPT !.state = "Delivered"]
      /\ UNCHANGED <<setupVars, llm, hist, spent, paused, now, bots, refusals>>
  <2>1. WINDOW <= now /\ now \in Int /\ WINDOW \in Int
    BY TimeAssumption DEF Delivers, AgentInv, MarketInv, MarketShape
  <2> QED
    BY <2>1 DEF Delivers
<1>2. DOMAIN task = DOMAIN NoTask /\ paused \in BOOLEAN
  BY DEF AgentInv, MarketInv, MarketShape
<1>3. /\ DOMAIN task' = DOMAIN task /\ task'.kind = task.kind /\ task'.reward = task.reward
      /\ task'.left = task.left /\ task'.stake = task.stake /\ task'.yes = task.yes /\ task'.no = task.no
      /\ task'.state = "Delivered"
  BY <1>1, <1>2 DEF NoTask
<1> QED
  BY <1>1, <1>2, <1>3, MovesOn

\* A verdict, or a timeout that is past the cutoff or the deadline, ends the market.
LEMMA SettleKeeps ==
    ASSUME AgentInv, NEW outcome, NEW rule, NEW suite, NEW score, Settle(outcome, rule, suite, score),
           \/ task.state = "Open" /\ (now > task.left \/ now >= WINDOW)
           \/ task.state = "Delivered"
    PROVE  MarketInv'
<1>1. /\ task' = [task EXCEPT !.state = "Settled", !.outcome = outcome, !.rule = rule,
                              !.suite = suite, !.score = score]
      /\ UNCHANGED <<setupVars, llm, hist, spent, paused, now, bots, refusals>>
  BY DEF Settle
<1>2. DOMAIN task = DOMAIN NoTask /\ paused \in BOOLEAN
  BY DEF AgentInv, MarketInv, MarketShape
<1>3. /\ DOMAIN task' = DOMAIN task /\ task'.kind = task.kind /\ task'.reward = task.reward
      /\ task'.left = task.left /\ task'.stake = task.stake /\ task'.yes = task.yes /\ task'.no = task.no
      /\ task'.state = "Settled"
  BY <1>1, <1>2 DEF NoTask
<1>4. now >= WINDOW \/ task.left < WINDOW \/ task.state = "Delivered"
  <2>1. now \in Int /\ task.left \in Int /\ WINDOW \in Int
    BY TimeAssumption DEF AgentInv, MarketInv, MarketShape
  <2> QED
    BY <2>1
<1> QED
  BY <1>1, <1>2, <1>3, <1>4, MovesOn

LEMMA SettlesKeeps ==
    ASSUME AgentInv, Validates \/ TimesOut
    PROVE  MarketInv'
<1>1. \E outcome, rule, suite, score : Settle(outcome, rule, suite, score)
  BY DEF Validates, TimesOut, ByScore
<1>2. \/ task.state = "Open" /\ (now > task.left \/ now >= WINDOW)
      \/ task.state = "Delivered"
  BY DEF Validates, TimesOut
<1> QED
  BY <1>1, <1>2, SettleKeeps

\* A second goes by for each bettor.
LEMMA TimePassesKeeps ==
    ASSUME AgentInv, TimePasses
    PROVE  MarketInv'
<1>1. /\ task.state = "Open" /\ now' = now + 1 /\ refusals' = {}
      /\ bots' = [b \in Bettors |->
                    IF Busy(b) THEN [bots[b] EXCEPT !.slow = @ + 1]
                    ELSE IF bots[b].due > 0 THEN [bots[b] EXCEPT !.due = @ - 1] ELSE bots[b]]
      /\ UNCHANGED <<setupVars, llm, hist, spent, task, paused, demo>>
  BY DEF TimePasses
<1>2. /\ UNCHANGED <<owner, map, usdc, script, stops>>
      /\ MarketInv /\ MarketShape /\ InOrder /\ Covered
  BY <1>1 DEF setupVars, wallets, setupBounds, AgentInv, MarketInv
<1>3. bots \in [Bettors -> BotRecord] /\ now \in Nat
  BY <1>2 DEF MarketShape
<1>4. ASSUME NEW b \in Bettors
      PROVE  bots'[b] \in BotRecord /\ Timely(b, bots'[b], now') /\ Chosen(b, bots'[b])
  <2>1. /\ Timely(b, bots[b], now) /\ Chosen(b, bots[b]) /\ bots[b] \in BotRecord
        /\ bots'[b] = IF Busy(b) THEN [bots[b] EXCEPT !.slow = @ + 1]
                      ELSE IF bots[b].due > 0 THEN [bots[b] EXCEPT !.due = @ - 1] ELSE bots[b]
    BY <1>1, <1>2, <1>3 DEF MarketInv
  <2>2. /\ Busy(b) \in BOOLEAN
        /\ Busy(b) <=> (bots[b].at = "polling" /\ bots[b].due = 0) \/ bots[b].at \in {"reading", "placing"}
    BY DEF Busy, Asks
  <2> DEFINE bot == bots[b]
             busy == Busy(b)
  <2>3. bots'[b] \in BotRecord /\ Timely(b, bots'[b], now + 1)
    <3>1. bot \in BotRecord /\ Timely(b, bot, now) /\ busy \in BOOLEAN /\ now \in Nat
          /\ (busy <=> (bot.at = "polling" /\ bot.due = 0) \/ bot.at \in {"reading", "placing"})
          /\ bots'[b] = IF busy THEN [bot EXCEPT !.slow = @ + 1]
                        ELSE IF bot.due > 0 THEN [bot EXCEPT !.due = @ - 1] ELSE bot
      BY <1>3, <2>1, <2>2
    <3> HIDE DEF bot, busy
    <3> QED
      BY <3>1, SecondPasses
  <2>4. /\ bots'[b].at = bots[b].at /\ bots'[b].choice = bots[b].choice
        /\ bots'[b].source = bots[b].source /\ bots'[b].read = bots[b].read
    BY <2>1 DEF BotRecord
  <2>5. Chosen(b, bots'[b])
    BY <2>1, <2>4 DEF Chosen
  <2> QED
    BY <1>1, <2>3, <2>5
<1>5. bots' \in [Bettors -> BotRecord]
  BY <1>1, <1>4
<1>6. MarketShape'
  BY <1>1, <1>2, <1>3, <1>5 DEF MarketShape
<1>7. InOrder'
  <2>1. Controls("worker")' = Controls("worker")
    BY <1>2 DEF Controls, AgentsOf
  <2> QED
    BY <1>1, <1>2, <2>1 DEF InOrder, Early
<1>8. Covered' /\ RefusedForCause'
  BY <1>1, <1>2 DEF Covered, RefusedForCause
<1> QED
  BY <1>4, <1>6, <1>7, <1>8 DEF MarketInv

\* One bettor moves; the others, and what is said of the market, stay.
LEMMA BettorMoves ==
    ASSUME AgentInv, MarketFrame, UNCHANGED <<llm, hist, paused, now>>, ~Early,
           NEW b \in Bettors, NEW bot \in BotRecord, Becomes(b, bot),
           Timely(b, bot, now), Chosen(b, bot),
           usdc' \in [Funded -> Nat], spent' \in [Funded -> Int],
           \A r \in Funded : usdc'[r] + spent'[r] = usdc[r] + spent[r],
           DOMAIN task' = DOMAIN task, task'.state = task.state, task'.kind = task.kind,
           task'.reward = task.reward, task'.left = task.left, task'.stake = task.stake,
           task'.yes \in Nat, task'.no \in Nat, task'.yes >= task.yes,
           \A r \in refusals' : r.who \in {"worker"} \cup Bettors, RefusedForCause'
    PROVE  MarketInv'
<1>1. /\ UNCHANGED <<owner, map, script, stops>>
      /\ MarketInv /\ MarketShape /\ InOrder /\ Covered
  BY DEF MarketFrame, setupBounds, AgentInv, MarketInv
<1>2. /\ bots' \in [Bettors -> BotRecord]
      /\ \A c \in Bettors : bots'[c] = IF c = b THEN bot ELSE bots[c]
  BY <1>1 DEF MarketShape, Becomes
<1>3. MarketShape'
  BY <1>1, <1>2 DEF MarketShape
<1>4. InOrder'
  <2>1. Controls("worker")' = Controls("worker")
    BY <1>1 DEF Controls, AgentsOf
  <2>2. task.yes \in Nat /\ task.yes > 0 /\ task.state # "None" /\ task.state # "Created" /\ task.state # "Taken"
    BY <1>1 DEF InOrder, MarketShape, Early
  <2> QED
    BY <1>1, <2>1, <2>2 DEF InOrder, Early
<1>5. Covered'
  BY <1>1, Who DEF Covered
<1>6. \A c \in Bettors : Timely(c, bots'[c], now') /\ Chosen(c, bots'[c])
  BY <1>1, <1>2 DEF MarketInv
<1> QED
  BY <1>3, <1>4, <1>5, <1>6 DEF MarketInv

\* A bettor moves that asks nothing of the contract, whatever it pays for.
LEMMA BettorReads ==
    ASSUME AgentInv, MarketFrame, UNCHANGED <<llm, hist, task, paused, now, refusals>>, ~Early,
           NEW b \in Bettors, NEW bot \in BotRecord, Becomes(b, bot),
           Timely(b, bot, now), Chosen(b, bot),
           \/ UNCHANGED <<usdc, spent>>
           \/ \E amount \in Nat : amount <= usdc[b] /\ Pays(b, amount)
    PROVE  MarketInv' /\ usdc' \in [Funded -> Nat]
<1>1. /\ MarketInv /\ MarketShape /\ usdc \in [Funded -> Nat] /\ spent \in [Funded -> Int] /\ b \in Funded
      /\ UNCHANGED <<owner, map, stops>>
  BY Who DEF AgentInv, MarketInv, MarketShape, SetupInv, Money, MarketFrame, setupBounds
<1>2. /\ usdc' \in [Funded -> Nat] /\ spent' \in [Funded -> Int]
      /\ \A r \in Funded : usdc'[r] + spent'[r] = usdc[r] + spent[r] /\ spent'[r] >= spent[r]
  <2>1. CASE UNCHANGED <<usdc, spent>>
    BY <1>1, <2>1
  <2>2. CASE \E amount \in Nat : amount <= usdc[b] /\ Pays(b, amount)
    BY <1>1, <2>2, PaysFrom
  <2> QED
    BY <2>1, <2>2
<1>3. RefusedForCause'
  <2>1. \A r \in Roles : Controls(r)' <=> Controls(r)
    BY <1>1 DEF Controls, AgentsOf
  <2> QED
    BY <1>1, <1>2, <2>1, RefusalsStay
<1>4. /\ task.yes \in Nat /\ task.no \in Nat /\ task.yes >= task.yes
      /\ \A r \in refusals' : r.who \in {"worker"} \cup Bettors
  BY <1>1 DEF MarketShape
<1> QED
  BY <1>2, <1>3, <1>4, BettorMoves

\* A poll is in time, or was lost.
LEMMA PollsKeeps ==
    ASSUME AgentInv, NEW b \in Bettors, Polls(b)
    PROVE  MarketInv'
<1> DEFINE old == bots[b]
           time == now
           seen == IF old.seen < 0 THEN time ELSE old.seen
           saw == [old EXCEPT !.seen = seen]
           late == [Counted(old) EXCEPT !.at = "missed"]
           reads == [Counted(saw) EXCEPT !.at = "reading"]
<1>1. /\ task.state = "Open" /\ old.at = "polling" /\ old.due = 0
      /\ UNCHANGED <<setupVars, llm, hist, spent, task, paused, now, refusals, demo>>
      /\ \/ TooLate /\ Becomes(b, late)
         \/ ~TooLate /\ time < seen + DelayFor(b, seen) /\ Becomes(b, Sleeps(saw))
         \/ ~TooLate /\ Becomes(b, reads)
  BY DEF Polls, Asks
<1>2. /\ MarketFrame /\ UNCHANGED <<usdc, spent>> /\ ~Early
      /\ old \in BotRecord /\ time \in Nat /\ Timely(b, old, time)
  BY <1>1 DEF setupVars, wallets, MarketFrame, Early, AgentInv, MarketInv, MarketShape
<1>3. TooLate <=> WINDOW <= time + MARGIN
  BY DEF TooLate
<1>4. ~TooLate <=> time + MARGIN < WINDOW
  <2>1. {WINDOW, MARGIN} \subseteq Nat
    BY Clocks
  <2> QED
    BY <1>2, <1>3, <2>1
<1> HIDE DEF old, time
<1>5. /\ WINDOW <= time + MARGIN => late \in BotRecord /\ Timely(b, late, time)
      /\ time + MARGIN < WINDOW /\ time < seen + DelayFor(b, seen) =>
            Sleeps(saw) \in BotRecord /\ Timely(b, Sleeps(saw), time)
      /\ time + MARGIN < WINDOW => reads \in BotRecord /\ Timely(b, reads, time)
  BY <1>1, <1>2, PollsInTime
<1>6. PICK bot \in BotRecord : Timely(b, bot, time) /\ Becomes(b, bot) /\ bot.at # "placing"
  <2>1. CASE TooLate /\ Becomes(b, late)
    <3>1. late.at = "missed"
      BY <1>2, CountedBot DEF BotRecord
    <3> QED
      BY <1>3, <1>5, <2>1, <3>1
  <2>2. CASE ~TooLate /\ time < seen + DelayFor(b, seen) /\ Becomes(b, Sleeps(saw))
    <3>1. Sleeps(saw).at = "polling" \/ saw \notin BotRecord
      BY CountedBot
    <3>2. saw \in BotRecord
      BY <1>2 DEF BotRecord
    <3> QED
      BY <1>4, <1>5, <2>2, <3>1, <3>2
  <2>3. CASE ~TooLate /\ Becomes(b, reads)
    <3>1. saw \in BotRecord
      BY <1>2 DEF BotRecord
    <3>2. reads.at = "reading"
      BY <3>1, CountedBot DEF BotRecord
    <3> QED
      BY <1>4, <1>5, <2>3, <3>2
  <2> QED
    BY <1>1, <2>1, <2>2, <2>3
<1>7. Chosen(b, bot)
  BY <1>6 DEF Chosen
<1> QED
  BY <1>1, <1>2, <1>6, <1>7, BettorReads DEF time

\* A read that fails is tried again after a sleep.
LEMMA ReadFailsKeeps ==
    ASSUME AgentInv, NEW b \in Bettors, ReadFails(b)
    PROVE  MarketInv' /\ script.cli = "up" /\ MarketFrame /\ usdc' \in [Funded -> Nat]
<1> DEFINE bot == [Sleeps(bots[b]) EXCEPT !.failed = @ + 1]
<1>1. /\ MarketFrame /\ UNCHANGED <<llm, hist, task, paused, now, refusals, demo>>
      /\ bots[b].at \in {"polling", "reading"}
      /\ task.state = "Open" \/ bots[b].at = "reading"
      /\ Becomes(b, bot)
      /\ \E paid \in IF bots[b].at = "reading" THEN Purchases(b) ELSE {0} : Pays(b, paid)
  BY DEF ReadFails, MarketFrame, Asks
<1>2. /\ InOrder /\ bots[b] \in BotRecord /\ now \in Nat /\ Timely(b, bots[b], now)
      /\ usdc[b] \in Nat
  BY Who DEF AgentInv, MarketInv, MarketShape, SetupInv, Money
<1>3. ~Early /\ script.cli = "up"
  BY <1>1, <1>2 DEF InOrder, Early, Idle
<1>4. bot \in BotRecord /\ bot.at = "polling"
  BY <1>2, FailedBot
<1>5. Timely(b, bot, now)
  BY <1>1, <1>2, FailsInTime
<1> HIDE DEF bot
<1>6. Chosen(b, bot)
  BY <1>4 DEF Chosen
<1>7. \E amount \in Nat : amount <= usdc[b] /\ Pays(b, amount)
  <2>1. \A paid \in Purchases(b) : paid \in Nat /\ paid <= usdc[b]
    BY MoneyAssumption DEF Purchases, Price
  <2> QED
    BY <1>1, <1>2, <2>1
<1> QED
  BY <1>1, <1>3, <1>4, <1>5, <1>6, <1>7, BettorReads

Placed(slow, choice, source, read) ==
    [Idle EXCEPT !.at = "placing", !.slow = slow, !.choice = choice, !.source = source, !.read = read]

\* A bettor that has decided is well formed.
LEMMA PlacingBot ==
    ASSUME NEW slow \in Nat, NEW read \in [yes : Nat, no : Nat], NEW source \in {"rule", "gemini"},
           NEW choice \in [action : {"bet"}, side : {"Yes", "No"}, amount : Nat]
    PROVE  LET bot == Placed(slow, choice, source, read)
           IN  /\ bot \in BotRecord /\ bot.at = "placing" /\ bot.slow = slow /\ bot.choice = choice
               /\ bot.source = source /\ bot.read = read
<1> DEFINE b1 == [Idle EXCEPT !.at = "placing"]
           b2 == [b1 EXCEPT !.slow = slow]
           b3 == [b2 EXCEPT !.choice = choice]
           b4 == [b3 EXCEPT !.source = source]
           b5 == [b4 EXCEPT !.read = read]
<1>1. b1 \in BotRecord /\ b1.at = "placing"
  BY IdleBot DEF BotRecord
<1> HIDE DEF b1
<1>2. b2 \in BotRecord /\ b2.at = "placing" /\ b2.slow = slow
  BY <1>1 DEF BotRecord
<1> HIDE DEF b2
<1>3. b3 \in BotRecord /\ b3.at = "placing" /\ b3.slow = slow /\ b3.choice = choice
  BY <1>2 DEF BotRecord
<1> HIDE DEF b3
<1>4. b4 \in BotRecord /\ b4.at = "placing" /\ b4.slow = slow /\ b4.choice = choice /\ b4.source = source
  BY <1>3 DEF BotRecord
<1> HIDE DEF b4
<1>5. /\ b5 \in BotRecord /\ b5.at = "placing" /\ b5.slow = slow /\ b5.choice = choice
      /\ b5.source = source /\ b5.read = read
  BY <1>4 DEF BotRecord
<1> QED
  BY <1>5 DEF Placed, b4, b3, b2, b1

\* A decision is within limits, and the mirror's rule follows what it read.
LEMMA DecidesKeeps ==
    ASSUME AgentInv, NEW b \in Bettors, Decides(b)
    PROVE  MarketInv' /\ script.cli = "up" /\ MarketFrame /\ usdc' \in [Funded -> Nat]
<1>1. /\ MarketFrame /\ UNCHANGED <<llm, hist, task, paused, now, refusals, demo>>
      /\ bots[b].at = "reading" /\ Price(b) <= usdc[b] /\ Pays(b, Price(b))
  BY DEF Decides, MarketFrame
<1>2. PICK d \in Decisions(b) :
          Becomes(b, IF d.choice.action = "abstain" THEN [Idle EXCEPT !.at = "done"]
                     ELSE [Idle EXCEPT !.at = "placing", !.slow = bots[b].slow,
                              !.choice = d.choice, !.source = d.source, !.read = Pools])
  BY DEF Decides
<1>3. /\ MarketShape /\ InOrder /\ bots[b] \in BotRecord /\ now \in Nat /\ Timely(b, bots[b], now)
      /\ bots[b].slow \in Nat
  BY DEF AgentInv, MarketInv, MarketShape, BotRecord
<1>4. ~Early /\ script.cli = "up" /\ task.yes > 0
  BY <1>1, <1>3 DEF InOrder, Early, Idle
<1>5. /\ Within(d.choice) /\ d.source \in {"rule", "gemini"}
      /\ b = "bettorMirror" /\ d.source = "rule" => d.choice = MirrorDecision(PBps(Pools))
  BY <1>3, DecisionsWithin
<1>6. Price(b) \in Nat
  BY MoneyAssumption DEF Price
<1>7. Pools \in [yes : Nat, no : Nat] /\ Pools.yes = task.yes
  BY <1>3 DEF MarketShape, Pools
<1>8. PICK bot \in BotRecord : Becomes(b, bot) /\ Timely(b, bot, now) /\ Chosen(b, bot)
  <2>1. CASE d.choice.action = "abstain"
    <3> DEFINE bot == [Idle EXCEPT !.at = "done"]
    <3>1. bot \in BotRecord /\ bot.at = "done" /\ Becomes(b, bot)
      BY <1>2, <2>1, IdleBot
    <3> HIDE DEF bot
    <3> QED
      BY <3>1 DEF Timely, Chosen
  <2>2. CASE d.choice.action # "abstain"
    <3> DEFINE bot == Placed(bots[b].slow, d.choice, d.source, Pools)
    <3>1. Becomes(b, bot)
      BY <1>2, <2>2 DEF Placed
    <3>2. /\ d.choice \in [action : {"bet"}, side : {"Yes", "No"}, amount : Nat]
          /\ d.choice.amount \in MIN_BET..MAX_BET
      BY <1>5, <2>2 DEF Within, Abstain
    <3>3. /\ bot \in BotRecord /\ bot.at = "placing" /\ bot.slow = bots[b].slow /\ bot.choice = d.choice
          /\ bot.source = d.source /\ bot.read = Pools
      BY <1>3, <1>5, <1>7, <3>2, PlacingBot
    <3> HIDE DEF bot
    <3>4. Timely(b, bot, now)
      BY <1>1, <1>3, <3>3 DEF Timely
    <3>5. Chosen(b, bot)
      BY <1>4, <1>5, <1>7, <3>2, <3>3 DEF Chosen
    <3> QED
      BY <3>1, <3>3, <3>4, <3>5
  <2> QED
    BY <2>1, <2>2
<1> QED
  BY <1>1, <1>4, <1>6, <1>8, BettorReads

\* A bet that reaches the chain is taken, or refused for its cause.
LEMMA PlacesKeeps ==
    ASSUME AgentInv, NEW b \in Bettors, Places(b)
    PROVE  MarketInv' /\ script.cli = "up" /\ MarketFrame /\ usdc' \in [Funded -> Nat]
<1> DEFINE old == bots[b]
           bet == old.choice
           bot == [Idle EXCEPT !.at = "done"]
<1>1. /\ MarketFrame /\ UNCHANGED <<llm, hist, paused, now, demo>>
      /\ old.at = "placing" /\ Becomes(b, bot)
      /\ IF BetRefused(b) # "no"
         THEN Refuses(b, BetRefused(b), old.slow) /\ UNCHANGED <<usdc, spent, task>>
         ELSE /\ task' = IF bet.side = "Yes" THEN [task EXCEPT !.yes = @ + bet.amount]
                                             ELSE [task EXCEPT !.no = @ + bet.amount]
              /\ Pays(b, bet.amount)
              /\ refusals' = {}
  BY DEF Places, MarketFrame
<1>2. /\ MarketShape /\ InOrder /\ Covered /\ old \in BotRecord /\ now \in Nat
      /\ Timely(b, old, now) /\ Chosen(b, old)
      /\ usdc \in [Funded -> Nat] /\ spent \in [Funded -> Int]
      /\ stops \in Nat /\ map \in [Roles -> Nat]
  BY DEF AgentInv, MarketInv, MarketShape, SetupInv, Money, MempoolShape, Owners
<1>3. /\ ~Early /\ script.cli = "up" /\ Controls("worker") /\ task.state # "None"
      /\ task.state \in {"Open", "Delivered", "Settled"}
  BY <1>1, <1>2 DEF InOrder, Early, Idle, MarketShape
<1>4. bot \in BotRecord /\ bot.at = "done"
  BY IdleBot
<1> HIDE DEF bot
<1>5. Timely(b, bot, now) /\ Chosen(b, bot)
  BY <1>4 DEF Timely, Chosen
<1>6. /\ bet.amount \in Nat /\ bet.amount >= MIN_BET /\ bet.amount <= MAX_BET
      /\ bet.side \in {"Yes", "No"} /\ now + MARGIN < WINDOW + old.slow
  BY <1>1, <1>2, Who DEF Chosen, Timely, BotRecord
<1>7. /\ b \in Funded /\ b \in Roles /\ b # "worker" /\ b # "validator" /\ usdc[b] \in Nat
      /\ b \in {"worker"} \cup Bettors /\ b \in ToSet(NEEDS_USDC)
      /\ MAX_BET \in Nat /\ MIN_BET \in Nat /\ CAP \in Nat /\ USDC_EACH \in Nat
      /\ WINDOW \in Nat /\ MARGIN \in Nat /\ old.slow \in Nat
      /\ task.yes \in Nat /\ task.no \in Nat /\ task.left \in Int
  BY <1>2, Who, Clocks DEF MarketShape, BotRecord
<1>8. CASE BetRefused(b) # "no"
  <2> DEFINE cause == BetRefused(b)
             left == USDC_EACH - spent[b]
             r == [who |-> b, cause |-> cause, took |-> old.slow]
  <2>1. refusals' = {r} /\ UNCHANGED <<usdc, spent, task>>
    BY <1>1, <1>8 DEF Refuses
  <2>2. \/ cause = "paused"
        \/ cause = "time" /\ (task.state # "Open" \/ now >= WINDOW)
        \/ cause = "controls" /\ ~Controls(b)
        \/ cause = "roles" /\ Banned(b)
        \/ cause = "cap" /\ PoolOf(bet.side) + bet.amount > CAP
        \/ cause = "funds" /\ usdc[b] < bet.amount
    BY <1>6, <1>7, <1>8 DEF BetRefused
  <2> HIDE DEF cause, old
  <2>3. cause = "time" => old.slow > MARGIN \/ task.left < WINDOW
    <3>1. task.state # "Open" => now >= WINDOW \/ task.left < WINDOW
      BY <1>2, <1>3 DEF InOrder
    <3> QED
      BY <1>2, <1>6, <1>7, <2>2, <3>1
  <2>4. cause = "roles" => \E s \in Roles \cap {b, "validator"} : ~Controls(s)
    <3>1. ASSUME Controls(b), bots[b].choice.side = "No", Entry(b) = Entry("worker") PROVE FALSE
      <4>1. map[b] = map["worker"] /\ owner[map[b]] = b /\ owner[map["worker"]] = "worker"
        BY <1>3, <1>7, <3>1, Who DEF Entry, Controls, AgentsOf
      <4> QED
        BY <1>7, <4>1
    <3>2. ASSUME Entry("validator") \in AgentsOf(b)
          PROVE  "validator" \in Roles /\ ~Controls("validator")
      <4>1. Entry("validator") \in DOMAIN owner /\ owner[Entry("validator")] = b
        BY <3>2 DEF AgentsOf
      <4>2. 0 \notin DOMAIN owner
        <5>1. owner \in Seq(Roles \cup {"other"})
          BY DEF AgentInv, SetupInv, Owners
        <5> QED
          BY <5>1
      <4>3. "validator" \in Roles /\ Entry("validator") = map["validator"]
        BY <4>1, <4>2 DEF Entry
      <4>4. ~Controls("validator")
        BY <1>7, <4>1, <4>3 DEF Controls, AgentsOf
      <4> QED
        BY <4>3, <4>4
    <3> QED
      BY <1>7, <2>2, <3>1, <3>2 DEF Banned
  <2>5. cause = "cap" => CAP < task.yes + MAX_BET \/ CAP < task.no + MAX_BET
    <3>1. PoolOf(bet.side) = task.yes \/ PoolOf(bet.side) = task.no
      BY DEF PoolOf
    <3> QED
      BY <1>6, <1>7, <2>2, <3>1
  <2>6. cause = "funds" => stops > 0 \/ left < MAX_BET
    <3>1. stops = 0 => usdc[b] + spent[b] >= USDC_EACH
      BY <1>2, <1>3, <1>7 DEF Covered
    <3>2. spent[b] \in Int /\ stops \in Nat
      BY <1>2, <1>7
    <3> QED
      BY <1>6, <1>7, <2>2, <3>1, <3>2
  <2>7. Controls(b)' = Controls(b) /\ \A s : Controls(s)' = Controls(s)
    BY <1>1 DEF MarketFrame, Controls, AgentsOf
  <2>8. UNCHANGED stops
    BY <1>1 DEF MarketFrame, setupBounds
  <2> HIDE DEF left
  <2>9. r.who = b /\ r.cause = cause /\ r.took = old.slow
    OBVIOUS
  <2> HIDE DEF r
  <2>10. RefusedForCause'
    <3>1. USDC_EACH - spent'[b] = left
      BY <2>1 DEF left
    <3>2. \/ cause = "paused"
          \/ cause = "controls" /\ ~Controls(b)'
          \/ cause = "roles" /\ \E s \in Roles \cap {b, "validator"} : ~Controls(s)'
          \/ cause = "funds" /\ (stops' > 0 \/ USDC_EACH - spent'[b] < MAX_BET)
          \/ cause = "cap" /\ (CAP < task'.yes + MAX_BET \/ CAP < task'.no + MAX_BET)
          \/ cause = "time" /\ (old.slow > MARGIN \/ task'.left < WINDOW)
      BY <2>1, <2>2, <2>3, <2>4, <2>5, <2>6, <2>7, <2>8, <3>1
    <3> QED
      BY <1>7, <2>1, <2>9, <3>2 DEF RefusedForCause
  <2>11. \A s \in refusals' : s.who \in {"worker"} \cup Bettors
    BY <1>7, <2>1, <2>9
  <2>12. \A s \in Funded : usdc'[s] + spent'[s] = usdc[s] + spent[s]
    BY <2>1
  <2>13. task'.yes >= task.yes /\ DOMAIN task' = DOMAIN task
    BY <1>7, <2>1
  <2>14. MarketInv'
    BY <1>1, <1>2, <1>3, <1>4, <1>5, <1>7, <2>1, <2>10, <2>11, <2>12, <2>13, BettorMoves
  <2> QED
    BY <1>1, <1>2, <1>3, <2>1, <2>14
<1>9. CASE BetRefused(b) = "no"
  <2>1. /\ task' = IF bet.side = "Yes" THEN [task EXCEPT !.yes = @ + bet.amount]
                                       ELSE [task EXCEPT !.no = @ + bet.amount]
        /\ Pays(b, bet.amount) /\ refusals' = {}
    BY <1>1, <1>9
  <2>2. bet.amount <= usdc[b]
    <3>1. ~(usdc[b] < bet.amount)
      BY <1>9 DEF BetRefused
    <3> QED
      BY <1>6, <1>7, <3>1
  <2>3. /\ usdc' \in [Funded -> Nat] /\ spent' \in [Funded -> Int]
        /\ \A s \in Funded : usdc'[s] + spent'[s] = usdc[s] + spent[s]
    BY <1>2, <1>6, <1>7, <2>1, <2>2, PaysFrom
  <2>4. DOMAIN task = DOMAIN NoTask
    BY <1>2 DEF MarketShape
  <2>5. /\ DOMAIN task' = DOMAIN task /\ task'.state = task.state /\ task'.kind = task.kind
        /\ task'.reward = task.reward /\ task'.left = task.left /\ task'.stake = task.stake
        /\ task'.yes \in Nat /\ task'.no \in Nat /\ task'.yes >= task.yes
    BY <1>6, <1>7, <2>1, <2>4 DEF NoTask
  <2>6. RefusedForCause' /\ \A s \in refusals' : s.who \in {"worker"} \cup Bettors
    BY <2>1 DEF RefusedForCause
  <2>7. MarketInv'
    BY <1>1, <1>3, <1>4, <1>5, <2>3, <2>5, <2>6, BettorMoves
  <2> QED
    BY <1>1, <1>3, <2>3, <2>7
<1> QED
  BY <1>8, <1>9

\* A stake is refused for its cause, or opens the market and starts the polls.
LEMMA AcceptsKeeps ==
    ASSUME AgentInv, NEW conf \in Confidences \cup {12, 25, 45}, NEW after \in Delays, Accepts(conf, after)
    PROVE  MarketInv' /\ script.cli = "up" /\ MarketFrame /\ usdc' \in [Funded -> Nat]
<1> DEFINE stake == StakeFor(task.reward, conf)
<1>1. /\ task.state \in {"Created", "Taken"} /\ MarketFrame /\ UNCHANGED <<llm, hist, paused, now, demo>>
      /\ IF StakeRefused(stake, after) # "no"
         THEN Refuses("worker", StakeRefused(stake, after), after) /\ UNCHANGED <<usdc, spent, task, bots>>
         ELSE /\ task' = [task EXCEPT !.state = "Open", !.left = @ - after, !.stake = stake, !.yes = stake]
              /\ Pays("worker", stake)
              /\ \E running \in SUBSET Bettors : \E phase \in [running -> 0..POLL] :
                    bots' = [b \in Bettors |-> IF b \in running THEN [Idle EXCEPT !.due = phase[b]]
                                               ELSE [Idle EXCEPT !.at = "off"]]
              /\ refusals' = {}
  BY DEF Accepts, MarketFrame
<1>2. /\ MarketInv /\ MarketShape /\ InOrder /\ Covered
      /\ usdc \in [Funded -> Nat] /\ spent \in [Funded -> Int] /\ stops \in Nat
      /\ UNCHANGED <<owner, map, script, stops>>
  BY <1>1 DEF AgentInv, MarketInv, MarketShape, SetupInv, Money, MempoolShape, MarketFrame, setupBounds
<1>3. /\ script.cli = "up" /\ now = 0 /\ Early
      /\ task.reward \in Nat /\ task.reward >= Usdc(1)
      /\ task.state = "Taken" => ~HasSolver(task.kind)
  BY <1>1, <1>2 DEF InOrder, MarketShape, Early
<1>4. conf \in Nat /\ after \in Nat /\ USDC_EACH \in Nat /\ CAP \in Nat
  BY MoneyAssumption, TimeAssumption, Who
<1>5. /\ stake \in Nat /\ stake > 0 /\ stake >= MinSelfStake(task.reward) /\ 2 * stake <= task.reward
      /\ MinSelfStake(task.reward) \in Int
  <2>1. MinSelfStake(task.reward) \in Int
    BY <1>3, MoneyAssumption DEF MinSelfStake
  <2> QED
    BY <1>3, <1>4, <2>1, StakeWithin
<1> HIDE DEF stake
<1>6. "worker" \in Roles /\ "worker" \in Funded /\ usdc["worker"] \in Nat /\ spent["worker"] \in Int
  BY <1>2, Who
<1>7. CASE StakeRefused(stake, after) # "no"
  <2> DEFINE cause == StakeRefused(stake, after)
             r == [who |-> "worker", cause |-> cause, took |-> after]
  <2>1. refusals' = {r} /\ UNCHANGED <<usdc, spent, task, bots>>
    BY <1>1, <1>7 DEF Refuses
  <2>2. \/ cause = "paused"
        \/ cause = "taken" /\ task.state = "Taken"
        \/ cause = "roles" /\ Entry("worker") = Entry("validator")
        \/ cause = "late" /\ after > ACCEPT_WINDOW
        \/ cause = "controls" /\ ~Controls("worker")
        \/ cause = "cap" /\ stake > CAP
        \/ cause = "funds" /\ usdc["worker"] < stake
    BY <1>5, <1>7 DEF StakeRefused
  <2> HIDE DEF cause
  <2>3. cause = "roles" => \E s \in Roles \cap {"worker", "validator"} : ~Controls(s)
    <3>1. SUFFICES ASSUME cause = "roles", Controls("worker") PROVE "validator" \in Roles /\ ~Controls("validator")
      BY <1>6
    <3>2. Entry("worker") = Entry("validator") /\ Entry("worker") = map["worker"]
      BY <1>6, <2>2, <3>1 DEF Entry
    <3>3. map["worker"] > 0
      BY <1>3, <1>6 DEF AgentInv, SetupInv, Entered
    <3>4. "validator" \in Roles /\ map["validator"] = map["worker"]
      BY <3>2, <3>3 DEF Entry
    <3> QED
      BY <3>1, <3>4 DEF Controls, AgentsOf
  <2>4. cause = "funds" => stops > 0 \/ 2 * (USDC_EACH - spent["worker"]) < task.reward
    <3>1. stops = 0 => usdc["worker"] + spent["worker"] >= USDC_EACH
      BY <1>2, <1>3, Who DEF Covered
    <3> QED
      BY <1>2, <1>3, <1>4, <1>5, <1>6, <2>2, <3>1
  <2>5. cause = "cap" => task.reward > 2 * CAP
    BY <1>3, <1>4, <1>5, <2>2
  <2>6. \A s : Controls(s)' = Controls(s)
    BY <1>2 DEF Controls, AgentsOf
  <2>7. r.who = "worker" /\ r.cause = cause /\ r.took = after
    OBVIOUS
  <2> HIDE DEF r
  <2>8. RefusedForCause'
    <3>1. \/ cause = "paused"
          \/ cause = "taken" /\ ~HasSolver(task'.kind)
          \/ cause = "late" /\ after > ACCEPT_WINDOW
          \/ cause = "controls" /\ ~Controls("worker")'
          \/ cause = "roles" /\ \E s \in Roles \cap {"worker", "validator"} : ~Controls(s)'
          \/ cause = "funds" /\ (stops' > 0 \/ 2 * (USDC_EACH - spent'["worker"]) < task'.reward)
          \/ cause = "cap" /\ task'.reward > 2 * CAP
      BY <1>2, <1>3, <2>1, <2>2, <2>3, <2>4, <2>5, <2>6
    <3> QED
      BY <2>1, <2>7, <3>1 DEF RefusedForCause
  <2>9. MarketShape'
    BY <1>1, <1>2, <2>1, <2>7 DEF MarketShape
  <2>10. InOrder'
    <3>1. Controls("worker")' = Controls("worker")
      BY <2>6
    <3> QED
      BY <1>1, <1>2, <1>3, <2>1, <3>1 DEF InOrder, Early
  <2>11. Covered' /\ \A b \in Bettors : Timely(b, bots'[b], now') /\ Chosen(b, bots'[b])
    BY <1>1, <1>2, <2>1 DEF MarketInv, Covered
  <2> QED
    BY <1>1, <1>2, <1>3, <2>1, <2>8, <2>9, <2>10, <2>11 DEF MarketInv
<1>8. CASE StakeRefused(stake, after) = "no"
  <2>1. /\ task' = [task EXCEPT !.state = "Open", !.left = @ - after, !.stake = stake, !.yes = stake]
        /\ Pays("worker", stake) /\ refusals' = {}
    BY <1>1, <1>8
  <2>2. PICK running \in SUBSET Bettors : \E phase \in [running -> 0..POLL] :
           bots' = [b \in Bettors |-> IF b \in running THEN [Idle EXCEPT !.due = phase[b]]
                                      ELSE [Idle EXCEPT !.at = "off"]]
    BY <1>1, <1>8
  <2>3. PICK phase \in [running -> 0..POLL] :
           bots' = [b \in Bettors |-> IF b \in running THEN [Idle EXCEPT !.due = phase[b]]
                                      ELSE [Idle EXCEPT !.at = "off"]]
    BY <2>2
  <2>4. Controls("worker") /\ stake <= usdc["worker"]
    <3>1. Controls("worker") /\ ~(usdc["worker"] < stake)
      BY <1>8 DEF StakeRefused
    <3> QED
      BY <1>5, <1>6, <3>1
  <2>5. /\ usdc' \in [Funded -> Nat] /\ spent' \in [Funded -> Int]
        /\ \A s \in Funded : usdc'[s] + spent'[s] = usdc[s] + spent[s]
    BY <1>2, <1>5, <1>6, <2>1, <2>4, PaysFrom
  <2>6. /\ DOMAIN task = DOMAIN NoTask /\ task.left \in Int
        /\ task.no \in Nat
    BY <1>2 DEF MarketShape
  <2>7. /\ DOMAIN task' = DOMAIN task /\ task'.state = "Open" /\ task'.stake = stake /\ task'.yes = stake
        /\ task'.no = task.no /\ task'.reward = task.reward /\ task'.left \in Int
    <3>1. task.left - after \in Int
      BY <1>4, <2>6
    <3> QED
      BY <2>1, <2>6, <3>1 DEF NoTask
  <2>8. ASSUME NEW b \in Bettors
        PROVE  bots'[b] \in BotRecord /\ Timely(b, bots'[b], now') /\ Chosen(b, bots'[b])
    <3>1. POLL \in Nat /\ WINDOW \in Nat /\ WINDOW > 0 /\ now' = 0
      BY <1>1, <1>3, Clocks
    <3>2. CASE b \in running
      <4>1. phase[b] \in Nat /\ phase[b] <= POLL /\ bots'[b] = [Idle EXCEPT !.due = phase[b]]
        BY <2>3, <3>1, <3>2
      <4>2. /\ bots'[b] \in BotRecord /\ bots'[b].at = "polling" /\ bots'[b].due = phase[b]
            /\ bots'[b].seen = -1 /\ Behind(bots'[b]) = 0
        BY <4>1, IdleBot
      <4> QED
        BY <3>1, <4>1, <4>2 DEF Timely, Chosen
    <3>3. CASE b \notin running
      <4>1. bots'[b] \in BotRecord /\ bots'[b].at = "off"
        BY <2>3, <3>3, IdleBot
      <4> QED
        BY <4>1 DEF Timely, Chosen
    <3> QED
      BY <3>2, <3>3
  <2>9. MarketShape'
    <3>1. bots' \in [Bettors -> BotRecord]
      BY <2>3, <2>8
    <3> QED
      BY <1>1, <1>2, <1>3, <1>5, <2>1, <2>5, <2>6, <2>7, <3>1 DEF MarketShape
  <2>10. InOrder'
    <3>1. Controls("worker")'
      BY <1>2, <2>4 DEF Controls, AgentsOf
    <3> QED
      BY <1>2, <1>3, <1>5, <2>7, <3>1 DEF InOrder, Early
  <2>11. Covered'
    BY <1>2, <2>5, Who DEF Covered
  <2>12. RefusedForCause'
    BY <2>1 DEF RefusedForCause
  <2> QED
    BY <1>1, <1>3, <2>5, <2>8, <2>9, <2>10, <2>11, <2>12 DEF MarketInv
<1> QED
  BY <1>7, <1>8

\* What the market does leaves the bring-up as it was.
LEMMA SetupUntouched ==
    ASSUME AgentInv, UNCHANGED setupVars
    PROVE  SetupInv'
<1>1. usdc \in [Funded -> Nat] /\ UNCHANGED <<owner, map, gas, usdc, deployer, script, mempool, setupBounds>>
  BY DEF AgentInv, SetupInv, Money, setupVars, wallets
<1> QED
  BY <1>1, MarketKeepsSetup DEF AgentInv

\* The invariant of the fleet is inductive.
LEMMA StepKeepsAgentInv ==
    ASSUME AgentInv, [Next]_fleetVars
    PROVE  AgentInv'
<1>1. SetupInv /\ MarketInv
  BY DEF AgentInv
<1>2. CASE SetupNext /\ UNCHANGED marketVars
  BY <1>1, <1>2, SetupNextKeeps, SetupKeepsMarket DEF AgentInv
<1>3. ASSUME NEW kind, NEW reward \in CustomRewards \cup {Usdc(100)}, NEW slack \in Slacks \cup {DEMO_SLACK},
             Posts(kind, reward, slack)
      PROVE  AgentInv'
  <2>1. UNCHANGED setupVars
    BY <1>3 DEF Posts
  <2> QED
    BY <1>3, <2>1, PostsKeeps, SetupUntouched DEF AgentInv
<1>4. ASSUME NEW conf \in Confidences \cup {12, 25, 45}, NEW after \in Delays, Accepts(conf, after)
      PROVE  AgentInv'
  BY <1>1, <1>4, AcceptsKeeps, MarketKeepsSetup DEF AgentInv, MarketFrame
<1>5. ASSUME NEW b \in Bettors, Polls(b) PROVE AgentInv'
  <2>1. UNCHANGED setupVars
    BY <1>5 DEF Polls
  <2> QED
    BY <1>5, <2>1, PollsKeeps, SetupUntouched DEF AgentInv
<1>6. ASSUME NEW b \in Bettors, ReadFails(b) \/ Decides(b) \/ Places(b) PROVE AgentInv'
  BY <1>1, <1>6, ReadFailsKeeps, DecidesKeeps, PlacesKeeps, MarketKeepsSetup DEF AgentInv, MarketFrame
<1>7. CASE Loses \/ TimePasses \/ Delivers \/ Validates \/ TimesOut
  <2>1. UNCHANGED setupVars
    BY <1>7 DEF Loses, TimePasses, Delivers, Validates, TimesOut, ByScore, Settle
  <2> QED
    BY <1>7, <2>1, LosesKeeps, TimePassesKeeps, DeliversKeeps, SettlesKeeps, SetupUntouched DEF AgentInv
<1>8. CASE Pauses \/ DemoReads \/ UNCHANGED fleetVars
  <2>1. /\ UNCHANGED <<setupVars, llm, hist, spent, task, now, bots, refusals>>
        /\ paused' = paused \/ paused' = ~paused
    BY <1>8 DEF Pauses, DemoReads, fleetVars, marketVars
  <2> QED
    BY <2>1, OnlookersKeep, SetupUntouched DEF AgentInv
<1> QED
  BY <1>2, <1>3, <1>4, <1>5, <1>6, <1>7, <1>8 DEF Next

-----------------------------------------------------------------------------
(* Where it begins.                                                        *)

\* Nothing is pending in the beginning.
LEMMA NothingPending ==
    ASSUME mempool = <<>>, stops = 0, deploys = 0
    PROVE  /\ MempoolShape /\ Waited = {} /\ \A r : Pending(r) = {} /\ Sent(r) = 0
<1>1. mempool \in Seq(TxRecord) /\ DOMAIN mempool = {} /\ ToSet(mempool) = {}
  BY DEF ToSet
<1>2. MempoolShape
  BY <1>1 DEF MempoolShape
<1>3. Waited = {} /\ \A r : Pending(r) = {}
  BY <1>1 DEF Waited, Pending
<1> QED
  BY <1>2, <1>3, FS_EmptySet DEF Sent

\* The market's half of the invariant in the beginning.
LEMMA MarketBegins ==
    ASSUME llm \in BOOLEAN, hist \in [n : Nat, wins : Nat], Fresh, spent \in [Funded -> Int],
           script.cli # "up" => \A r \in Funded : spent[r] = 0,
           script.cli = "up" => \A r \in ToSet(NEEDS_USDC) : usdc[r] + spent[r] >= USDC_EACH
    PROVE  MarketInv
<1>1. /\ task = NoTask /\ paused = FALSE /\ now = 0 /\ refusals = {} /\ task.state = "None"
      /\ bots = [b \in Bettors |-> Idle]
  BY DEF Fresh, NoTask
<1>2. Idle \in BotRecord /\ Idle.at = "polling" /\ Idle.due = 0 /\ Idle.seen = -1 /\ Behind(Idle) = 0
  BY IdleBot DEF Idle
<1>3. MarketShape
  <2>1. /\ DOMAIN task = DOMAIN NoTask /\ task.reward \in Nat /\ task.stake \in Nat
        /\ task.yes \in Nat /\ task.no \in Nat /\ task.left \in Int
    BY <1>1 DEF NoTask
  <2>2. bots \in [Bettors -> BotRecord]
    BY <1>1, <1>2
  <2> QED
    BY <1>1, <2>1, <2>2 DEF MarketShape
<1>4. InOrder /\ Covered /\ RefusedForCause
  BY <1>1 DEF InOrder, Early, Covered, RefusedForCause
<1>5. \A b \in Bettors : Timely(b, bots[b], now) /\ Chosen(b, bots[b])
  <2>1. WINDOW \in Nat /\ POLL \in Nat
    BY Clocks
  <2> QED
    BY <1>1, <1>2, <2>1 DEF Timely, Chosen
<1> QED
  BY <1>3, <1>4, <1>5 DEF MarketInv

\* The ids that are taken are somebody else's.
LEMMA TheStrangers ==
    /\ Strangers \in Seq(Roles \cup {"other"}) /\ Len(Strangers) = TAKEN
    /\ \A id \in 1..TAKEN : Strangers[id] = "other"
BY Wallets DEF Strangers

\* A chain on which nothing of the fleet has been deployed.
LEMMA InitKeeps ==
    ASSUME Init
    PROVE  AgentInv
<1>1. /\ owner = Strangers /\ map = [r \in Roles |-> 0]
      /\ gas = [r \in Funded |-> 0] /\ usdc = [r \in Funded |-> 0] /\ deployer = Drip
      /\ script = Begin("deploy") /\ mempool = <<>>
      /\ stops = 0 /\ deploys = 0 /\ orphans = [r \in Roles |-> 0]
  BY DEF Init, SetupInit
<1>2. MempoolShape /\ Waited = {} /\ \A r : Pending(r) = {} /\ Sent(r) = 0
  BY <1>1, NothingPending
<1>3. /\ script.cli = "deploy" /\ script.i = 1 /\ script.at = "next"
      /\ script \in [cli : Clis, i : Nat \ {0}, at : {"next", "sending", "waiting", "stopped"}, n : Nat]
  BY <1>1, BeginsAt DEF Clis
<1>4. \A r \in Roles : AgentsOf(r) = {} /\ Held(r) = 0
  <2>1. \A r \in Roles : AgentsOf(r) = {}
    BY <1>1, TheStrangers, Wallets DEF AgentsOf
  <2> QED
    BY <2>1, FS_EmptySet DEF Held
<1>5. ScriptShape /\ Money /\ GasGiven /\ Entered /\ Simulated /\ UsdcGiven
  BY <1>1, <1>2, <1>3, Wallets DEF ScriptShape, Money, GasGiven, Entered, Simulated, UsdcGiven, In
<1>6. Owners
  BY <1>1, TheStrangers, Wallets DEF Owners
<1>7. Orphans
  BY <1>1, <1>2, <1>3, <1>4, Wallets DEF Orphans, In, Awaits
<1>8. MarketInv
  <2>1. llm \in BOOLEAN /\ hist \in [n : Nat, wins : Nat] /\ Fresh /\ spent = [r \in Funded |-> 0]
    BY DEF Init
  <2> QED
    BY <1>3, <2>1, MarketBegins
<1> QED
  BY <1>2, <1>5, <1>6, <1>7, <1>8 DEF AgentInv, SetupInv

\* A fleet that is up.
LEMMA InitUpKeeps ==
    ASSUME InitUp
    PROVE  AgentInv
<1> DEFINE at(r) == CHOOSE i \in DOMAIN FLEET : FLEET[i] = r
<1>1. /\ owner = Strangers \o FLEET /\ map = [r \in Roles |-> TAKEN + at(r)]
      /\ gas = [r \in Funded |-> IF r = RELAYER THEN RELAYER_GAS ELSE GAS]
      /\ spent \in Purses /\ usdc = [r \in Funded |-> USDC_EACH - spent[r]] /\ deployer = 0
      /\ script = Begin("up") /\ mempool = <<>>
      /\ stops = 0 /\ deploys = 0 /\ orphans = [r \in Roles |-> 0]
  BY DEF InitUp
<1>2. MempoolShape /\ Waited = {} /\ \A r : Pending(r) = {} /\ Sent(r) = 0
  BY <1>1, NothingPending
<1>3. /\ script.cli = "up" /\ script.i = 1 /\ script.at = "next"
      /\ script \in [cli : Clis, i : Nat \ {0}, at : {"next", "sending", "waiting", "stopped"}, n : Nat]
  BY <1>1, BeginsAt DEF Clis
<1>4. \A r \in Roles : at(r) \in 1..Len(FLEET) /\ FLEET[at(r)] = r
  <2>1. \A r \in Roles : \E i \in DOMAIN FLEET : FLEET[i] = r
    BY Wallets
  <2> QED
    BY <2>1, Wallets
<1> HIDE DEF at
<1>5. /\ Len(owner) = TAKEN + Len(FLEET) /\ DOMAIN owner = 1..(TAKEN + Len(FLEET))
      /\ \A id \in 1..TAKEN : owner[id] = "other"
      /\ \A i \in 1..Len(FLEET) : owner[TAKEN + i] = FLEET[i]
      /\ owner \in Seq(Roles \cup {"other"})
  <2>1. FLEET \in Seq(Roles \cup {"other"})
    <3>1. FLEET \in Seq(STRING \ {"other"}) /\ \A k \in 1..Len(FLEET) : FLEET[k] \in Roles
      BY Wallets, FleetAssumption
    <3> QED
      BY <3>1, Wallets
  <2> DEFINE before == Strangers
             all == before \o FLEET
  <2>2. /\ before \in Seq(Roles \cup {"other"}) /\ Len(before) = TAKEN
        /\ \A id \in 1..TAKEN : before[id] = "other"
    BY TheStrangers
  <2> HIDE DEF before
  <2>3. /\ all \in Seq(Roles \cup {"other"}) /\ Len(all) = Len(before) + Len(FLEET)
        /\ DOMAIN all = 1..(Len(before) + Len(FLEET))
        /\ \A i \in 1..Len(before) : all[i] = before[i]
        /\ \A i \in 1..Len(FLEET) : all[Len(before) + i] = FLEET[i]
    BY <2>1, <2>2
  <2>4. owner = all
    BY <1>1 DEF before
  <2> HIDE DEF all
  <2> QED
    BY <2>2, <2>3, <2>4
<1>6. \A r \in Roles : map[r] = TAKEN + at(r) /\ map[r] \in Nat /\ map[r] > 0 /\ map[r] \in DOMAIN owner
  BY <1>1, <1>4, <1>5, Wallets
<1>7. \A r \in Roles : AgentsOf(r) = {map[r]} /\ Held(r) = 1
  <2>1. ASSUME NEW r \in Roles PROVE AgentsOf(r) = {map[r]}
    <3>1. owner[map[r]] = r /\ r # "other"
      BY <1>4, <1>5, <1>6, Wallets
    <3>2. ASSUME NEW id \in DOMAIN owner, owner[id] = r PROVE id = map[r]
      <4>1. id \in TAKEN + 1..TAKEN + Len(FLEET)
        BY <1>5, <3>1, <3>2, Wallets
      <4>2. id - TAKEN \in 1..Len(FLEET) /\ TAKEN + (id - TAKEN) = id
        BY <4>1, Wallets
      <4>3. FLEET[id - TAKEN] = r
        BY <1>5, <3>2, <4>2
      <4>4. id - TAKEN = at(r)
        BY <1>4, <4>2, <4>3, Wallets
      <4> QED
        BY <1>6, <4>2, <4>4
    <3> QED
      BY <1>6, <3>1, <3>2 DEF AgentsOf
  <2> QED
    BY <2>1, FS_Singleton DEF Held
<1>8. map \in [Roles -> Nat] /\ orphans \in [Roles -> Nat]
  BY <1>1, <1>6
<1>9. ScriptShape /\ Owners /\ Simulated /\ UsdcGiven
  BY <1>1, <1>3, <1>5, <1>8, Wallets DEF ScriptShape, Owners, Simulated, UsdcGiven, In
<1>10. spent \in [Funded -> Int] /\ usdc \in [Funded -> Nat] /\ \A r \in Funded : usdc[r] + spent[r] = USDC_EACH
  <2>1. spent \in [Funded -> {n \in Int : n <= USDC_EACH}]
    BY <1>1, MoneyAssumption DEF Funded
  <2>2. \A r \in Funded : spent[r] \in Int /\ USDC_EACH - spent[r] \in Nat
    BY <2>1, Wallets
  <2> QED
    BY <1>1, <2>1, <2>2, Wallets
<1>11. Money
  BY <1>1, <1>2, <1>10, Wallets DEF Money
<1>12. GasGiven
  <2>1. \A r \in Funded : gas[r] = GasTarget(r) /\ GasTarget(r) \in Nat
    BY <1>1, Wallets DEF GasTarget
  <2>2. \A r \in Funded : Got(r) >= GasTarget(r)
    BY <1>7, <2>1 DEF Got
  <2> QED
    BY <1>3, <2>2 DEF GasGiven, In
<1>13. Entered
  BY <1>3, <1>6, <1>7 DEF Entered, OwnOrTaken
<1>14. Orphans
  BY <1>1, <1>2, <1>3, <1>7, Wallets DEF Orphans, In, Awaits
<1>15. MarketInv
  <2>1. llm \in BOOLEAN /\ hist \in [n : Nat, wins : Nat] /\ Fresh
    BY MoneyAssumption DEF InitUp
  <2>2. \A r \in ToSet(NEEDS_USDC) : usdc[r] + spent[r] >= USDC_EACH
    BY <1>10, Who
  <2> QED
    BY <1>3, <1>10, <2>1, <2>2, MarketBegins
<1> QED
  BY <1>2, <1>9, <1>11, <1>12, <1>13, <1>14, <1>15 DEF AgentInv, SetupInv

-----------------------------------------------------------------------------
(* The theorems.                                                           *)

\* The invariant that carries the rest holds wherever the fleet begins and
\* whatever stops it: AgentInv (deploy-fuji.sh to the bettors' last bet).
THEOREM AgentInvariant == Spec => []AgentInv
<1>1. Init \/ InitUp => AgentInv
  BY InitKeeps, InitUpKeeps
<1>2. AgentInv /\ [Next]_fleetVars => AgentInv'
  BY StepKeepsAgentInv
<1> QED
  BY <1>1, <1>2, PTL DEF Spec

\* What the invariant says of the roles' agents and money.
LEMMA FleetIsAsRegistered ==
    ASSUME AgentInv
    PROVE  FleetAsRegistered
<1>1. SetupInv /\ MarketInv
  BY DEF AgentInv
<1>2. AgentTypeOK
  BY <1>1 DEF AgentTypeOK, SetupInv, Owners, Money, ScriptShape, MarketInv, MarketShape, BotRecord
<1>3. WrongIdLostARace
  BY <1>1 DEF WrongIdLostARace, SetupInv, Entered, OwnOrTaken, Controls
<1>4. OneAgentPerRole
  <2>1. ASSUME NEW r \in Roles, ~Outgrown PROVE Held(r) <= 1 + orphans[r]
    <3>1. Len(owner) <= TAKEN + SCAN
      <4>1. Len(owner) \in Nat
        BY <1>1 DEF SetupInv, Owners
      <4> QED
        BY <2>1, <4>1, Wallets DEF Outgrown
    <3>2. Held(r) + Sent(r) <= 1 + orphans[r] /\ orphans[r] \in Nat
      BY <1>1, <3>1 DEF SetupInv, Orphans, Owners
    <3>3. Held(r) \in Nat /\ Sent(r) \in Nat
      BY <1>1, Counts DEF SetupInv
    <3> QED
      BY <3>2, <3>3
  <2> QED
    BY <2>1 DEF OneAgentPerRole, Held
<1>5. FundedToTarget
  <2>1. script.cli \in {"usdc", "register", "up"} => \A r \in Funded : Got(r) >= GasTarget(r)
    BY <1>1 DEF SetupInv, GasGiven
  <2> QED
    BY <2>1 DEF FundedToTarget, Got, Held, GasTarget
<1> QED
  BY <1>2, <1>3, <1>4, <1>5 DEF FleetAsRegistered

\* What the invariant says of the bettors.
LEMMA BettorsByTheirRules ==
    ASSUME AgentInv
    PROVE  BettorsKeepToTheirRules
<1>1. MarketShape /\ InOrder /\ \A b \in Bettors : Timely(b, bots[b], now) /\ Chosen(b, bots[b])
  BY DEF AgentInv, MarketInv
<1>2. EveryBettorDecides
  <2>1. SUFFICES ASSUME NEW b \in Bettors, bots[b].at = "missed"
                 PROVE  LET failed == bots[b].failed
                            lost == bots[b].lost
                        IN  IF b = "bettorMirror" THEN WINDOW < POLL * (3 + 2 * failed) + 2 * (lost + MARGIN)
                            ELSE WINDOW <= POLL * (1 + failed) + lost + MARGIN
    BY DEF EveryBettorDecides
  <2> DEFINE failed == bots[b].failed
             lost == bots[b].lost
  <2>2. bots[b] \in BotRecord /\ bots[b].slow = 0 /\ failed \in Nat /\ lost \in Nat
    BY <1>1, <2>1 DEF MarketShape, BotRecord, Timely
  <2>3. WINDOW \in Nat /\ POLL \in Nat /\ MARGIN \in Nat /\ POLL * failed \in Nat
    BY <2>2, Clocks
  <2>4. Behind(bots[b]) = POLL * failed + lost
    BY <2>2, <2>3 DEF Behind
  <2>5. IF b = "bettorMirror" THEN WINDOW < 3 * POLL + 2 * (POLL * failed + lost + MARGIN)
        ELSE WINDOW <= POLL + (POLL * failed + lost) + MARGIN
    BY <1>1, <2>1, <2>4 DEF Timely
  <2> HIDE DEF failed, lost
  <2>6. POLL * (3 + 2 * failed) = 3 * POLL + 2 * (POLL * failed) /\ POLL * (1 + failed) = POLL + POLL * failed
    BY <2>2, <2>3
  <2>7. IF b = "bettorMirror" THEN WINDOW < POLL * (3 + 2 * failed) + 2 * (lost + MARGIN)
        ELSE WINDOW <= POLL * (1 + failed) + lost + MARGIN
    BY <2>2, <2>3, <2>5, <2>6
  <2> QED
    BY <2>7 DEF failed, lost
<1>3. "bettorMirror" \in Bettors
  BY Who
<1>4. ASSUME bots["bettorMirror"].at = "placing", bots["bettorMirror"].source = "rule",
             bots["bettorMirror"].read = Pools
      PROVE  5 * (IF bots["bettorMirror"].choice.side = "Yes" THEN task.yes ELSE task.no)
                 > 3 * (task.yes + task.no)
  <2> DEFINE p == PBps([yes |-> task.yes, no |-> task.no])
  <2>1. /\ bots["bettorMirror"].choice.action = "bet" /\ task.yes > 0
        /\ bots["bettorMirror"].choice = MirrorDecision(p)
    BY <1>1, <1>3, <1>4 DEF Chosen, Pools
  <2>2. task.yes \in Nat /\ task.no \in Nat
    BY <1>1 DEF MarketShape
  <2>3. /\ p > 6000 => 5 * task.yes > 3 * (task.yes + task.no)
        /\ p < 4000 => 5 * task.no > 3 * (task.yes + task.no)
    BY <2>1, <2>2, PriceTells
  <2>4. p \in Int
    BY <2>1, <2>2 DEF PBps
  <2> HIDE DEF p
  <2>5. CASE p - 5000 > 1000
    BY <2>1, <2>3, <2>4, <2>5 DEF MirrorDecision, Bet
  <2>6. CASE 5000 - p > 1000
    BY <2>1, <2>3, <2>4, <2>6 DEF MirrorDecision, Bet
  <2>7. CASE ~(p - 5000 > 1000) /\ ~(5000 - p > 1000)
    BY <2>1, <2>7 DEF MirrorDecision, Abstain
  <2> QED
    BY <2>5, <2>6, <2>7
<1>5. MirrorFollowsTheMoney
  BY <1>4 DEF MirrorFollowsTheMoney
<1> QED
  BY <1>2, <1>5 DEF BettorsKeepToTheirRules

\* Wherever the bring-up stopped and was run again, roles have their agents and
\* their gas, and a wrong id is entered only where two registrations raced; a role
\* has a second agent only for a registration nobody waited for, or when more
\* agents than the scan looks at were registered since the bring-up began, however
\* many there were before: FleetAsRegistered (register-agents.ts:24-140,
\* fund-fuji.ts:69-86).
THEOREM FleetIsRegistered == Spec => []FleetAsRegistered
BY AgentInvariant, FleetIsAsRegistered, PTL

\* The contract refuses an agent only during a pause, for a wrong id, a lost race
\* or window, money spent or not minted, a full pool, or a tick slower than the
\* margin: RefusedForCause (confidence.ts:24-36, bettor-runtime.ts:107-153).
THEOREM RefusalsHaveTheirCause == Spec => []RefusedForCause
<1>1. AgentInv => RefusedForCause
  BY DEF AgentInv, MarketInv
<1> QED
  BY <1>1, AgentInvariant, PTL

\* A bettor that runs misses its market only if its failed reads and slow ticks add
\* up to what three polls and two margins, or one of each, leave of the window, and
\* the mirror's rule bets on more than 60% of the money:
\* BettorsKeepToTheirRules (strategies.ts:63-80, bettor-runtime.ts:104-157).
THEOREM BettorsDecideByTheirRules == Spec => []BettorsKeepToTheirRules
BY AgentInvariant, BettorsByTheirRules, PTL
=============================================================================
