----------------------------- MODULE BettorProofs -----------------------------
(***************************************************************************)
(* A bettor's position is paid for in tickets.  A process has one ticket   *)
(* per task it has not decided on; deciding turns it into a call to send,  *)
(* sending into a pending transaction, and a block into a bet.  Nothing    *)
(* but a restart (which forgets what was decided) or a lost reply (which   *)
(* sends a second copy) makes a new one.                                   *)
(***************************************************************************)
EXTENDS BettorDaemon, FiniteSetTheorems, TLAPS

BetTxs == {BetTx(Bettor, id, BettorAgent, side, amount, copy) :
              id \in TaskIds, side \in Sides, amount \in Bets, copy \in {1, 2}}
ClaimTxs == {PlainTx("claim", Bettor, id) : id \in TaskIds}

\* The run in progress is a bet or a claim, or there is none.
RunShape ==
    \/ bRun = NoRun
    \/ \E tx \in BetTxs \cup ClaimTxs, sent \in BOOLEAN :
          bRun = [at |-> tx.op, sent |-> sent, tx |-> tx]

PoolShape == IsFiniteSet(pool) /\ pool \subseteq BetTxs \cup ClaimTxs

Counters ==
    /\ positions \in [TaskIds -> [Accounts -> [Sides -> Nat]]]
    /\ faults \in Nat /\ restarts \in Nat

\* What may still become a bet on task id.
Pending(id) == {tx \in pool : tx.op = "placeBet" /\ tx.id = id}
ToSend(id) == IF bRun.at = "placeBet" /\ ~bRun.sent /\ bRun.tx.id = id THEN 1 ELSE 0
ToDecide(id) == IF id \in acted THEN 0 ELSE 1
Tickets(id) == Cardinality(Pending(id)) + ToSend(id) + ToDecide(id)

Largest(most) == \A amount \in Bets : amount <= most

Covered ==
    \A id \in TaskIds, most \in Bets :
        Largest(most) => Position(id) + most * Tickets(id) <= most * (1 + Failures)

BettorInv == Counters /\ RunShape /\ PoolShape /\ Covered

-----------------------------------------------------------------------------
(* Arithmetic of the bound. *)

LEMMA SumNat == ASSUME NEW u \in Nat, NEW v \in Nat PROVE u + v \in Nat
OBVIOUS

LEMMA TimesMonotone ==
    ASSUME NEW m \in Nat, NEW u \in Nat, NEW v \in Nat, u <= v
    PROVE  m * u <= m * v
<1>1. PICK d \in Nat : v = u + d
  <2>1. v - u \in Nat /\ v = u + (v - u)
    OBVIOUS
  <2> QED
    BY <2>1
<1>2. m * v = m * u + m * d /\ m * d \in Nat /\ m * u \in Nat
  BY <1>1
<1> QED
  BY <1>2

\* No ticket without a failure keeps the bound.
LEMMA NoNewTicket ==
    ASSUME NEW p \in Nat, NEW m \in Nat, NEW t \in Nat, NEW t1 \in Nat,
           NEW f \in Nat, NEW f1 \in Nat, f <= f1, t1 <= t + (f1 - f),
           p + m * t <= m * (1 + f)
    PROVE  p + m * t1 <= m * (1 + f1)
<1>1. f1 - f \in Nat /\ t + (f1 - f) \in Nat
  OBVIOUS
<1> DEFINE d == f1 - f
<1>2. m * t1 <= m * (t + d)
  BY <1>1, TimesMonotone
<1>3. d \in Nat /\ 1 + f1 = (1 + f) + d
  BY <1>1
<1> HIDE DEF d
<1>4. m * (t + d) = m * t + m * d /\ m * ((1 + f) + d) = m * (1 + f) + m * d
  BY <1>3
<1>5. m * t \in Int /\ m * d \in Int /\ m * t1 \in Int /\ m * (t + d) \in Int
      /\ m * (1 + f) \in Int /\ m * (1 + f1) \in Int
  BY <1>3
<1> QED
  BY <1>2, <1>3, <1>4, <1>5

\* A ticket that becomes a bet keeps the bound.
LEMMA TicketUsed ==
    ASSUME NEW p \in Nat, NEW m \in Nat, NEW t \in Nat, NEW t1 \in Nat,
           NEW f \in Nat, NEW amount \in Nat, amount <= m, t1 + 1 <= t,
           p + m * t <= m * (1 + f)
    PROVE  (p + amount) + m * t1 <= m * (1 + f)
<1>1. m * (t1 + 1) <= m * t
  BY TimesMonotone
<1>2. m * (t1 + 1) = m * t1 + m
  OBVIOUS
<1>3. m * t \in Int /\ m * t1 \in Int /\ m * (1 + f) \in Int
  OBVIOUS
<1> QED
  BY <1>1, <1>2, <1>3

-----------------------------------------------------------------------------
(* The values calls take. *)

LEMMA TxFacts ==
    ASSUME NEW tx \in BetTxs \cup ClaimTxs
    PROVE  /\ tx.id \in TaskIds /\ tx.from = Bettor /\ tx.op \in {"placeBet", "claim"}
           /\ tx.op = "placeBet" =>
                 tx \in BetTxs /\ tx.side \in Sides /\ tx.amount \in Bets
           /\ tx.op = "claim" => tx \in ClaimTxs
BY DEF BetTxs, ClaimTxs, BetTx, PlainTx

LEMMA RunFacts ==
    ASSUME RunShape
    PROVE  /\ InWrite(bRun) => /\ bRun.tx \in BetTxs \cup ClaimTxs
                               /\ bRun.at = bRun.tx.op /\ bRun.sent \in BOOLEAN
                               /\ bRun = [at |-> bRun.tx.op, sent |-> bRun.sent, tx |-> bRun.tx]
           /\ bRun.at = "placeBet" => InWrite(bRun)
<1>1. CASE bRun = NoRun
  BY <1>1 DEF NoRun, InWrite
<1>2. ASSUME NEW tx \in BetTxs \cup ClaimTxs, NEW sent \in BOOLEAN,
             bRun = [at |-> tx.op, sent |-> sent, tx |-> tx]
      PROVE  /\ bRun.tx \in BetTxs \cup ClaimTxs /\ bRun.at = bRun.tx.op /\ bRun.sent \in BOOLEAN
             /\ bRun = [at |-> bRun.tx.op, sent |-> bRun.sent, tx |-> bRun.tx]
             /\ InWrite(bRun)
  <2>1. tx.op \in {"placeBet", "claim"}
    BY TxFacts
  <2> QED
    BY <1>2, <2>1 DEF InWrite
<1> QED
  BY <1>1, <1>2 DEF RunShape

LEMMA PendingFinite ==
    ASSUME PoolShape, NEW id
    PROVE  IsFiniteSet(Pending(id)) /\ Cardinality(Pending(id)) \in Nat
<1>1. Pending(id) \subseteq pool
  BY DEF Pending
<1> QED
  BY <1>1, FS_Subset, FS_CardinalityType DEF PoolShape

LEMMA TicketsNat == ASSUME PoolShape, NEW id PROVE Tickets(id) \in Nat
BY PendingFinite DEF Tickets, ToSend, ToDecide

LEMMA TicketsNatAfter == ASSUME PoolShape', NEW id PROVE Tickets(id)' \in Nat
<1>1. Pending(id)' \subseteq pool' /\ IsFiniteSet(pool')
  BY DEF Pending, PoolShape
<1>2. Cardinality(Pending(id)') \in Nat
  BY <1>1, FS_Subset, FS_CardinalityType
<1> QED
  BY <1>2 DEF Tickets, ToSend, ToDecide

LEMMA FailuresNat ==
    ASSUME Counters, Counters'
    PROVE  Failures \in Nat /\ Failures' \in Nat
<1>1. faults \in Nat /\ restarts \in Nat
  BY DEF Counters
<1>2. faults' \in Nat /\ restarts' \in Nat
  BY DEF Counters
<1>3. Failures' = restarts' + faults'
  BY DEF Failures
<1>4. Failures = restarts + faults
  BY DEF Failures
<1>5. restarts + faults \in Nat
  BY <1>1
<1>6. restarts' + faults' \in Nat
  BY <1>2, SumNat, Zenon
<1> QED
  BY <1>3, <1>4, <1>5, <1>6

LEMMA PositionNat ==
    ASSUME Counters, NEW id \in TaskIds
    PROVE  Position(id) \in Nat
BY BettorAssumption DEF Counters, Position, Sides

(***************************************************************************)
(* A step that pays nothing in and makes no ticket without a failure.      *)
(***************************************************************************)
LEMMA CoveredStays ==
    ASSUME Counters, Counters', PoolShape, PoolShape', Covered,
           \A id \in TaskIds : Position(id)' = Position(id),
           Failures <= Failures',
           \A id \in TaskIds : Tickets(id)' <= Tickets(id) + (Failures' - Failures)
    PROVE  Covered'
<1> SUFFICES ASSUME NEW id \in TaskIds, NEW most \in Bets, Largest(most)
             PROVE  Position(id)' + most * Tickets(id)' <= most * (1 + Failures')
  BY DEF Covered, Largest
<1>1. most \in Nat
  BY EnvironmentAssumption
<1>2. Position(id) \in Nat /\ Tickets(id) \in Nat /\ Tickets(id)' \in Nat
  BY PositionNat, TicketsNat, TicketsNatAfter
<1>3. Failures \in Nat /\ Failures' \in Nat
  BY FailuresNat
<1>4. Position(id) + most * Tickets(id) <= most * (1 + Failures)
  BY DEF Covered
<1> DEFINE p == Position(id)  t == Tickets(id)  t1 == Tickets(id)'
           f == Failures  f1 == Failures'
<1>5. /\ p \in Nat /\ t \in Nat /\ t1 \in Nat /\ f \in Nat /\ f1 \in Nat /\ f <= f1
      /\ t1 <= t + (f1 - f) /\ p + most * t <= most * (1 + f)
  BY <1>2, <1>3, <1>4
<1>6. Position(id)' = p
  OBVIOUS
<1> HIDE DEF p, t, t1, f, f1
<1>7. p + most * t1 <= most * (1 + f1)
  BY <1>1, <1>5, NoNewTicket
<1> QED
  BY <1>6, <1>7 DEF t1, f1

-----------------------------------------------------------------------------
(* What a step of the chain does to positions and pending transactions.     *)

LEMMA OthersBet ==
    ASSUME Counters, ChainStep
    PROVE  /\ positions' \in [TaskIds -> [Accounts -> [Sides -> Nat]]]
           /\ \A id \in TaskIds : positions'[id][Bettor] = positions[id][Bettor]
<1>1. positions \in [TaskIds -> [Accounts -> [Sides -> Nat]]]
  BY DEF Counters
<1>2. CASE UNCHANGED positions
  BY <1>1, <1>2
<1>3. CASE Tick
  BY <1>2, <1>3 DEF Tick, market
<1>4. ASSUME NEW job \in Jobs, CreateTask(job) PROVE UNCHANGED positions
  BY <1>4 DEF CreateTask
<1>5. CASE Settles
  BY <1>2, <1>5 DEF Settles, SettleWithValidation, SettleByTimeout, Finalize
<1>6. ASSUME NEW a \in Accounts \ {Bettor}, NEW id \in TaskIds, NEW agent \in Agents,
             NEW stake \in Stakes, AcceptAndStake(a, id, agent, stake)
      PROVE  /\ positions' \in [TaskIds -> [Accounts -> [Sides -> Nat]]]
             /\ \A i \in TaskIds : positions'[i][Bettor] = positions[i][Bettor]
  <2>1. positions' = [positions EXCEPT ![id][a]["Yes"] = stake]
    BY <1>6 DEF AcceptAndStake
  <2>2. stake \in Nat
    BY EnvironmentAssumption
  <2> QED
    BY <1>1, <2>1, <2>2, BettorAssumption DEF Sides
<1>7. ASSUME NEW a \in Accounts, NEW id \in TaskIds, NEW hash \in Hashes,
             SubmitDelivery(a, id, hash)
      PROVE  UNCHANGED positions
  BY <1>7 DEF SubmitDelivery
<1>8. ASSUME NEW validator, NEW agent, NEW hash, FileRequest(validator, agent, hash)
      PROVE  UNCHANGED positions
  BY <1>8 DEF FileRequest, market
<1>9. ASSUME NEW a, NEW hash, NEW response, Respond(a, hash, response)
      PROVE  UNCHANGED positions
  BY <1>9 DEF Respond, market
<1> QED
  BY <1>2, <1>3, <1>4, <1>5, <1>6, <1>7, <1>8, <1>9 DEF ChainStep, Others

LEMMA ExecuteBets ==
    ASSUME Counters, NEW tx \in BetTxs \cup ClaimTxs, Execute(tx)
    PROVE  /\ positions' \in [TaskIds -> [Accounts -> [Sides -> Nat]]]
           /\ \A i \in TaskIds : tx.op # "placeBet" \/ i # tx.id =>
                 Position(i)' = Position(i)
           /\ tx.op = "placeBet" => Position(tx.id)' = Position(tx.id) + tx.amount
<1>1. positions \in [TaskIds -> [Accounts -> [Sides -> Nat]]]
  BY DEF Counters
<1>2. CASE tx.op = "claim"
  <2>1. Claim(tx.from, tx.id)
    BY <1>2 DEF Execute
  <2>2. UNCHANGED positions
    BY <2>1 DEF Claim, market
  <2> QED
    BY <1>1, <1>2, <2>2 DEF Position
<1>3. CASE tx.op = "placeBet"
  <2>1. PlaceBet(tx.from, tx.id, tx.agent, tx.side, tx.amount)
    BY <1>3 DEF Execute
  <2>2. /\ tx.from = Bettor /\ tx.id \in TaskIds /\ tx.side \in Sides /\ tx.amount \in Nat
        /\ Bettor \in Accounts
    BY <1>3, TxFacts, EnvironmentAssumption, BettorAssumption
  <2>3. positions' = [positions EXCEPT ![tx.id][Bettor][tx.side] = @ + tx.amount]
    BY <2>1, <2>2 DEF PlaceBet
  <2> DEFINE id == tx.id  side == tx.side  amount == tx.amount
  <2>4. /\ id \in TaskIds /\ side \in {"Yes", "No"} /\ amount \in Nat
        /\ positions' = [positions EXCEPT ![id][Bettor][side] = @ + amount]
    BY <2>2, <2>3 DEF Sides
  <2> HIDE DEF id, side, amount
  <2>5. positions' \in [TaskIds -> [Accounts -> [Sides -> Nat]]]
    BY <1>1, <2>2, <2>4 DEF Sides
  <2>6. \A i \in TaskIds : i # id => positions'[i] = positions[i]
    BY <1>1, <2>4
  <2>7. positions'[id][Bettor] = [positions[id][Bettor] EXCEPT ![side] = @ + amount]
    BY <1>1, <2>2, <2>4
  <2>8. positions[id][Bettor] \in [Sides -> Nat]
    BY <1>1, <2>2, <2>4
  <2>9. Position(id)' = Position(id) + amount
    <3>1. CASE side = "Yes"
      BY <2>4, <2>7, <2>8, <3>1 DEF Position, Sides
    <3>2. CASE side = "No"
      BY <2>4, <2>7, <2>8, <3>2 DEF Position, Sides
    <3> QED
      BY <2>4, <3>1, <3>2
  <2>10. \A i \in TaskIds : i # id => Position(i)' = Position(i)
    BY <2>6 DEF Position
  <2> QED
    BY <1>3, <2>5, <2>9, <2>10 DEF id, amount
<1> QED
  BY <1>2, <1>3, TxFacts

LEMMA PoolGrows ==
    ASSUME PoolShape, NEW tx \in BetTxs \cup ClaimTxs, pool' = pool \cup {tx}
    PROVE  /\ PoolShape'
           /\ \A id : Cardinality(Pending(id)') <=
                 Cardinality(Pending(id)) + (IF tx.op = "placeBet" /\ tx.id = id THEN 1 ELSE 0)
<1>1. PoolShape'
  <2>1. IsFiniteSet(pool')
    BY FS_AddElement DEF PoolShape
  <2> QED
    BY <2>1 DEF PoolShape, BetTxs, ClaimTxs
<1>2. ASSUME NEW id
      PROVE  Cardinality(Pending(id)') <=
                 Cardinality(Pending(id)) + (IF tx.op = "placeBet" /\ tx.id = id THEN 1 ELSE 0)
  <2>1. IsFiniteSet(Pending(id)) /\ Cardinality(Pending(id)) \in Nat
    BY PendingFinite
  <2>2. CASE tx.op = "placeBet" /\ tx.id = id
    <3>1. Pending(id)' = Pending(id) \cup {tx}
      BY <2>2 DEF Pending
    <3> DEFINE A == Pending(id)
    <3>2. Cardinality(A \cup {tx}) = IF tx \in A THEN Cardinality(A) ELSE Cardinality(A) + 1
      BY <2>1, FS_AddElement
    <3> QED
      BY <2>1, <2>2, <3>1, <3>2
  <2>3. CASE ~(tx.op = "placeBet" /\ tx.id = id)
    <3>1. Pending(id)' = Pending(id)
      BY <2>3 DEF Pending
    <3> QED
      BY <2>1, <2>3, <3>1
  <2> QED
    BY <2>2, <2>3
<1> QED
  BY <1>1, <1>2

LEMMA PoolShrinks ==
    ASSUME PoolShape, NEW tx \in pool, pool' = pool \ {tx}
    PROVE  /\ PoolShape'
           /\ \A id : Cardinality(Pending(id)') =
                 Cardinality(Pending(id)) - (IF tx.op = "placeBet" /\ tx.id = id THEN 1 ELSE 0)
<1>1. PoolShape'
  <2>1. IsFiniteSet(pool')
    BY FS_RemoveElement DEF PoolShape
  <2> QED
    BY <2>1 DEF PoolShape, BetTxs, ClaimTxs
<1>2. ASSUME NEW id
      PROVE  Cardinality(Pending(id)') =
                 Cardinality(Pending(id)) - (IF tx.op = "placeBet" /\ tx.id = id THEN 1 ELSE 0)
  <2>1. IsFiniteSet(Pending(id)) /\ Cardinality(Pending(id)) \in Nat
    BY PendingFinite
  <2>2. CASE tx.op = "placeBet" /\ tx.id = id
    <3> DEFINE A == Pending(id)
    <3>1. Pending(id)' = A \ {tx} /\ tx \in A
      BY <2>2 DEF Pending
    <3>2. Cardinality(A \ {tx}) = IF tx \in A THEN Cardinality(A) - 1 ELSE Cardinality(A)
      BY <2>1, FS_RemoveElement
    <3> QED
      BY <2>1, <2>2, <3>1, <3>2
  <2>3. CASE ~(tx.op = "placeBet" /\ tx.id = id)
    <3>1. Pending(id)' = Pending(id)
      BY <2>3 DEF Pending
    <3> QED
      BY <2>1, <2>3, <3>1
  <2> QED
    BY <2>2, <2>3
<1> QED
  BY <1>1, <1>2

-----------------------------------------------------------------------------
(* Each step of the loop, the chain and the environment keeps the bound.    *)

(***************************************************************************)
(* Steps that pay nothing in: it is enough to count the tickets.           *)
(***************************************************************************)
LEMMA LoopStep ==
    ASSUME BettorInv, RunShape', PoolShape', UNCHANGED positions,
           faults' \in Nat, restarts' \in Nat, Failures <= Failures',
           \A id \in TaskIds : Tickets(id)' <= Tickets(id) + (Failures' - Failures)
    PROVE  BettorInv'
<1>1. Counters'
  BY DEF BettorInv, Counters
<1>2. \A id \in TaskIds : Position(id)' = Position(id)
  BY DEF Position
<1> QED
  BY <1>1, <1>2, CoveredStays DEF BettorInv

\* The same when nothing has failed.
LEMMA QuietStep ==
    ASSUME BettorInv, RunShape', PoolShape', UNCHANGED <<positions, faults, restarts>>,
           \A id \in TaskIds : Tickets(id)' <= Tickets(id)
    PROVE  BettorInv'
<1>1. faults \in Nat /\ restarts \in Nat
  BY DEF BettorInv, Counters
<1>2. Failures \in Nat /\ Failures' = Failures
  BY <1>1 DEF Failures
<1>3. \A id \in TaskIds : Tickets(id) \in Nat /\ Tickets(id)' \in Nat
  BY TicketsNat, TicketsNatAfter DEF BettorInv
<1>4. Failures <= Failures'
  BY <1>2
<1>5. \A id \in TaskIds : Tickets(id)' <= Tickets(id) + (Failures' - Failures)
  BY <1>2, <1>3
<1>6. faults' \in Nat /\ restarts' \in Nat
  BY <1>1
<1> QED
  BY <1>4, <1>5, <1>6, LoopStep

LEMMA PoolKept == ASSUME PoolShape, UNCHANGED pool PROVE PoolShape'
BY DEF PoolShape, BetTxs, ClaimTxs

LEMMA PollsKeeps == ASSUME BettorInv, Polls PROVE BettorInv'
<1>1. UNCHANGED <<positions, faults, restarts, pool, bRun, acted>>
  BY DEF Polls, vars, market, memory
<1>2. RunShape' /\ PoolShape'
  BY <1>1, PoolKept DEF BettorInv, RunShape, BetTxs, ClaimTxs
<1>3. \A id \in TaskIds : Tickets(id)' = Tickets(id)
  BY <1>1 DEF Tickets, Pending, ToSend, ToDecide
<1>4. \A id \in TaskIds : Tickets(id) \in Nat
  BY TicketsNat DEF BettorInv
<1> QED
  BY <1>1, <1>2, <1>3, <1>4, QuietStep

\* Deciding turns a ticket into a call to send, or gives it up.
LEMMA DecidesKeeps ==
    ASSUME BettorInv, NEW id \in TaskIds, Decides(id)
    PROVE  BettorInv'
<1>1. /\ UNCHANGED <<positions, faults, restarts, pool>>
      /\ id \notin acted /\ acted' = acted \cup {id} /\ bRun = NoRun
      /\ \/ bRun' = NoRun
         \/ \E side \in Sides, amount \in Bets :
               bRun' = Writing(BetTx(Bettor, id, BettorAgent, side, amount, 1))
  BY DEF Decides, vars, market, Decided
<1>2. /\ RunShape'
      /\ bRun'.at = "placeBet" => bRun'.tx.id = id
  <2>1. CASE bRun' = NoRun
    BY <2>1 DEF RunShape, NoRun
  <2>2. ASSUME NEW side \in Sides, NEW amount \in Bets,
               bRun' = Writing(BetTx(Bettor, id, BettorAgent, side, amount, 1))
        PROVE  RunShape' /\ bRun'.tx.id = id
    <3> DEFINE tx == BetTx(Bettor, id, BettorAgent, side, amount, 1)
    <3>1. tx \in BetTxs /\ tx.id = id
      BY DEF BetTxs, BetTx
    <3>2. bRun' = [at |-> tx.op, sent |-> FALSE, tx |-> tx]
      BY <2>2 DEF Writing
    <3>3. BetTxs' = BetTxs /\ ClaimTxs' = ClaimTxs
      BY DEF BetTxs, ClaimTxs
    <3> HIDE DEF tx
    <3> QED
      BY <3>1, <3>2, <3>3 DEF RunShape
  <2> QED
    BY <1>1, <2>1, <2>2
<1>3. PoolShape'
  BY <1>1, PoolKept DEF BettorInv
<1>4. ASSUME NEW i \in TaskIds PROVE Tickets(i)' <= Tickets(i)
  <2>1. Pending(i)' = Pending(i) /\ Cardinality(Pending(i)) \in Nat
    BY <1>1, PendingFinite DEF Pending, BettorInv
  <2>2. ToSend(i) = 0
    BY <1>1 DEF ToSend, NoRun
  <2>3. CASE i = id
    <3>1. ToDecide(i) = 1 /\ ToDecide(i)' = 0 /\ ToSend(i)' \in {0, 1}
      BY <1>1, <2>3 DEF ToDecide, ToSend
    <3> QED
      BY <2>1, <2>2, <3>1 DEF Tickets
  <2>4. CASE i # id
    <3>1. ToDecide(i) = ToDecide(i)' /\ ToSend(i)' = 0 /\ ToDecide(i) \in {0, 1}
      BY <1>1, <1>2, <2>4 DEF ToDecide, ToSend
    <3> QED
      BY <2>1, <2>2, <3>1 DEF Tickets
  <2> QED
    BY <2>3, <2>4
<1> QED
  BY <1>1, <1>2, <1>3, <1>4, QuietStep

LEMMA ClaimsKeeps ==
    ASSUME BettorInv, NEW id \in TaskIds, Claims(id)
    PROVE  BettorInv'
<1>1. /\ UNCHANGED <<positions, faults, restarts, pool, acted>>
      /\ bRun = NoRun
      /\ bRun' = Writing(PlainTx("claim", Bettor, id))
  BY DEF Claims, vars, market
<1>2. RunShape' /\ bRun'.at = "claim"
  <2> DEFINE tx == PlainTx("claim", Bettor, id)
  <2>1. tx \in ClaimTxs /\ tx.op = "claim"
    BY DEF ClaimTxs, PlainTx
  <2>2. bRun' = [at |-> tx.op, sent |-> FALSE, tx |-> tx]
    BY <1>1 DEF Writing
  <2>3. BetTxs' = BetTxs /\ ClaimTxs' = ClaimTxs
    BY DEF BetTxs, ClaimTxs
  <2> HIDE DEF tx
  <2> QED
    BY <2>1, <2>2, <2>3 DEF RunShape
<1>3. PoolShape'
  BY <1>1, PoolKept DEF BettorInv
<1>4. ASSUME NEW i \in TaskIds PROVE Tickets(i)' = Tickets(i) /\ Tickets(i) \in Nat
  <2>1. ToSend(i)' = 0 /\ ToSend(i) = 0
    BY <1>1, <1>2 DEF ToSend, NoRun
  <2> QED
    BY <1>1, <2>1, TicketsNat DEF Tickets, Pending, ToDecide, BettorInv
<1> QED
  BY <1>1, <1>2, <1>3, <1>4, QuietStep

\* Sending turns a call to send into a pending transaction.
LEMMA SendsKeeps == ASSUME BettorInv, Sends PROVE BettorInv'
<1>1. /\ UNCHANGED <<positions, faults, restarts, acted>>
      /\ InWrite(bRun) /\ ~bRun.sent /\ pool' = pool \cup {bRun.tx}
      /\ bRun' = [bRun EXCEPT !.sent = TRUE]
  BY DEF Sends, Broadcast, vars, market, memory
<1> DEFINE tx == bRun.tx
<1>2. /\ tx \in BetTxs \cup ClaimTxs /\ bRun.at = tx.op
      /\ bRun = [at |-> tx.op, sent |-> bRun.sent, tx |-> tx]
  BY <1>1, RunFacts DEF BettorInv
<1>3. bRun' = [at |-> tx.op, sent |-> TRUE, tx |-> tx]
  BY <1>1, <1>2
<1>4. pool' = pool \cup {tx}
  BY <1>1
<1>5. ASSUME NEW i \in TaskIds
      PROVE  /\ ToSend(i) = IF tx.op = "placeBet" /\ tx.id = i THEN 1 ELSE 0
             /\ ToSend(i)' = 0
  BY <1>1, <1>2, <1>3 DEF ToSend
<1> HIDE DEF tx
<1>6. RunShape'
  <2>1. BetTxs' = BetTxs /\ ClaimTxs' = ClaimTxs
    BY DEF BetTxs, ClaimTxs
  <2> QED
    BY <1>2, <1>3, <2>1 DEF RunShape
<1>7. /\ PoolShape'
      /\ \A i : Cardinality(Pending(i)') <=
            Cardinality(Pending(i)) + (IF tx.op = "placeBet" /\ tx.id = i THEN 1 ELSE 0)
  BY <1>2, <1>4, PoolGrows DEF BettorInv
<1>8. ASSUME NEW i \in TaskIds PROVE Tickets(i)' <= Tickets(i)
  <2> DEFINE c == Cardinality(Pending(i))  c1 == Cardinality(Pending(i)')
             d == ToDecide(i)  n == IF tx.op = "placeBet" /\ tx.id = i THEN 1 ELSE 0
  <2>1. c \in Nat /\ c1 \in Nat /\ d \in {0, 1} /\ n \in {0, 1} /\ c1 <= c + n
    <3>1. Pending(i)' \subseteq pool' /\ IsFiniteSet(pool')
      BY <1>7 DEF Pending, PoolShape
    <3>2. Cardinality(Pending(i)') \in Nat
      BY <3>1, FS_Subset, FS_CardinalityType
    <3>3. c \in Nat
      BY PendingFinite DEF BettorInv
    <3> QED
      BY <1>7, <3>2, <3>3 DEF ToDecide
  <2>2. ToDecide(i)' = d
    BY <1>1 DEF ToDecide
  <2>3. ToSend(i) = n /\ ToSend(i)' = 0
    BY <1>5
  <2>4. Tickets(i) = c + n + d /\ Tickets(i)' = c1 + 0 + d
    BY <2>2, <2>3 DEF Tickets
  <2> HIDE DEF c, c1, d, n
  <2> QED
    BY <2>1, <2>4
<1> QED
  BY <1>1, <1>6, <1>7, <1>8, QuietStep

\* A lost reply makes a second copy: a ticket and a failure.
LEMMA ResendsKeeps == ASSUME BettorInv, Resends PROVE BettorInv'
<1>1. /\ UNCHANGED <<positions, restarts, acted>> /\ faults' = faults + 1
      /\ bRun.at = "placeBet" /\ bRun.sent
      /\ bRun' = [bRun EXCEPT !.tx.copy = 2]
      /\ pool' = pool \cup {[bRun.tx EXCEPT !.copy = 2]}
  BY DEF Resends, vars, market, memory
<1>2. /\ bRun.tx \in BetTxs
      /\ bRun = [at |-> "placeBet", sent |-> TRUE, tx |-> bRun.tx]
  <2>1. /\ InWrite(bRun) /\ bRun.tx \in BetTxs \cup ClaimTxs /\ bRun.at = bRun.tx.op
        /\ bRun.sent \in BOOLEAN
        /\ bRun = [at |-> bRun.tx.op, sent |-> bRun.sent, tx |-> bRun.tx]
    BY <1>1, RunFacts DEF BettorInv
  <2>2. bRun.tx.op = "placeBet" /\ bRun.sent = TRUE
    BY <1>1, <2>1
  <2> QED
    BY <2>1, <2>2, TxFacts
<1>3. PICK id \in TaskIds, side \in Sides, amount \in Bets, copy \in {1, 2} :
         bRun.tx = BetTx(Bettor, id, BettorAgent, side, amount, copy)
  BY <1>2 DEF BetTxs
<1> DEFINE tx == BetTx(Bettor, id, BettorAgent, side, amount, 2)
<1>4. tx \in BetTxs /\ tx.op = "placeBet" /\ tx.id = id /\ [bRun.tx EXCEPT !.copy = 2] = tx
  BY <1>3 DEF BetTxs, BetTx
<1>5. bRun' = [at |-> "placeBet", sent |-> TRUE, tx |-> tx]
  <2> DEFINE old == bRun.tx  new == [old EXCEPT !.copy = 2]
  <2>1. bRun' = [bRun EXCEPT !.tx = new]
    BY <1>1
  <2>2. bRun = [at |-> "placeBet", sent |-> TRUE, tx |-> old]
    BY <1>2
  <2>3. new = tx
    BY <1>4
  <2> HIDE DEF tx, old, new
  <2>4. bRun' = [at |-> "placeBet", sent |-> TRUE, tx |-> new]
    BY <2>1, <2>2
  <2> QED
    BY <2>3, <2>4
<1>6. pool' = pool \cup {tx}
  BY <1>1, <1>4
<1> HIDE DEF tx
<1>7. RunShape'
  <2>1. BetTxs' = BetTxs /\ ClaimTxs' = ClaimTxs
    BY DEF BetTxs, ClaimTxs
  <2> QED
    BY <1>4, <1>5, <2>1 DEF RunShape
<1>8. /\ PoolShape'
      /\ \A i : Cardinality(Pending(i)') <=
            Cardinality(Pending(i)) + (IF tx.op = "placeBet" /\ tx.id = i THEN 1 ELSE 0)
  BY <1>4, <1>6, PoolGrows DEF BettorInv
<1>9. Failures \in Nat /\ Failures' = Failures + 1 /\ faults' \in Nat /\ restarts' \in Nat
  <2>1. faults \in Nat /\ restarts \in Nat
    BY DEF BettorInv, Counters
  <2> QED
    BY <1>1, <2>1 DEF Failures
<1>10. ASSUME NEW i \in TaskIds PROVE Tickets(i)' <= Tickets(i) + 1 /\ Tickets(i) \in Nat
  <2> DEFINE c == Cardinality(Pending(i))  c1 == Cardinality(Pending(i)')
             d == ToDecide(i)  n == IF tx.op = "placeBet" /\ tx.id = i THEN 1 ELSE 0
  <2>1. c \in Nat /\ c1 \in Nat /\ d \in {0, 1} /\ n \in {0, 1} /\ c1 <= c + n
    <3>1. Pending(i)' \subseteq pool' /\ IsFiniteSet(pool')
      BY <1>8 DEF Pending, PoolShape
    <3>2. Cardinality(Pending(i)') \in Nat
      BY <3>1, FS_Subset, FS_CardinalityType
    <3>3. c \in Nat
      BY PendingFinite DEF BettorInv
    <3> QED
      BY <1>8, <3>2, <3>3 DEF ToDecide
  <2>2. ToDecide(i)' = d
    BY <1>1 DEF ToDecide
  <2>3. ToSend(i) = 0 /\ ToSend(i)' = 0
    BY <1>1, <1>5 DEF ToSend
  <2>4. Tickets(i) = c + 0 + d /\ Tickets(i)' = c1 + 0 + d
    BY <2>2, <2>3 DEF Tickets
  <2> HIDE DEF c, c1, d, n
  <2> QED
    BY <2>1, <2>4
<1>11. \A i \in TaskIds : Tickets(i)' <= Tickets(i) + (Failures' - Failures)
  BY <1>9, <1>10
<1>12. Failures <= Failures'
  BY <1>9
<1> QED
  BY <1>1, <1>7, <1>8, <1>9, <1>11, <1>12, LoopStep

\* The run is over: what it had not sent is not sent any more.
LEMMA RunEnds ==
    ASSUME BettorInv, bRun' = NoRun, UNCHANGED <<pool, acted>>
    PROVE  /\ RunShape' /\ PoolShape'
           /\ \A i \in TaskIds : Tickets(i)' <= Tickets(i) /\ Tickets(i) \in Nat
<1>1. RunShape'
  BY DEF RunShape, NoRun
<1>2. PoolShape'
  BY PoolKept DEF BettorInv
<1>3. ASSUME NEW i \in TaskIds PROVE Tickets(i)' <= Tickets(i) /\ Tickets(i) \in Nat
  <2>1. ToSend(i)' = 0 /\ ToSend(i) \in {0, 1}
    BY DEF ToSend, NoRun
  <2>2. ToDecide(i)' = ToDecide(i) /\ ToDecide(i) \in {0, 1} /\ Pending(i)' = Pending(i)
    BY DEF ToDecide, Pending
  <2>3. Cardinality(Pending(i)) \in Nat
    BY PendingFinite DEF BettorInv
  <2> QED
    BY <2>1, <2>2, <2>3 DEF Tickets
<1> QED
  BY <1>1, <1>2, <1>3

LEMMA HearsKeeps == ASSUME BettorInv, Hears PROVE BettorInv'
<1>1. bRun' = NoRun /\ UNCHANGED <<positions, faults, restarts, pool, acted>>
  BY DEF Hears, Receipt, vars, market
<1> QED
  BY <1>1, RunEnds, QuietStep

LEMMA GivesUpKeeps == ASSUME BettorInv, GivesUp PROVE BettorInv'
<1>1. /\ bRun' = NoRun /\ UNCHANGED <<positions, restarts, pool, acted>>
      /\ faults' = faults \/ faults' = faults + 1
  BY DEF GivesUp, Refused, CallFails, vars, market, memory
<1>2. CASE faults' = faults
  BY <1>1, <1>2, RunEnds, QuietStep
<1>3. CASE faults' = faults + 1
  <2>1. Failures \in Nat /\ Failures' = Failures + 1 /\ faults' \in Nat /\ restarts' \in Nat
    <3>1. faults \in Nat /\ restarts \in Nat
      BY DEF BettorInv, Counters
    <3> QED
      BY <1>1, <1>3, <3>1 DEF Failures
  <2>2. /\ RunShape' /\ PoolShape'
        /\ \A i \in TaskIds : Tickets(i)' <= Tickets(i) /\ Tickets(i) \in Nat
    BY <1>1, RunEnds
  <2>3. \A i \in TaskIds : Tickets(i)' \in Nat
    BY <2>2, TicketsNatAfter
  <2>4. \A i \in TaskIds : Tickets(i)' <= Tickets(i) + (Failures' - Failures)
    BY <2>1, <2>2, <2>3
  <2>5. Failures <= Failures'
    BY <2>1
  <2> QED
    BY <1>1, <2>1, <2>2, <2>4, <2>5, LoopStep
<1> QED
  BY <1>1, <1>2, <1>3

\* A restart forgets what was decided: a ticket and a failure.
LEMMA RestartKeeps == ASSUME BettorInv, BettorRestarts PROVE BettorInv'
<1>1. /\ bRun' = NoRun /\ UNCHANGED <<positions, faults, pool>>
      /\ acted' = {} /\ restarts' = restarts + 1
  BY DEF BettorRestarts, vars, market
<1>2. Failures \in Nat /\ Failures' = Failures + 1 /\ faults' \in Nat /\ restarts' \in Nat
  <2>1. faults \in Nat /\ restarts \in Nat
    BY DEF BettorInv, Counters
  <2> QED
    BY <1>1, <2>1 DEF Failures
<1>3. RunShape'
  BY <1>1 DEF RunShape, NoRun
<1>4. PoolShape'
  BY <1>1, PoolKept DEF BettorInv
<1>5. ASSUME NEW i \in TaskIds PROVE Tickets(i)' <= Tickets(i) + 1 /\ Tickets(i) \in Nat
  <2>1. ToSend(i)' = 0 /\ ToSend(i) \in {0, 1}
    BY <1>1 DEF ToSend, NoRun
  <2>2. ToDecide(i)' = 1 /\ ToDecide(i) \in {0, 1} /\ Pending(i)' = Pending(i)
    BY <1>1 DEF ToDecide, Pending
  <2>3. Cardinality(Pending(i)) \in Nat
    BY PendingFinite DEF BettorInv
  <2> QED
    BY <2>1, <2>2, <2>3 DEF Tickets
<1>6. \A i \in TaskIds : Tickets(i)' <= Tickets(i) + (Failures' - Failures)
  BY <1>2, <1>5
<1>7. Failures <= Failures'
  BY <1>2
<1> QED
  BY <1>1, <1>2, <1>3, <1>4, <1>6, <1>7, LoopStep

LEMMA ChainKeeps ==
    ASSUME BettorInv, ChainStep, UNCHANGED <<pool, faults, bRun, acted, restarts>>
    PROVE  BettorInv'
<1>1. Counters'
  BY OthersBet DEF BettorInv, Counters
<1>2. \A id \in TaskIds : Position(id)' = Position(id)
  BY OthersBet DEF BettorInv, Position
<1>3. RunShape' /\ PoolShape'
  BY PoolKept DEF BettorInv, RunShape, BetTxs, ClaimTxs
<1>4. Failures' = Failures /\ Failures \in Nat
  <2>1. faults \in Nat /\ restarts \in Nat
    BY DEF BettorInv, Counters
  <2> QED
    BY <2>1 DEF Failures
<1>5. \A id \in TaskIds : Tickets(id)' = Tickets(id) /\ Tickets(id) \in Nat
  BY TicketsNat DEF BettorInv, Tickets, Pending, ToSend, ToDecide
<1>6. Failures <= Failures' /\ \A id \in TaskIds : Tickets(id)' <= Tickets(id) + (Failures' - Failures)
  BY <1>4, <1>5
<1> QED
  BY <1>1, <1>2, <1>3, <1>6, CoveredStays DEF BettorInv

\* A block turns a pending bet into a position, or drops it.
LEMMA MineKeeps ==
    ASSUME BettorInv, NEW tx \in pool, Mine(tx), UNCHANGED <<bRun, acted, restarts>>
    PROVE  BettorInv'
<1>1. pool' = pool \ {tx} /\ UNCHANGED faults /\ (Execute(tx) \/ UNCHANGED positions)
  BY DEF Mine, vars, market
<1>2. tx \in BetTxs \cup ClaimTxs
  BY DEF BettorInv, PoolShape
<1>3. /\ PoolShape'
      /\ \A i : Cardinality(Pending(i)') =
            Cardinality(Pending(i)) - (IF tx.op = "placeBet" /\ tx.id = i THEN 1 ELSE 0)
  BY <1>1, PoolShrinks DEF BettorInv
<1>4. RunShape'
  BY DEF BettorInv, RunShape, BetTxs, ClaimTxs
<1>5. Failures' = Failures /\ Failures \in Nat
  <2>1. faults \in Nat /\ restarts \in Nat
    BY DEF BettorInv, Counters
  <2> QED
    BY <1>1, <2>1 DEF Failures
<1>6. ASSUME NEW i \in TaskIds
      PROVE  /\ Tickets(i)' = Tickets(i) - (IF tx.op = "placeBet" /\ tx.id = i THEN 1 ELSE 0)
             /\ Tickets(i) \in Nat /\ Tickets(i)' \in Nat
  <2>1. ToSend(i)' = ToSend(i) /\ ToDecide(i)' = ToDecide(i)
        /\ ToSend(i) \in {0, 1} /\ ToDecide(i) \in {0, 1}
    BY DEF ToSend, ToDecide
  <2>2. Cardinality(Pending(i)) \in Nat
    BY PendingFinite DEF BettorInv
  <2>3. Tickets(i)' = Tickets(i) - (IF tx.op = "placeBet" /\ tx.id = i THEN 1 ELSE 0)
    BY <1>3, <2>1, <2>2 DEF Tickets
  <2> QED
    BY <1>3, <2>3, TicketsNat, TicketsNatAfter DEF BettorInv
<1>7. CASE UNCHANGED positions
  <2>1. \A i \in TaskIds : Tickets(i)' <= Tickets(i)
    BY <1>6
  <2> QED
    BY <1>1, <1>3, <1>4, <1>7, <2>1, QuietStep
<1>8. CASE Execute(tx)
  <2>1. /\ positions' \in [TaskIds -> [Accounts -> [Sides -> Nat]]]
        /\ \A i \in TaskIds : tx.op # "placeBet" \/ i # tx.id => Position(i)' = Position(i)
        /\ tx.op = "placeBet" => Position(tx.id)' = Position(tx.id) + tx.amount
    BY <1>2, <1>8, ExecuteBets DEF BettorInv
  <2>2. Counters'
    BY <1>1, <2>1 DEF BettorInv, Counters
  <2>3. ASSUME NEW i \in TaskIds, NEW most \in Bets, Largest(most)
        PROVE  Position(i)' + most * Tickets(i)' <= most * (1 + Failures')
    <3>1. /\ most \in Nat /\ Position(i) \in Nat
          /\ Position(i) + most * Tickets(i) <= most * (1 + Failures)
      BY <2>3, EnvironmentAssumption, PositionNat DEF BettorInv, Covered
    <3>2. CASE tx.op = "placeBet" /\ tx.id = i
      <4>1. tx.amount \in Nat /\ tx.amount <= most
        BY <1>2, <2>3, <3>2, TxFacts, EnvironmentAssumption DEF Largest
      <4>2. Position(i)' = Position(i) + tx.amount
        BY <2>1, <3>2
      <4>3. Tickets(i)' + 1 <= Tickets(i)
        BY <1>6, <3>2
      <4>4. (Position(i) + tx.amount) + most * Tickets(i)' <= most * (1 + Failures)
        BY <1>5, <1>6, <3>1, <4>1, <4>3, TicketUsed
      <4> QED
        BY <1>5, <4>2, <4>4
    <3>3. CASE ~(tx.op = "placeBet" /\ tx.id = i)
      <4>1. Position(i)' = Position(i) /\ Tickets(i)' = Tickets(i)
        BY <1>6, <2>1, <3>3
      <4> QED
        BY <1>5, <3>1, <4>1
    <3> QED
      BY <3>2, <3>3
  <2>4. Covered'
    BY <2>3 DEF Covered, Largest
  <2> QED
    BY <1>3, <1>4, <2>2, <2>4 DEF BettorInv
<1> QED
  BY <1>1, <1>7, <1>8

-----------------------------------------------------------------------------

LEMMA InitBettorInv == BettorInit => BettorInv
<1> SUFFICES ASSUME BettorInit PROVE BettorInv
  OBVIOUS
<1>1. /\ positions = [id \in TaskIds |-> [a \in Accounts |-> [s \in Sides |-> 0]]]
      /\ pool = {} /\ faults = 0 /\ restarts = 0 /\ bRun = NoRun /\ acted = {}
  BY DEF BettorInit, Init
<1>2. Counters /\ RunShape
  BY <1>1 DEF Counters, RunShape
<1>3. PoolShape
  BY <1>1, FS_EmptySet DEF PoolShape
<1>4. ASSUME NEW id \in TaskIds, NEW most \in Bets
      PROVE  Position(id) + most * Tickets(id) <= most * (1 + Failures)
  <2>1. Position(id) = 0
    BY <1>1, BettorAssumption DEF Position, Sides
  <2>2. Pending(id) = {} /\ ToSend(id) = 0 /\ ToDecide(id) = 1
    BY <1>1 DEF Pending, ToSend, ToDecide, NoRun
  <2>3. Tickets(id) = 1 /\ Failures = 0
    BY <1>1, <2>2, FS_EmptySet DEF Tickets, Failures
  <2>4. most \in Nat
    BY EnvironmentAssumption
  <2> QED
    BY <2>1, <2>3, <2>4
<1> QED
  BY <1>2, <1>3, <1>4 DEF BettorInv, Covered

LEMMA NextBettorInv == ASSUME BettorInv, [BettorNext]_bettorVars PROVE BettorInv'
<1>1. ASSUME NEW tx \in pool, Mine(tx) /\ UNCHANGED <<rows, bRun, memory, restarts>>
      PROVE  BettorInv'
  BY <1>1, MineKeeps DEF memory
<1>2. CASE ChainStep /\ UNCHANGED <<pool, faults, rows, bRun, memory, restarts>>
  BY <1>2, ChainKeeps DEF memory
<1>3. CASE UNCHANGED bettorVars
  <2>1. /\ UNCHANGED <<positions, faults, restarts>>
        /\ UNCHANGED <<pool, bRun, acted>>
    BY <1>3 DEF bettorVars, vars, market, memory
  <2>2. RunShape' /\ PoolShape'
    BY <2>1, PoolKept DEF BettorInv, RunShape, BetTxs, ClaimTxs
  <2>3. \A id \in TaskIds : Tickets(id)' = Tickets(id) /\ Tickets(id) \in Nat
    BY <2>1, TicketsNat DEF BettorInv, Tickets, Pending, ToSend, ToDecide
  <2> QED
    BY <2>1, <2>2, <2>3, QuietStep
<1> QED
  BY <1>1, <1>2, <1>3, PollsKeeps, DecidesKeeps, ClaimsKeeps, SendsKeeps, ResendsKeeps,
     HearsKeeps, GivesUpKeeps, RestartKeeps DEF BettorNext, BettorStep

(* However the list lags, the loop interleaves with the chain and pending   *)
(* bets outlive the process, a bettor's position on a task is at most one   *)
(* bet plus one for every restart and every lost reply, for any bets,       *)
(* tasks, clock skews and number of failures.                               *)
THEOREM BetsAreBounded == BettorSpec => []EachFailureCostsOneBet
<1>1. BettorInit => BettorInv
  BY InitBettorInv
<1>2. BettorInv /\ [BettorNext]_bettorVars => BettorInv'
  BY NextBettorInv
<1>3. BettorInv => EachFailureCostsOneBet
  <2> SUFFICES ASSUME BettorInv, NEW id \in TaskIds, NEW most \in Bets,
                      \A amount \in Bets : amount <= most
               PROVE  Position(id) <= most * (1 + Failures)
    BY DEF EachFailureCostsOneBet
  <2>1. Position(id) + most * Tickets(id) <= most * (1 + Failures)
    BY DEF BettorInv, Covered, Largest
  <2>2. most \in Nat /\ Position(id) \in Nat /\ Tickets(id) \in Nat
    BY EnvironmentAssumption, PositionNat, TicketsNat DEF BettorInv
  <2>3. Failures \in Nat
    <3>1. faults \in Nat /\ restarts \in Nat
      BY DEF BettorInv, Counters
    <3> QED
      BY <3>1 DEF Failures
  <2> DEFINE w == most * Tickets(id)  b == most * (1 + Failures)
  <2>4. w \in Nat /\ b \in Nat
    BY <2>2, <2>3
  <2>5. Position(id) + w <= b
    BY <2>1
  <2> HIDE DEF w, b
  <2>6. Position(id) <= b
    BY <2>2, <2>4, <2>5
  <2> QED
    BY <2>6 DEF b
<1> QED
  BY <1>1, <1>2, <1>3, PTL DEF BettorSpec
=============================================================================
