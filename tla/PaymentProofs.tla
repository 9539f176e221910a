---------------------------- MODULE PaymentProofs ---------------------------
(***************************************************************************)
(* Who pays is served, who is served has paid, nobody pays twice for       *)
(* nothing, and the console agrees with the purse: for any buyers, funds   *)
(* and number of rounds, and any number of faults.                         *)
(***************************************************************************)
EXTENDS PaymentSafety, DataProofs

\* The calls whose transaction the node has taken, mined or not.
SentOut == ToSet(pool) \cup used \cup reverted

\* The gate follows the buyer, and the facilitator the gate.
InStep ==
    \A c \in Calls :
        /\ client[c] \in {"idle", "challenged"} => gate[c] = "none"
        /\ gate[c] \in {"none", "checking", "verifying"} => fac[c] = "none"
        /\ gate[c] \in {"200", "404"} => fac[c] = "settled"
        /\ gate[c] = "402" => fac[c] \in {"none", "failed"}
        /\ gate[c] # "error"

\* A call is sent by the facilitator's hand, once, and mined once; a facilitator
\* that reports failure has sent nothing unless it lost the receipt.
SentOnce ==
    /\ IsInjective(pool)
    /\ \A c \in Calls :
        /\ c \in SentOut => fac[c] \in {"waiting", "settled", "failed"}
        /\ c \in SentOut /\ fac[c] = "failed" => c \in doubted
        /\ fac[c] = "settled" => c \in used \cup reverted
        /\ c \in ToSet(pool) => c \notin used \cup reverted
        /\ c \in used => c \notin reverted

\* What was sent could be paid for out of the funds a buyer started with, and
\* those are untouched before a payment; so a transfer fails for a cause.
FailsForCause ==
    /\ \A c \in Calls : fac[c] = "sending" \/ c \in ToSet(pool) =>
           Challenge(c).price <= Funds[c.buyer]
    /\ \A b \in Buyers : /\ balance[b] <= Funds[b]
                         /\ (\A d \in used : d.buyer # b) => balance[b] = Funds[b]
    /\ \A c \in reverted : c \in expired \/ \E d \in used : d.buyer = c.buyer

\* Bad news has a cause, and every round but the last brought some.
RoundsFailed ==
    \A c \in Calls :
        /\ gate[c] = "502" => c \in doubted
        /\ client[c] \in Failure => c \in doubted \/ gate[c] \in {"404", "402"}
        /\ client[c] # "idle" => \A k \in 1..(c.round - 1) :
               \E i \in 1..2 : client[Call(c.buyer, i, k)] \in Failure

\* The console hears of services only, and of all but those in doubt.
ConsoleFollows ==
    \A c \in Calls : /\ c \in reports => fac[c] = "settled"
                     /\ gate[c] = "200" => c \in reports \/ c \in doubted

PayInv == PaymentsTypeOK /\ InStep /\ SentOnce /\ FailsForCause /\ RoundsFailed /\ ConsoleFollows

-----------------------------------------------------------------------------
(* The calls, and the relayer's queue.                                     *)

(* Every call meets a gate, at a price, of one of the three sellers.       *)
LEMMA Challenges ==
    ASSUME NEW c \in Calls
    PROVE  /\ c.buyer \in Buyers /\ c.item \in 1..2 /\ c.round \in 1..Rounds
           /\ c.buyer \notin Bettors => c.round = 1
           /\ Challenge(c).price \in Nat /\ Challenge(c).payTo \in Sellers
<1>1. /\ c.buyer \in Buyers /\ c.item \in 1..2 /\ c.round \in 1..Rounds
      /\ c.buyer \notin Bettors => c.round = 1
  BY PaymentsAssumption DEF Calls, Buyers
<1>2. Ware(c) \in {"odds", "trust", "input", "intake"}
  BY <1>1 DEF Ware, ShoppingList
<1>3. Challenge(c).price \in Nat /\ Challenge(c).payTo \in Sellers
  BY <1>2 DEF Challenge, Gate, OracleGate, MakeGate, Sellers
<1> QED
  BY <1>1, <1>3

(* A bettor's call has its like in every earlier round; a worker's is the   *)
(* only one.                                                               *)
LEMMA EarlierCalls ==
    ASSUME NEW c \in Calls, NEW i \in 1..2, NEW k \in 1..c.round
    PROVE  Call(c.buyer, i, k) \in Calls
BY PaymentsAssumption DEF Calls, Call

LEMMA QueueTerms ==
    ASSUME NEW q
    PROVE  ToSet(q) = Elements(q) /\ (IsInjective(q) <=> Distinct(q))
BY DEF ToSet, Elements, IsInjective, Distinct

-----------------------------------------------------------------------------
(* The steps.                                                              *)

LEMMA InitPay == Init => PayInv
<1> SUFFICES ASSUME Init PROVE PayInv
  OBVIOUS
<1> USE DEF Init
<1>1. PaymentsTypeOK
  BY PaymentsAssumption DEF PaymentsTypeOK, Answered, Failure
<1>2. ToSet(pool) = {} /\ IsInjective(pool)
  BY DEF ToSet, IsInjective
<1>3. InStep /\ ConsoleFollows /\ RoundsFailed
  BY DEF InStep, ConsoleFollows, RoundsFailed, Failure
<1>4. SentOnce /\ FailsForCause
  BY <1>2, PaymentsAssumption DEF SentOnce, SentOut, FailsForCause
<1> QED
  BY <1>1, <1>3, <1>4 DEF PayInv

(* A step is the chain's, one call's, or none.                             *)
LEMMA StepCases ==
    ASSUME [Next]_vars
    PROVE  \/ Mines \/ UNCHANGED vars
           \/ \E c \in Calls :
                 \/ Asks(c) \/ Signs(c) \/ Hears(c) \/ LosesSeller(c) \/ Expires(c)
                 \/ Checks(c) \/ Verifies(c) \/ LosesFacilitator(c) \/ Refuses(c)
                 \/ Serves(c) \/ Sells(c) \/ TakesIntake(c)
                 \/ VerifiesAgain(c) \/ Prepares(c) \/ Sends(c)
                 \/ HearsReceipt(c) \/ LosesReceipt(c)
BY DEF Next, BuyerStep, GateStep, FacStep, Loses

(* A block takes the head off the queue and decides it.                    *)
LEMMA BlockStep ==
    ASSUME PaymentsTypeOK, IsInjective(pool), Mines
    PROVE  \E c \in Calls :
              /\ c \in ToSet(pool) /\ ToSet(pool') = ToSet(pool) \ {c}
              /\ pool' \in Seq(Calls) /\ IsInjective(pool')
              /\ \/ WouldPass(c) /\ Transfers(c)
                 \/ ~WouldPass(c) /\ Fails(c)
              /\ UNCHANGED <<client, gate, fac, sent, seen, expired, doubted, reports>>
<1>1. pool \in Seq(Calls) /\ pool # <<>> /\ pool' = Tail(pool)
  BY DEF PaymentsTypeOK, Mines
<1>2. /\ Head(pool) \in ToSet(pool) /\ ToSet(pool') = ToSet(pool) \ {Head(pool)}
      /\ Head(pool) \in Calls /\ pool' \in Seq(Calls) /\ IsInjective(pool')
  BY <1>1, QueueTail, QueueTerms
<1>3. /\ \/ WouldPass(Head(pool)) /\ Transfers(Head(pool))
         \/ ~WouldPass(Head(pool)) /\ Fails(Head(pool))
      /\ UNCHANGED <<client, gate, fac, sent, seen, expired, doubted, reports>>
  BY DEF Mines, TransferWithAuthorization
<1> QED
  BY <1>2, <1>3

(* The relayer's account takes a call, or refuses its nonce.               *)
LEMMA SendStep ==
    ASSUME PaymentsTypeOK, NEW c \in Calls, Sends(c)
    PROVE  \/ /\ ToSet(pool') = ToSet(pool) \cup {c} /\ pool' \in Seq(Calls)
              /\ IsInjective(pool) /\ c \notin ToSet(pool) => IsInjective(pool')
              /\ fac' = Set(fac, c, "waiting")
           \/ UNCHANGED pool /\ fac' = Set(fac, c, "failed")
<1>1. pool \in Seq(Calls)
  BY DEF PaymentsTypeOK
<1>2. CASE seen[c] = sent
  <2>1. pool' = Append(pool, c) /\ fac' = Set(fac, c, "waiting")
    BY <1>2 DEF Sends, FacGoes
  <2> QED
    BY <1>1, <2>1, QueueAppend, QueueTerms
<1>3. CASE seen[c] # sent
  BY <1>3 DEF Sends, FacGoes
<1> QED
  BY <1>2, <1>3

LEMMA NextPayType ==
    ASSUME PaymentsTypeOK, IsInjective(pool), [Next]_vars
    PROVE  PaymentsTypeOK'
<1> USE DEF PaymentsTypeOK, Answered, Failure, Set, usdcVars, relayVars
<1>1. ASSUME NEW c \in Calls, Asks(c) \/ Signs(c) \/ Hears(c) \/ LosesSeller(c) \/ Expires(c)
      PROVE  PaymentsTypeOK'
  BY <1>1 DEF Asks, Signs, Hears, LosesSeller, Expires, Fault
<1>2. ASSUME NEW c \in Calls, Checks(c) \/ Verifies(c) \/ LosesFacilitator(c) \/ Refuses(c)
      PROVE  PaymentsTypeOK'
  BY <1>2 DEF Checks, Verifies, LosesFacilitator, Refuses, GateGoes, Fault
<1>3. ASSUME NEW c \in Calls, Serves(c) \/ Sells(c) \/ TakesIntake(c)
      PROVE  PaymentsTypeOK'
  <2>1. gate' \in [Calls -> Answered \cup {"none", "checking", "verifying", "settling"}]
    BY <1>3 DEF Serves, Sells, TakesIntake, GateGoes
  <2>2. reports' \subseteq Calls /\ doubted' \subseteq Calls
    BY <1>3 DEF Serves, Sells, TakesIntake, ReportPayment, Post, Fault
  <2> QED
    BY <1>3, <2>1, <2>2 DEF Serves, Sells, TakesIntake
<1>4. ASSUME NEW c \in Calls, VerifiesAgain(c) \/ Prepares(c) \/ HearsReceipt(c) \/ LosesReceipt(c)
      PROVE  PaymentsTypeOK'
  BY <1>4 DEF VerifiesAgain, Prepares, HearsReceipt, LosesReceipt, FacGoes, Fault
<1>5. ASSUME NEW c \in Calls, Sends(c)
      PROVE  PaymentsTypeOK'
  <2>1. pool' \in Seq(Calls) /\ fac' \in [Calls -> {"none", "verifying", "preparing",
                                  "sending", "waiting", "settled", "failed"}]
    BY <1>5, SendStep
  <2> QED
    BY <1>5, <2>1 DEF Sends
<1>6. CASE Mines
  <2>1. PICK c \in Calls :
           /\ pool' \in Seq(Calls)
           /\ \/ WouldPass(c) /\ Transfers(c)
              \/ ~WouldPass(c) /\ Fails(c)
           /\ UNCHANGED <<client, gate, fac, sent, seen, expired, doubted, reports>>
    BY <1>6, BlockStep
  <2>2. Challenge(c).price \in Nat /\ Challenge(c).payTo \in Sellers /\ c.buyer \in Buyers
    BY Challenges
  <2>3. CASE WouldPass(c) /\ Transfers(c)
    BY <2>1, <2>2, <2>3 DEF WouldPass, Transfers
  <2>4. CASE Fails(c)
    BY <2>1, <2>4 DEF Fails
  <2> QED
    BY <2>1, <2>3, <2>4
<1>7. CASE UNCHANGED vars
  BY <1>7 DEF vars
<1> QED
  BY <1>1, <1>2, <1>3, <1>4, <1>5, <1>6, <1>7, StepCases

LEMMA NextInStep ==
    ASSUME PaymentsTypeOK, InStep, [Next]_vars
    PROVE  InStep'
<1> USE DEF PaymentsTypeOK, InStep, Answered, Failure, Set, usdcVars, relayVars
<1>1. ASSUME NEW c \in Calls, Asks(c) \/ Signs(c) \/ Hears(c) \/ LosesSeller(c) \/ Expires(c)
      PROVE  InStep'
  BY <1>1 DEF Asks, Signs, Hears, LosesSeller, Expires
<1>2. ASSUME NEW c \in Calls, Checks(c) \/ Verifies(c) \/ LosesFacilitator(c) \/ Refuses(c)
      PROVE  InStep'
  BY <1>2 DEF Checks, Verifies, LosesFacilitator, Refuses, GateGoes
<1>3. ASSUME NEW c \in Calls, Serves(c) \/ Sells(c) \/ TakesIntake(c)
      PROVE  InStep'
  BY <1>3 DEF Serves, Sells, TakesIntake, GateGoes
<1>4. ASSUME NEW c \in Calls, VerifiesAgain(c) \/ Prepares(c) \/ Sends(c)
                              \/ HearsReceipt(c) \/ LosesReceipt(c)
      PROVE  InStep'
  BY <1>4 DEF VerifiesAgain, Prepares, Sends, HearsReceipt, LosesReceipt, FacGoes
<1>5. CASE Mines \/ UNCHANGED vars
  BY <1>5 DEF Mines, vars
<1> QED
  BY <1>1, <1>2, <1>3, <1>4, <1>5, StepCases

LEMMA NextSentOnce ==
    ASSUME PaymentsTypeOK, InStep, SentOnce, [Next]_vars
    PROVE  SentOnce'
<1> USE DEF PaymentsTypeOK, SentOnce, SentOut, Set, usdcVars, relayVars
<1>1. ASSUME UNCHANGED <<usdcVars, pool, fac>>, doubted \subseteq doubted'
      PROVE  SentOnce'
  BY <1>1
<1>2. ASSUME NEW c \in Calls, Asks(c) \/ Signs(c) \/ Hears(c) \/ LosesSeller(c) \/ Expires(c)
      PROVE  SentOnce'
  BY <1>1, <1>2 DEF Asks, Signs, Hears, LosesSeller, Expires, Fault
<1>3. ASSUME NEW c \in Calls, Checks(c) \/ LosesFacilitator(c) \/ Refuses(c)
      PROVE  SentOnce'
  BY <1>1, <1>3 DEF Checks, LosesFacilitator, Refuses, Fault
<1>4. ASSUME NEW c \in Calls, Serves(c) \/ Sells(c) \/ TakesIntake(c)
      PROVE  SentOnce'
  BY <1>1, <1>4 DEF Serves, Sells, TakesIntake, ReportPayment, Post, Fault
<1>5. ASSUME NEW c \in Calls, Verifies(c)
      PROVE  SentOnce'
  BY <1>5 DEF Verifies, GateGoes, InStep
<1>6. ASSUME NEW c \in Calls, VerifiesAgain(c) \/ Prepares(c) \/ HearsReceipt(c)
      PROVE  SentOnce'
  BY <1>6 DEF VerifiesAgain, Prepares, HearsReceipt, FacGoes
<1>7. ASSUME NEW c \in Calls, LosesReceipt(c)
      PROVE  SentOnce'
  BY <1>7 DEF LosesReceipt, FacGoes, Fault
<1>8. ASSUME NEW c \in Calls, Sends(c)
      PROVE  SentOnce'
  <2>1. fac[c] = "sending" /\ c \notin SentOut /\ UNCHANGED <<usdcVars, doubted>>
    BY <1>8 DEF Sends, FacGoes
  <2>2. CASE /\ ToSet(pool') = ToSet(pool) \cup {c} /\ IsInjective(pool')
             /\ fac' = Set(fac, c, "waiting")
    BY <2>1, <2>2
  <2>3. CASE UNCHANGED pool /\ fac' = Set(fac, c, "failed")
    BY <2>1, <2>3
  <2> QED
    BY <1>8, <2>1, <2>2, <2>3, SendStep
<1>9. CASE Mines
  <2>1. PICK c \in Calls :
           /\ c \in ToSet(pool) /\ ToSet(pool') = ToSet(pool) \ {c} /\ IsInjective(pool')
           /\ Transfers(c) \/ Fails(c)
           /\ UNCHANGED <<fac, doubted>>
    BY <1>9, BlockStep
  <2> QED
    BY <2>1 DEF Transfers, Fails
<1>10. CASE UNCHANGED vars
  BY <1>1, <1>10 DEF vars
<1> QED
  BY <1>2, <1>3, <1>4, <1>5, <1>6, <1>7, <1>8, <1>9, <1>10, StepCases

LEMMA NextFailsForCause ==
    ASSUME PaymentsTypeOK, SentOnce, FailsForCause, [Next]_vars
    PROVE  FailsForCause'
<1> USE DEF PaymentsTypeOK, FailsForCause, Set, usdcVars, relayVars
<1>1. ASSUME UNCHANGED <<usdcVars, pool>>, expired \subseteq expired',
             \A d \in Calls : fac'[d] = "sending" =>
                 fac[d] = "sending" \/ Challenge(d).price <= Funds[d.buyer]
      PROVE  FailsForCause'
  BY <1>1
<1>2. ASSUME NEW c \in Calls, Asks(c) \/ Signs(c) \/ Hears(c) \/ LosesSeller(c) \/ Expires(c)
      PROVE  FailsForCause'
  BY <1>1, <1>2 DEF Asks, Signs, Hears, LosesSeller, Expires
<1>3. ASSUME NEW c \in Calls, \/ Checks(c) \/ LosesFacilitator(c) \/ Refuses(c)
                              \/ Serves(c) \/ Sells(c) \/ TakesIntake(c)
      PROVE  FailsForCause'
  BY <1>1, <1>3 DEF Checks, LosesFacilitator, Refuses, Serves, Sells, TakesIntake
<1>4. ASSUME NEW c \in Calls, Verifies(c) \/ VerifiesAgain(c) \/ HearsReceipt(c) \/ LosesReceipt(c)
      PROVE  FailsForCause'
  <2>1. \A d \in Calls : fac'[d] = "sending" => fac[d] = "sending"
    BY <1>4 DEF Verifies, VerifiesAgain, HearsReceipt, LosesReceipt, FacGoes
  <2> QED
    BY <1>1, <1>4, <2>1 DEF Verifies, VerifiesAgain, HearsReceipt, LosesReceipt
<1>5. ASSUME NEW c \in Calls, Prepares(c)
      PROVE  FailsForCause'
  \* The estimate looks at the balance.
  <2>1. ASSUME WouldPass(c) PROVE Challenge(c).price <= Funds[c.buyer]
    BY <2>1, Challenges, PaymentsAssumption DEF WouldPass
  <2> QED
    BY <1>1, <1>5, <2>1 DEF Prepares, FacGoes
<1>6. ASSUME NEW c \in Calls, Sends(c)
      PROVE  FailsForCause'
  <2>1. fac[c] = "sending" /\ UNCHANGED <<usdcVars, expired>>
    BY <1>6 DEF Sends, FacGoes
  <2>2. \A d \in Calls : fac'[d] = "sending" \/ d \in ToSet(pool') =>
                         fac[d] = "sending" \/ d \in ToSet(pool)
    BY <1>6, <2>1, SendStep
  <2> QED
    BY <2>1, <2>2
<1>7. CASE Mines
  <2>1. PICK c \in Calls :
           /\ c \in ToSet(pool) /\ ToSet(pool') = ToSet(pool) \ {c}
           /\ \/ WouldPass(c) /\ Transfers(c)
              \/ ~WouldPass(c) /\ Fails(c)
           /\ UNCHANGED <<fac, expired>>
    BY <1>7, BlockStep DEF SentOnce
  <2>2. /\ Challenge(c).price \in Nat /\ c.buyer \in Buyers
        /\ \A b \in Buyers : balance[b] \in Nat /\ Funds[b] \in Nat
    BY Challenges, PaymentsAssumption
  <2>3. CASE WouldPass(c) /\ Transfers(c)
    <3>1. /\ used' = used \cup {c} /\ UNCHANGED reverted
          /\ balance' = [balance EXCEPT ![c.buyer] = balance[c.buyer] - Challenge(c).price]
      BY <2>3 DEF Transfers
    <3>2. \A b \in Buyers : balance'[b] <= Funds[b] /\ (b # c.buyer => balance'[b] = balance[b])
      <4> SUFFICES ASSUME NEW b \in Buyers
                   PROVE  balance'[b] <= Funds[b] /\ (b # c.buyer => balance'[b] = balance[b])
        OBVIOUS
      <4>1. b # c.buyer => balance'[b] = balance[b]
        BY <3>1
      <4>2. b = c.buyer => balance'[b] = balance[b] - Challenge(c).price
        BY <3>1
      <4> QED
        BY <4>1, <4>2, <2>2
    <3> QED
      BY <2>1, <3>1, <3>2
  <2>4. CASE ~WouldPass(c) /\ Fails(c)
    <3>1. c \notin used /\ Challenge(c).price <= Funds[c.buyer]
      BY <2>1 DEF SentOnce
    <3>2. c \in expired \/ balance[c.buyer] < Challenge(c).price
      BY <2>4, <2>2, <3>1 DEF WouldPass, Valid
    <3>3. c \in expired \/ \E d \in used : d.buyer = c.buyer
      <4>1. CASE \A d \in used : d.buyer # c.buyer
        <5>1. balance[c.buyer] = Funds[c.buyer]
          BY <4>1, <2>2
        <5> QED
          BY <5>1, <2>2, <3>1, <3>2
      <4> QED
        BY <4>1
    <3> QED
      BY <2>1, <2>4, <3>3 DEF Fails
  <2> QED
    BY <2>1, <2>3, <2>4
<1>8. CASE UNCHANGED vars
  BY <1>1, <1>8 DEF vars
<1> QED
  BY <1>2, <1>3, <1>4, <1>5, <1>6, <1>7, <1>8, StepCases

LEMMA NextRoundsFailed ==
    ASSUME PaymentsTypeOK, InStep, RoundsFailed, [Next]_vars
    PROVE  RoundsFailed'
<1> USE DEF PaymentsTypeOK, RoundsFailed, Answered, Failure, Set, usdcVars, relayVars
\* Failures stay, and nothing is asked but in Asks.
<1>1. ASSUME \A c \in Calls :
               /\ client[c] \in Failure => client'[c] = client[c]
               /\ client'[c] # "idle" => client[c] # "idle"
               /\ gate[c] \in {"404", "402"} => gate'[c] = gate[c]
               /\ gate'[c] = "502" => gate[c] = "502" \/ c \in doubted'
               /\ client'[c] \in Failure \ {client[c]} =>
                     c \in doubted' \/ gate'[c] \in {"404", "402"},
             doubted \subseteq doubted'
      PROVE  RoundsFailed'
  <2>1. ASSUME NEW c \in Calls, client'[c] # "idle", NEW k \in 1..(c.round - 1)
        PROVE  \E i \in 1..2 : client'[Call(c.buyer, i, k)] \in Failure
    <3>1. PICK i \in 1..2 : client[Call(c.buyer, i, k)] \in Failure
      BY <1>1, <2>1
    <3>2. Call(c.buyer, i, k) \in Calls
      BY EarlierCalls, Challenges
    <3> QED
      BY <1>1, <3>1, <3>2
  <2>2. ASSUME NEW c \in Calls
        PROVE  /\ gate'[c] = "502" => c \in doubted'
               /\ client'[c] \in Failure => c \in doubted' \/ gate'[c] \in {"404", "402"}
    BY <1>1
  <2> QED
    BY <2>1, <2>2
<1>2. ASSUME NEW c \in Calls, Signs(c) \/ Hears(c) \/ LosesSeller(c) \/ Expires(c)
      PROVE  RoundsFailed'
  BY <1>1, <1>2 DEF Signs, Hears, LosesSeller, Expires, Fault, InStep
<1>3. ASSUME NEW c \in Calls, Checks(c) \/ Verifies(c) \/ LosesFacilitator(c) \/ Refuses(c)
      PROVE  RoundsFailed'
  BY <1>1, <1>3 DEF Checks, Verifies, LosesFacilitator, Refuses, GateGoes, Fault
<1>4. ASSUME NEW c \in Calls, Serves(c) \/ Sells(c) \/ TakesIntake(c)
      PROVE  RoundsFailed'
  BY <1>1, <1>4 DEF Serves, Sells, TakesIntake, GateGoes, ReportPayment, Post, Fault
<1>5. ASSUME NEW c \in Calls, \/ VerifiesAgain(c) \/ Prepares(c) \/ Sends(c)
                              \/ HearsReceipt(c) \/ LosesReceipt(c)
      PROVE  RoundsFailed'
  BY <1>1, <1>5 DEF VerifiesAgain, Prepares, Sends, HearsReceipt, LosesReceipt, Fault
<1>6. ASSUME NEW c \in Calls, Asks(c)
      PROVE  RoundsFailed'
  <2>1. /\ client[c] = "idle" /\ Due(c) /\ UNCHANGED <<gate, doubted>>
        /\ client' = [client EXCEPT ![c] = "challenged"]
    BY <1>6 DEF Asks
  <2>2. \A d \in Calls : client[d] \in Failure <=> client'[d] \in Failure
    BY <2>1
  \* A call that is due has bad news in every round before its own.
  <2>3. ASSUME NEW k \in 1..(c.round - 1)
        PROVE  \E i \in 1..2 : client[Call(c.buyer, i, k)] \in Failure
    <3>1. c.round \in Nat /\ c.round > 1 /\ c.buyer \in Bettors
      BY Challenges
    <3>2. CASE c.item = 2
      <4>1. Call(c.buyer, 1, c.round) \in Calls
        BY EarlierCalls, <3>1
      <4>2. client[Call(c.buyer, 1, c.round)] = "200"
        BY <2>1, <3>1, <3>2 DEF Due
      <4> QED
        BY <4>1, <4>2 DEF Call
    <3>3. CASE c.item # 2
      <4>1. PICK j \in 1..2 : client[Call(c.buyer, j, c.round - 1)] \in Failure
        BY <2>1, <3>1, <3>3 DEF Due
      <4>2. CASE k = c.round - 1
        BY <4>1, <4>2
      <4>3. CASE k # c.round - 1
        <5>1. Call(c.buyer, j, c.round - 1) \in Calls /\ k \in 1..((c.round - 1) - 1)
          BY <3>1, <4>3, EarlierCalls
        <5> QED
          BY <4>1, <5>1 DEF Call
      <4> QED
        BY <4>2, <4>3
    <3> QED
      BY <3>2, <3>3
  <2>4. ASSUME NEW d \in Calls, client'[d] # "idle", NEW k \in 1..(d.round - 1)
        PROVE  \E i \in 1..2 : client'[Call(d.buyer, i, k)] \in Failure
    <3>1. PICK i \in 1..2 : client[Call(d.buyer, i, k)] \in Failure
      BY <2>1, <2>3, <2>4
    <3>2. Call(d.buyer, i, k) \in Calls
      BY EarlierCalls, Challenges
    <3> QED
      BY <2>2, <3>1, <3>2
  <2>5. ASSUME NEW d \in Calls
        PROVE  /\ gate'[d] = "502" => d \in doubted'
               /\ client'[d] \in Failure => d \in doubted' \/ gate'[d] \in {"404", "402"}
    BY <2>1
  <2> QED
    BY <2>4, <2>5
<1>7. CASE Mines \/ UNCHANGED vars
  BY <1>1, <1>7 DEF Mines, vars
<1> QED
  BY <1>2, <1>3, <1>4, <1>5, <1>6, <1>7, StepCases

LEMMA NextConsoleFollows ==
    ASSUME PaymentsTypeOK, InStep, ConsoleFollows, [Next]_vars
    PROVE  ConsoleFollows'
<1> USE DEF PaymentsTypeOK, ConsoleFollows, Answered, Failure, Set, usdcVars, relayVars
<1>1. ASSUME NEW c \in Calls, Asks(c) \/ Signs(c) \/ Hears(c) \/ LosesSeller(c) \/ Expires(c)
      PROVE  ConsoleFollows'
  BY <1>1 DEF Asks, Signs, Hears, LosesSeller, Expires, Fault
<1>2. ASSUME NEW c \in Calls, Checks(c) \/ LosesFacilitator(c) \/ Refuses(c)
      PROVE  ConsoleFollows'
  BY <1>2 DEF Checks, LosesFacilitator, Refuses, GateGoes, Fault
<1>3. ASSUME NEW c \in Calls, Verifies(c)
      PROVE  ConsoleFollows'
  BY <1>3 DEF Verifies, GateGoes, InStep
<1>4. ASSUME NEW c \in Calls, Serves(c)
      PROVE  ConsoleFollows'
  BY <1>4 DEF Serves, GateGoes
<1>5. ASSUME NEW c \in Calls, Sells(c) \/ TakesIntake(c)
      PROVE  ConsoleFollows'
  BY <1>5 DEF Sells, TakesIntake, GateGoes, ReportPayment, Post, Fault
<1>6. ASSUME NEW c \in Calls, VerifiesAgain(c) \/ Prepares(c) \/ Sends(c)
                              \/ HearsReceipt(c) \/ LosesReceipt(c)
      PROVE  ConsoleFollows'
  BY <1>6 DEF VerifiesAgain, Prepares, Sends, HearsReceipt, LosesReceipt, FacGoes, Fault
<1>7. CASE Mines \/ UNCHANGED vars
  BY <1>7 DEF Mines, vars
<1> QED
  BY <1>1, <1>2, <1>3, <1>4, <1>5, <1>6, <1>7, StepCases

LEMMA PayInvariance == Spec => []PayInv
<1>1. PayInv /\ [Next]_vars => PayInv'
  BY NextPayType, NextInStep, NextSentOnce, NextFailsForCause, NextRoundsFailed,
     NextConsoleFollows DEF PayInv, SentOnce
<1> QED
  BY <1>1, InitPay, PTL DEF Spec

-----------------------------------------------------------------------------
(* What follows.                                                           *)

(* A refused buyer keeps its money, and no route answers for nothing but   *)
(* for a race of the buyer with itself or with its window: for any number  *)
(* of buyers, calls in flight and faults (x402-lite.ts reject, next;       *)
(* facilitator-local.ts /verify, /settle).                                 *)
THEOREM ServiceIsPaidFor == Spec => []ServedForPayment
<1>1. PayInv => RefusalIsFree
  BY DEF PayInv, InStep, SentOnce, SentOut, RefusalIsFree, Paid, InFlight
<1>2. PayInv => FreeServiceNeedsARace
  BY DEF PayInv, InStep, SentOnce, FailsForCause, FreeServiceNeedsARace, Paid
<1>3. PayInv => ServedForPayment
  BY <1>1, <1>2 DEF PayInv, ServedForPayment
<1> QED
  BY <1>3, PayInvariance, PTL

(* A buyer pays again for what it has bought only when a call of the round *)
(* it had paid in was lost, refused or came to nothing, however many       *)
(* rounds later (bettor-runtime.ts tick; wrapFetchWithPayment).            *)
THEOREM PaidOncePerPurchase == Spec => []OnePaymentPerPurchase
<1>1. PayInv => OnePaymentPerPurchase
  <2> SUFFICES ASSUME PayInv, NEW c \in Paid, NEW d \in Paid, c.buyer = d.buyer,
                      c.round < d.round
               PROVE  \E e \in RoundOf(c) : e \in doubted \/ gate[e] \in {"404", "402"}
    BY DEF OnePaymentPerPurchase
  <2>1. c \in Calls /\ d \in Calls
    BY DEF PayInv, PaymentsTypeOK, Paid
  <2>2. client[d] # "idle"
    BY <2>1 DEF PayInv, SentOnce, SentOut, InStep, Paid
  <2>3. c.round \in 1..(d.round - 1)
    BY <2>1, Challenges
  <2>4. PICK i \in 1..2 : client[Call(d.buyer, i, c.round)] \in Failure
    BY <2>1, <2>2, <2>3 DEF PayInv, RoundsFailed
  <2>5. Call(d.buyer, i, c.round) \in RoundOf(c)
    BY <2>1, <2>3, EarlierCalls, Challenges DEF RoundOf, Call
  <2> QED
    BY <2>4, <2>5 DEF PayInv, RoundsFailed, RoundOf
<1> QED
  BY <1>1, PayInvariance, PTL

(* What the console shows and what the contract moved differ only by calls *)
(* in doubt, by 404s and by transfers that failed (api.ts, vendor.ts and   *)
(* validator.ts report; MockUSDC.sol transferWithAuthorization).           *)
THEOREM ConsoleAgrees == Spec => []ConsoleMatchesRevenue
<1>1. PayInv => ConsoleMatchesRevenue
  <2> SUFFICES ASSUME PayInv, \A c \in Calls : ~InFlight(c) /\ gate[c] # "settling"
               PROVE  /\ \A c \in Paid \ reports : c \in doubted \/ gate[c] = "404"
                      /\ reports \ Paid \subseteq reverted
    BY DEF ConsoleMatchesRevenue
  <2>1. reports \subseteq Calls /\ used \subseteq Calls
    BY DEF PayInv, PaymentsTypeOK
  <2>2. reports \ Paid \subseteq reverted
    BY <2>1 DEF PayInv, ConsoleFollows, SentOnce, Paid
  <2>3. ASSUME NEW c \in Paid \ reports, c \notin doubted PROVE gate[c] = "404"
    <3>1. c \in Calls /\ c \in used /\ fac[c] = "settled"
      BY <2>1, <2>3 DEF PayInv, SentOnce, SentOut, Paid, InFlight
    <3>2. gate[c] \in {"404", "200", "502", "error", "402", "none", "checking", "verifying"}
      BY <3>1 DEF PayInv, PaymentsTypeOK, Answered, Failure
    <3> QED
      BY <2>3, <3>1, <3>2 DEF PayInv, InStep, ConsoleFollows, RoundsFailed
  <2> QED
    BY <2>2, <2>3
<1> QED
  BY <1>1, PayInvariance, PTL
=============================================================================
