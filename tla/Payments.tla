------------------------------ MODULE Payments ------------------------------
(***************************************************************************)
(* x402: a purchase from the buyer's fetch (shared/x402-lite), through the *)
(* seller's gate and the local facilitator, to transferWithAuthorization   *)
(* on the USDC contract.  The gate, the facilitator and the relayer's      *)
(* transaction each have their own program counter: a connection can be    *)
(* lost while the far end goes on.                                         *)
(***************************************************************************)
EXTENDS Integers, Sequences, SequencesExt, FiniteSets

CONSTANTS Bettors, Workers,    \* the buyers
          Rounds,              \* bound on the rounds a buyer makes
          Funds,               \* what each has at the start
          MaxFaults            \* bound on lost replies and outlived authorizations

Buyers == Bettors \cup Workers
ASSUME PaymentsAssumption == Rounds \in Nat \ {0} /\ Funds \in [Buyers -> Nat]

-----------------------------------------------------------------------------
(* What is sold, by whom, at what price (in $0.001).                       *)

OracleGate(price) == [payTo |-> "server", price |-> price]
MakeGate(payTo, price) == [payTo |-> payTo, price |-> price]
Gate(ware) == CASE ware = "odds" -> OracleGate(1)
                [] ware = "trust" -> OracleGate(5)
                [] ware = "input" -> MakeGate("vendor", 10)
                [] ware = "intake" -> MakeGate("validator", 10)
Sellers == {"server", "vendor", "validator"}

\* A bettor's tick needs the odds, then the worker's trust tuple; a worker's
\* delivery buys a hint, then pays the intake.
ShoppingList(b) == IF b \in Bettors THEN <<"odds", "trust">> ELSE <<"input", "intake">>

\* A call signs one authorization; the call's name is its random nonce.
Call(b, i, k) == [buyer |-> b, item |-> i, round |-> k]
Calls == [buyer : Bettors, item : 1..2, round : 1..Rounds]
            \cup [buyer : Workers, item : 1..2, round : {1}]
Ware(c) == ShoppingList(c.buyer)[c.item]
\* The 402 challenge, and the authorization the buyer signs over it.
Challenge(c) == Gate(Ware(c))

VARIABLES client, gate, fac,                       \* where each call stands
          balance, revenue, used, reverted,        \* the USDC contract
          pool, sent, seen,                        \* the relayer's account
          expired, doubted, reports

usdcVars == <<balance, revenue, used, reverted>>
relayVars == <<pool, sent, seen>>
vars == <<client, gate, fac, usdcVars, relayVars, expired, doubted, reports>>

Failure == {"402", "404", "502", "error"}
Answered == Failure \cup {"200"}

Set(f, c, v) == [f EXCEPT ![c] = v]

-----------------------------------------------------------------------------
(* The buyers, and their wrapFetchWithPayment.                             *)

\* Seeded fault: a bettor's round is followed by another whatever became of it.
AlwaysDue(c) ==
    LET before == Call(c.buyer, 3 - c.item, IF c.item = 1 THEN c.round - 1 ELSE c.round)
    IN  before \in Calls => client[before] \in Answered

\* A bettor whose tick failed at either purchase starts over with the odds; a
\* worker buys once and goes on whatever the answers.
Due(c) ==
    IF c.item = 2
    THEN client[Call(c.buyer, 1, c.round)] \in (IF c.buyer \in Bettors THEN {"200"} ELSE Answered)
    ELSE c.round > 1 => \E i \in 1..2 : client[Call(c.buyer, i, c.round - 1)] \in Failure

\* The first request, without payment: the gate answers with its challenge.
Asks(c) ==
    /\ client[c] = "idle" /\ Due(c)
    /\ client' = Set(client, c, "challenged")
    /\ UNCHANGED <<gate, fac, usdcVars, relayVars, expired, doubted, reports>>

\* The buyer signs what the challenge asks for and sends the request again.
Signs(c) ==
    /\ client[c] = "challenged"
    /\ client' = Set(client, c, "waiting") /\ gate' = Set(gate, c, "checking")
    /\ UNCHANGED <<fac, usdcVars, relayVars, expired, doubted, reports>>

Hears(c) ==
    /\ client[c] = "waiting" /\ gate[c] \in Answered
    /\ client' = Set(client, c, gate[c])
    /\ UNCHANGED <<gate, fac, usdcVars, relayVars, expired, doubted, reports>>

\* What the network may do to call c; `doubted` remembers that it did.
Fault(c) ==
    /\ Cardinality(doubted) + Cardinality(expired) < MaxFaults /\ c \notin doubted
    /\ doubted' = doubted \cup {c}

\* The connection to the seller breaks: fetch throws, the seller goes on.
LosesSeller(c) ==
    /\ client[c] \in {"challenged", "waiting"}
    /\ client' = Set(client, c, "error")
    /\ Fault(c)
    /\ UNCHANGED <<gate, fac, usdcVars, relayVars, expired, reports>>

-----------------------------------------------------------------------------
(* The seller: x402Middleware in front of a route.                         *)

GateGoes(c, from, to) == gate[c] = from /\ gate' = Set(gate, c, to)

\* Scheme, network, price and payee are the challenge's own; the window is checked.
Checks(c) ==
    /\ GateGoes(c, "checking", IF c \in expired THEN "402" ELSE "verifying")
    /\ UNCHANGED <<client, fac, usdcVars, relayVars, expired, doubted, reports>>

Valid(c) == c \notin used /\ c \notin expired

\* POST /verify: the facilitator reads authorizationState.
Verifies(c) ==
    /\ GateGoes(c, "verifying", IF Valid(c) THEN "settling" ELSE "402")
    /\ fac' = IF Valid(c) THEN Set(fac, c, "verifying") ELSE fac
    /\ UNCHANGED <<client, usdcVars, relayVars, expired, doubted, reports>>

\* The facilitator does not answer: 502, whatever became of the transfer.
LosesFacilitator(c) ==
    /\ gate[c] \in {"verifying", "settling"}
    /\ gate' = Set(gate, c, "502")
    /\ Fault(c)
    /\ UNCHANGED <<client, fac, usdcVars, relayVars, expired, reports>>

\* Seeded fault: the seller does not wait for the facilitator's receipt.
RefusesEarly(c) ==
    /\ fac[c] \in {"waiting", "failed"} /\ GateGoes(c, "settling", "402")
    /\ UNCHANGED <<client, fac, usdcVars, relayVars, expired, doubted, reports>>

\* The facilitator answered success: false.
Refuses(c) ==
    /\ fac[c] = "failed" /\ GateGoes(c, "settling", "402")
    /\ UNCHANGED <<client, fac, usdcVars, relayVars, expired, doubted, reports>>

\* Seeded fault: success is not read.
ServesAnyway(c) ==
    /\ fac[c] \in {"settled", "failed"} /\ Challenge(c).payTo = "server"
    /\ GateGoes(c, "settling", "200") /\ reports' = reports \cup {c}
    /\ UNCHANGED <<client, fac, usdcVars, relayVars, expired, doubted>>

\* Seeded fault: the route does not report.
ServesInSilence(c) ==
    /\ fac[c] = "settled" /\ Challenge(c).payTo = "server"
    /\ GateGoes(c, "settling", "200") \/ GateGoes(c, "settling", "404")
    /\ UNCHANGED <<client, fac, usdcVars, relayVars, expired, doubted, reports>>

\* next() on the server's routes: the payment goes to the console at once.  The
\* odds of a task the server does not know are a 404 all the same, unreported.
Serves(c) ==
    /\ fac[c] = "settled" /\ Challenge(c).payTo = "server"
    /\ \/ GateGoes(c, "settling", "200") /\ reports' = reports \cup {c}
       \/ Ware(c) = "odds" /\ GateGoes(c, "settling", "404") /\ UNCHANGED reports
    /\ UNCHANGED <<client, fac, usdcVars, relayVars, expired, doubted>>

\* POST to the console: it gets through, or fails and nobody learns of it.
Post(c) == \/ reports' = reports \cup {c} /\ UNCHANGED doubted
           \/ Fault(c) /\ UNCHANGED reports
ReportPayment(c) == Post(c)

\* next() at the vendor.
Sells(c) ==
    /\ fac[c] = "settled" /\ Challenge(c).payTo = "vendor"
    /\ GateGoes(c, "settling", "200") /\ ReportPayment(c)
    /\ UNCHANGED <<client, fac, usdcVars, relayVars, expired>>

\* next() at the validator: the intake is recorded nowhere but on the console.
TakesIntake(c) ==
    /\ fac[c] = "settled" /\ Challenge(c).payTo = "validator"
    /\ GateGoes(c, "settling", "200") /\ ReportPayment(c)
    /\ UNCHANGED <<client, fac, usdcVars, relayVars, expired>>

-----------------------------------------------------------------------------
(* The facilitator's /settle, and the relayer's account.                   *)

FacGoes(c, from, to) == fac[c] = from /\ fac' = Set(fac, c, to)

VerifiesAgain(c) ==
    /\ FacGoes(c, "verifying", IF Valid(c) THEN "preparing" ELSE "failed")
    /\ UNCHANGED <<client, gate, usdcVars, relayVars, expired, doubted, reports>>

WouldPass(c) == Valid(c) /\ balance[c.buyer] >= Challenge(c).price

\* writeContract, first half: gas is estimated on the chain as it is, and the
\* account's next nonce is read.
Prepares(c) ==
    /\ FacGoes(c, "preparing", IF WouldPass(c) THEN "sending" ELSE "failed")
    /\ seen' = Set(seen, c, sent)
    /\ UNCHANGED <<client, gate, usdcVars, pool, sent, expired, doubted, reports>>

\* Second half: the node takes the transaction unless its nonce is taken.
Sends(c) ==
    /\ FacGoes(c, "sending", IF seen[c] = sent THEN "waiting" ELSE "failed")
    /\ IF seen[c] = sent THEN pool' = Append(pool, c) /\ sent' = sent + 1
       ELSE UNCHANGED <<pool, sent>>
    /\ UNCHANGED <<client, gate, usdcVars, seen, expired, doubted, reports>>

\* Seeded fault: only a transfer that passed ends the wait.
HearsSuccess(c) ==
    /\ c \in used
    /\ FacGoes(c, "waiting", "settled")
    /\ UNCHANGED <<client, gate, usdcVars, relayVars, expired, doubted, reports>>

\* waitForTransactionReceipt: any receipt will do, its status is not read.
HearsReceipt(c) ==
    /\ c \in used \cup reverted
    /\ FacGoes(c, "waiting", "settled")
    /\ UNCHANGED <<client, gate, usdcVars, relayVars, expired, doubted, reports>>

\* The wait times out: success is false, the transaction is still out there.
LosesReceipt(c) ==
    /\ FacGoes(c, "waiting", "failed")
    /\ Fault(c)
    /\ UNCHANGED <<client, gate, usdcVars, relayVars, expired, reports>>

-----------------------------------------------------------------------------
(* The chain mines the relayer's transactions in nonce order.              *)

\* The price moves from the buyer to the payee the authorization names.
Transfers(c) ==
    /\ balance' = [balance EXCEPT ![c.buyer] = @ - Challenge(c).price]
    /\ revenue' = [revenue EXCEPT ![Challenge(c).payTo] = @ + Challenge(c).price]
    /\ used' = used \cup {c} /\ UNCHANGED reverted
Fails(c) == reverted' = reverted \cup {c} /\ UNCHANGED <<balance, revenue, used>>

\* Seeded fault: the transfer does not look at the balance.
TransfersBlind(c) == IF Valid(c) THEN Transfers(c) ELSE Fails(c)
\* A nonce is good once, inside its window, if the balance covers it.
TransferWithAuthorization(c) == IF WouldPass(c) THEN Transfers(c) ELSE Fails(c)

Mines ==
    /\ pool # <<>>
    /\ TransferWithAuthorization(Head(pool)) /\ pool' = Tail(pool)
    /\ UNCHANGED <<client, gate, fac, sent, seen, expired, doubted, reports>>

\* validBefore passes, 600 s after the signature.
Expires(c) ==
    /\ client[c] \notin {"idle", "challenged"} /\ c \notin expired
    /\ Cardinality(doubted) + Cardinality(expired) < MaxFaults
    /\ expired' = expired \cup {c}
    /\ UNCHANGED <<client, gate, fac, usdcVars, relayVars, doubted, reports>>

-----------------------------------------------------------------------------
Init ==
    /\ client = [c \in Calls |-> "idle"]
    /\ gate = [c \in Calls |-> "none"] /\ fac = [c \in Calls |-> "none"]
    /\ balance = Funds /\ revenue = [s \in Sellers |-> 0] /\ used = {} /\ reverted = {}
    /\ pool = <<>> /\ sent = 0 /\ seen = [c \in Calls |-> 0]
    /\ expired = {} /\ doubted = {} /\ reports = {}

BuyerStep(c) == Signs(c) \/ Hears(c)
GateStep(c) == Checks(c) \/ Verifies(c) \/ Refuses(c)
               \/ Serves(c) \/ Sells(c) \/ TakesIntake(c)
FacStep(c) == VerifiesAgain(c) \/ Prepares(c) \/ Sends(c) \/ HearsReceipt(c)
Loses(c) == LosesSeller(c) \/ LosesFacilitator(c) \/ LosesReceipt(c)

Next == \/ Mines
        \/ \E c \in Calls : \/ Asks(c) \/ BuyerStep(c) \/ GateStep(c)
                            \/ FacStep(c) \/ Loses(c) \/ Expires(c)

\* The processes run and the chain mines; a buyer need not buy.
Spec == Init /\ [][Next]_vars
FairSpec ==
    /\ Spec /\ WF_vars(Mines)
    /\ \A c \in Calls : WF_vars(BuyerStep(c)) /\ WF_vars(GateStep(c)) /\ WF_vars(FacStep(c))
=============================================================================
