---------------------------- MODULE PaymentSafety ---------------------------
(***************************************************************************)
(* What buyers and sellers may rely on when they trade over x402.          *)
(***************************************************************************)
EXTENDS Payments

Paid == used
InFlight(c) == fac[c] \in {"verifying", "preparing", "sending", "waiting"}
RoundOf(c) == {d \in Calls : d.buyer = c.buyer /\ d.round = c.round}

\* Type invariant of the calls, the USDC contract and the relayer's account
\* (x402-lite.ts, facilitator-local.ts, MockUSDC.sol).
PaymentsTypeOK ==
    /\ client \in [Calls -> Answered \cup {"idle", "challenged", "waiting"}]
    /\ gate \in [Calls -> Answered \cup {"none", "checking", "verifying", "settling"}]
    /\ fac \in [Calls -> {"none", "verifying", "preparing", "sending", "waiting",
                          "settled", "failed"}]
    /\ balance \in [Buyers -> Nat] /\ revenue \in [Sellers -> Nat] /\ sent \in Nat
    /\ used \subseteq Calls /\ reverted \subseteq Calls
    /\ pool \in Seq(Calls) /\ seen \in [Calls -> Nat]
    /\ expired \subseteq Calls /\ doubted \subseteq Calls /\ reports \subseteq Calls

\* A buyer told 402 keeps its money, now and later, unless the facilitator gave
\* up waiting for the receipt (x402-lite.ts reject; facilitator-local.ts /settle).
RefusalIsFree ==
    \A c \in Calls : gate[c] = "402" /\ c \notin doubted =>
        c \notin Paid /\ c \notin ToSet(pool) /\ ~InFlight(c)

\* A route answers for nothing only if, between the estimate and the block, the
\* buyer's money went to another of its calls or the window closed
\* (facilitator-local.ts reads no receipt status).
FreeServiceNeedsARace ==
    \A c \in Calls : gate[c] \in {"200", "404"} /\ c \notin Paid =>
        c \in expired \/ \E d \in Paid \ {c} : d.buyer = c.buyer

\* A buyer pays twice for the same thing only after a round in which some call
\* lost its answer, came to a 404 or was refused (wrapFetchWithPayment signs a
\* fresh nonce on every call; a tick that fails half way buys the odds again).
OnePaymentPerPurchase ==
    \A c, d \in Paid : c.buyer = d.buyer /\ c.item = d.item /\ c.round < d.round =>
        \E e \in RoundOf(c) : e \in doubted \/ gate[e] \in {"404", "402"}

\* Once the dust settles the seller's revenue exceeds what the console was told
\* by the calls in doubt or answered 404, and falls short by the free services.
ConsoleMatchesRevenue ==
    (\A c \in Calls : ~InFlight(c) /\ gate[c] # "settling") /\ pool = <<>> =>
        /\ \A c \in Paid \ reports : c \in doubted \/ gate[c] = "404"
        /\ reports \ Paid \subseteq reverted

\* Every call is answered or lost in the end, however many settle at once
\* (x402Middleware answers on each path; the wait for a receipt ends).
CallsEnd == \A c \in Calls : client[c] \in {"challenged", "waiting"} ~> client[c] \in Answered

\* Who pays is served and who is served has paid, up to the races and lost
\* receipts that the parts name (x402-lite.ts, facilitator-local.ts, MockUSDC.sol).
ServedForPayment == PaymentsTypeOK /\ RefusalIsFree /\ FreeServiceNeedsARace
=============================================================================
