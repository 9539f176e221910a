---------------------------- MODULE ControlSafety ---------------------------
(***************************************************************************)
(* What the control plane's replies are worth.                             *)
(***************************************************************************)
EXTENDS ControlPlane

Mine(r) == {i \in DOMAIN tasks : tasks[i].by = r}

\* Type invariant of the request handlers, the wallets and the chain's markets
\* (control.ts makeControl).
ControlTypeOK ==
    /\ at \in [Requests -> {"idle", "start", "approving", "ready", "simulated",
                            "sending approval", "waiting approval", "sending", "waiting",
                            "done", "error"}]
    /\ files \subseteq Questions
    /\ approved \in [Wallets -> BOOLEAN] /\ allowance \in [Wallets -> BOOLEAN]
    /\ \A w \in Wallets : funds[w] \in 0..Funds /\ sent[w] >= Len(pool[w])
    /\ \A r \in Requests : guess[r][1] \in 0..(Len(tasks) + 1) /\ seen[r] <= sent[WalletOf(r)]
    /\ \A i \in DOMAIN tasks, side \in Sides : tasks[i].pools[side] \in 0..CAP

\* The approved flag goes up only once the allowance is on the chain, however
\* many first requests race through approveOnce (control.ts:122, :142).
FlagFollowsAllowance == \A w \in Wallets : approved[w] => allowance[w]

\* A request answered with an error opened no market and placed no bet, and will
\* not, unless the wait for its receipt timed out (api.ts create_failed, bet_failed).
ErrorIsFree ==
    \A r \in Requests : at[r] = "error" /\ r \notin doubted =>
        Mine(r) = {} /\ r \notin bets /\ ~Waits(r)

\* A reply names a wrong market only when another market took the number between
\* simulation and block, or the call was reverted because, in between, the contract
\* was paused, the wallet's money went to another call, or the margin ran out
\* (control.ts:206 and createTask, which reads no receipt status).
WrongNumberNeedsARace ==
    \A r \in Markets : at[r] = "done" /\ Mine(r) # {guess[r][1]} =>
        \/ Mine(r) # {} /\ guess[r][1] \in DOMAIN tasks /\ tasks[guess[r][1]].by # r
        \/ Mine(r) = {} /\ met[r] \cap {"paused", "spent", "late"} # {}

\* A bet is answered with a transaction that placed nothing only if between its
\* simulation and its block the contract was paused, the agent went to another
\* wallet, the wallet's money went elsewhere, the pool was filled, the task was
\* settled, or betting ended (control.ts placeBet reads no receipt status).
EmptyBetNeedsARace ==
    \A r \in Bets : at[r] = "done" /\ r \notin bets =>
        met[r] \cap {"paused", "sold", "spent", "filled", "settled", "late"} # {}

\* A market is about what the user asked or picked, however many requests write
\* and list specs at once, but for a custom spec picked from a list of several,
\* which all bear the same template name (control.ts listTemplates, createTask).
SpecAsAsked ==
    \A i \in DOMAIN tasks : tasks[i].by \in Markets =>
        LET a == ask[tasks[i].by] IN
        tasks[i].spec = a.spec \/ (a.template = "custom" /\ Cardinality(files) > 1)

\* What a request relies on was approved (control.ts approveOnce and its bet twin).
ApprovedBeforeUse == ControlTypeOK /\ FlagFollowsAllowance

\* A reply that reports success reports what happened, market number, bet and
\* subject, up to the races that the parts name (control.ts createTask, placeBet).
RepliesAreTrue == WrongNumberNeedsARace /\ EmptyBetNeedsARace /\ SpecAsAsked
=============================================================================
