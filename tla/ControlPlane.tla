---------------------------- MODULE ControlPlane ----------------------------
(***************************************************************************)
(* The control plane (server/src/control and its routes in api): markets   *)
(* opened and bets placed from the web page with the server's own keys.    *)
(* Requests run concurrently and share two wallets; each awaits the chain  *)
(* at every step: allowance, simulation, nonce, receipt.                   *)
(***************************************************************************)
EXTENDS Integers, Sequences, SequencesExt, FiniteSets

CONSTANTS Markets, Bets,              \* the requests: POST control/task, control/bet
          Builtins, Questions,        \* what a market can be about
          Earlier,                    \* questions that have had a market before
          BETTING_WINDOW, MARGIN,     \* MARGIN: the 120 s added to the window
          ACCEPT_WINDOW, CAP,         \* CAP: the contract's MAX_POOL_PER_SIDE
          Windows, Rewards, BetSizes, Stakes, MinReward, MinBet,
          Funds,                      \* of each wallet
          MaxTime, MaxMoves, MaxFaults,    \* bounds: time, moves of others, lost receipts,
          MaxRequests, MaxOpen             \* requests made, tasks accepted

\* The two routes have requests of their own, and template names are no questions.
ASSUME ControlAssumption ==
    /\ Markets \cap Bets = {} /\ "other" \notin Markets \cup Bets
    /\ IsFiniteSet(Questions) /\ Earlier \subseteq Questions
    /\ Builtins \cap Questions = {} /\ {"none", "custom"} \cap (Builtins \cup Questions) = {}
    /\ BETTING_WINDOW \in Nat /\ MARGIN \in Nat /\ MinReward \in Nat /\ MinBet \in Nat /\ Funds \in Nat
    /\ ACCEPT_WINDOW \in Nat /\ CAP \in Nat
    /\ Windows \subseteq Nat /\ Rewards \subseteq Nat /\ BetSizes \subseteq Nat /\ Stakes \subseteq 0..CAP

VARIABLES at, ask, guess, seen,       \* the request handlers
          approved,                   \* clientApproved, humanApproved
          files,                      \* specs of custom markets, by their question
          funds, allowance, sent, pool,    \* the wallets' accounts
          tasks, bets, now,           \* the chain
          paused, controls,           \* the contract; the human's wallet controls its agent
          doubted,                    \* requests that lost a receipt
          met,                        \* what came between a simulation and its block
          moves                       \* how often others moved

wallets == <<funds, allowance, sent, pool>>
chainVars == <<tasks, bets, now, paused, controls>>
history == <<doubted, met, moves>>
vars == <<at, ask, guess, seen, approved, files, wallets, chainVars, history>>

Requests == Markets \cup Bets
Wallets == {"client", "human"}
WalletOf(r) == IF r \in Markets THEN "client" ELSE "human"
Sides == {"yes", "no"}
NoAsk == [pay |-> 0, window |-> 0, deadline |-> 0, task |-> 0, side |-> "yes",
          template |-> "none", spec |-> "none"]
AtLeast(x, floor) == IF x < floor THEN floor ELSE x

Set(f, r, v) == [f EXCEPT ![r] = v]
Goes(r, from, to) == at[r] = from /\ at' = Set(at, r, to)

-----------------------------------------------------------------------------
(* The page and the routes.                                                *)

\* The specs the page lists: the built-in ones, each its own template, and those
\* of custom markets, which all call their template "custom".
TemplateOf(spec) == IF spec \in Questions THEN "custom" ELSE spec
ListTemplates == Builtins \cup files

\* What the form may send: a question of the user's, or a template picked from
\* the list, for at least one dollar and one minute.
Form == [template : {"none"}, spec : Questions \ files]    \* bound: no question twice
        \cup {[template |-> TemplateOf(spec), spec |-> spec] : spec \in ListTemplates}

Room == Cardinality({r \in Requests : at[r] # "idle"}) < MaxRequests

\* The server raises the reward to minReward and the window to the betting
\* window and a margin.
PostsTask(r) ==
    /\ r \in Markets
    /\ Goes(r, "idle", "start") /\ Room
    /\ \E reward \in Rewards, window \in Windows, form \in Form :
          ask' = Set(ask, r,
              [pay |-> AtLeast(AtLeast(reward, 1), MinReward),
               window |-> AtLeast(AtLeast(window, 1), BETTING_WINDOW + MARGIN),
               deadline |-> 0, task |-> 0, side |-> "yes",
               template |-> form.template, spec |-> form.spec])
    /\ UNCHANGED <<guess, seen, approved, files, wallets, chainVars, history>>

PostsBet(r) ==
    /\ r \in Bets /\ Room
    /\ \E i \in DOMAIN tasks, side \in Sides, amount \in BetSizes :
          /\ Goes(r, "idle", IF amount < MinBet THEN "error" ELSE "start")
          /\ ask' = Set(ask, r, [NoAsk EXCEPT !.pay = amount, !.task = i, !.side = side])
    /\ UNCHANGED <<guess, seen, approved, files, wallets, chainVars, history>>

\* No template of that name, or a custom market without a function or a question,
\* which the page does not send: found out once the allowance is there.
Rejects(r) ==
    /\ r \in Markets
    /\ Goes(r, "ready", "error")
    /\ UNCHANGED <<ask, guess, seen, approved, files, wallets, chainVars, history>>

\* Seeded fault: the flag goes up before the approval is sent.
FlagsEarly(r) ==
    /\ Goes(r, "start", IF approved[WalletOf(r)] \/ allowance[WalletOf(r)] THEN "ready"
                        ELSE "approving")
    /\ approved' = Set(approved, WalletOf(r), TRUE)
    /\ UNCHANGED <<ask, guess, seen, files, wallets, chainVars, history>>

\* approveOnce, approveUsdc: the allowance is read unless the flag is up.
ReadsAllowance(r) ==
    LET w == WalletOf(r) IN
    /\ IF approved[w] \/ allowance[w]
       THEN Goes(r, "start", "ready") /\ approved' = Set(approved, w, TRUE)
       ELSE Goes(r, "start", "approving") /\ UNCHANGED approved
    /\ UNCHANGED <<ask, guess, seen, files, wallets, chainVars, history>>

\* What the contract asks of a new task, and of a bet: the wallets of the page are
\* neither the other's client nor its validator, but a task of another client may
\* bar the human, by its roles.
MayPost(a) == a.deadline > now + BETTING_WINDOW /\ a.pay >= MinReward
MayBet(a) ==
    LET t == tasks[a.task] IN
    /\ t.state = "Open" /\ now < t.cutoff /\ a.pay >= MinBet
    /\ controls /\ a.side \notin t.barred
    /\ t.pools[a.side] + a.pay <= CAP
MayCall(r, a) == IF r \in Markets THEN MayPost(a) ELSE MayBet(a)

\* Seeded fault: the wallet's money is not looked at.
AllowedOnCredit(r, a) == ~paused /\ MayCall(r, a) /\ allowance[WalletOf(r)]

\* The contract's checks, the token's included: createTask's, and placeBet's.
Allowed(r, a) ==
    /\ ~paused /\ MayCall(r, a)
    /\ allowance[WalletOf(r)] /\ funds[WalletOf(r)] >= a.pay
Passes(r) == Allowed(r, ask[r])

\* Seeded fault: any file of the list will do.
AnyFile(r) == IF ask[r].template = "none" THEN {ask[r].spec} ELSE ListTemplates

\* The file a market gets: the question's own, or the first of the template's name.
Resolves(r) ==
    IF ask[r].template = "none" THEN {ask[r].spec}
    ELSE {spec \in ListTemplates : TemplateOf(spec) = ask[r].template}
Writes(r) == files' = IF ask[r].template = "none" THEN files \cup {ask[r].spec} ELSE files

\* The deadline counts from the latest block.
Timed(r) == IF r \in Markets THEN [ask[r] EXCEPT !.deadline = now + ask[r].window] ELSE ask[r]

\* Seeded fault: the last task's number is taken for the next one's.
GuessesLast(r) ==
    LET a == Timed(r) IN
    /\ Goes(r, "ready", IF Allowed(r, a) THEN "simulated" ELSE "error")
    /\ ask' = Set(ask, r, a)
    /\ guess' = Set(guess, r, <<Len(tasks), a.spec>>)
    /\ UNCHANGED <<seen, approved, files, wallets, chainVars, doubted, met, moves>>

\* getBlock and simulateContract: the deadline is fixed, and the number the
\* market would get if it were mined now.
Simulates(r) ==
    LET a == Timed(r) IN
    /\ Goes(r, "ready", IF Allowed(r, a) THEN "simulated" ELSE "error")
    /\ ask' = Set(ask, r, a)
    /\ IF r \in Markets
       THEN Writes(r) /\ \E spec \in Resolves(r) : guess' = Set(guess, r, <<Len(tasks) + 1, spec>>)
       ELSE UNCHANGED <<files, guess>>
    /\ UNCHANGED <<seen, approved, wallets, chainVars, doubted, met, moves>>

\* writeContract, first half: gas is estimated and the wallet's nonce read.
Prepares(r) ==
    /\ \/ Goes(r, "approving", "sending approval")
       \/ Goes(r, "simulated", "sending") /\ Passes(r)
       \/ Goes(r, "simulated", "error") /\ ~Passes(r)
    /\ seen' = Set(seen, r, sent[WalletOf(r)])
    /\ UNCHANGED <<ask, guess, approved, files, wallets, chainVars, history>>

\* Seeded fault: on a used nonce the request is answered and sent all the same.
SendsAnyway(r) ==
    LET w == WalletOf(r) IN
    /\ at[r] \in {"sending approval", "sending"}
    /\ at' = Set(at, r, IF seen[r] # sent[w] THEN "error"
                        ELSE IF at[r] = "sending" THEN "waiting" ELSE "waiting approval")
    /\ pool' = Set(pool, w, Append(pool[w],
           [request |-> r, kind |-> IF at[r] = "sending" THEN "call" ELSE "approve"]))
    /\ sent' = Set(sent, w, sent[w] + 1)
    /\ UNCHANGED <<ask, guess, seen, approved, files, funds, allowance, chainVars, history>>

\* Second half: the node refuses a nonce another request has used meanwhile.
Sends(r) ==
    LET w == WalletOf(r)
        tx(kind) == [request |-> r, kind |-> kind]
    IN  /\ IF seen[r] # sent[w]
           THEN /\ at[r] \in {"sending approval", "sending"} /\ at' = Set(at, r, "error")
                /\ UNCHANGED <<sent, pool>>
           ELSE /\ \/ /\ Goes(r, "sending approval", "waiting approval")
                      /\ pool' = Set(pool, w, Append(pool[w], tx("approve")))
                   \/ /\ Goes(r, "sending", "waiting")
                      /\ pool' = Set(pool, w, Append(pool[w], tx("call")))
                /\ sent' = Set(sent, w, sent[w] + 1)
        /\ UNCHANGED <<ask, guess, seen, approved, files, funds, allowance, chainVars, history>>

Waits(r) == \E i \in DOMAIN pool[WalletOf(r)] : pool[WalletOf(r)][i].request = r

\* Seeded fault: the reply does not wait for the receipt.
HearsTooSoon(r) ==
    /\ \/ Goes(r, "waiting approval", "ready") /\ approved' = Set(approved, WalletOf(r), TRUE)
       \/ Goes(r, "waiting", "done") /\ UNCHANGED approved
    /\ UNCHANGED <<ask, guess, seen, files, wallets, chainVars, history>>

\* A receipt, whatever its status: go on, or answer with the simulated number.
HearsReceipt(r) ==
    /\ ~Waits(r)
    /\ \/ Goes(r, "waiting approval", "ready") /\ approved' = Set(approved, WalletOf(r), TRUE)
       \/ Goes(r, "waiting", "done") /\ UNCHANGED approved
    /\ UNCHANGED <<ask, guess, seen, files, wallets, chainVars, history>>

\* The receipt does not come in time: the reply is a 500.
LosesReceipt(r) ==
    /\ at[r] \in {"waiting approval", "waiting"} /\ at' = Set(at, r, "error")
    /\ Cardinality(doubted) < MaxFaults /\ doubted' = doubted \cup {r}
    /\ UNCHANGED <<ask, guess, seen, approved, files, wallets, chainVars, met, moves>>

-----------------------------------------------------------------------------
(* The chain.                                                              *)

\* A call that has been simulated and not decided; and what comes in its way.
Undecided(r) == at[r] \in {"simulated", "sending"} \/ (at[r] = "waiting" /\ Waits(r))
Meet(hindered, what) ==
    met' = [r \in Requests |-> IF r \in hindered /\ Undecided(r) THEN met[r] \cup {what} ELSE met[r]]
MeetBoth(poorer, fuller) ==
    met' = [r \in Requests |-> IF ~Undecided(r) THEN met[r]
                               ELSE met[r] \cup {"spent" : q \in poorer \cap {r}}
                                           \cup {"filled" : q \in fuller \cap {r}}]

\* Those that the wallet's money no longer covers, or the pool has no room for.
Poorer(w, left) == {r \in Requests : WalletOf(r) = w /\ left < ask[r].pay}
Fuller(i, side, level) ==
    {r \in Bets : ask[r].task = i /\ ask[r].side = side /\ level + ask[r].pay > CAP}

Task(by, deadline, spec, barred) ==
    [by |-> by, spec |-> spec, deadline |-> deadline, posted |-> now, cutoff |-> 0,
     state |-> "Created", barred |-> barred, pools |-> [side \in Sides |-> 0]]
Opened(task, barred, stake) ==
    [task EXCEPT !.state = "Open", !.cutoff = now + BETTING_WINDOW, !.barred = barred,
                 !.pools = [task.pools EXCEPT !["yes"] = stake]]
Raised(i, side, amount) == [tasks EXCEPT ![i].pools[side] = @ + amount]

Mines(w) ==
    /\ pool[w] # <<>> /\ pool' = Set(pool, w, Tail(pool[w]))
    /\ LET r == Head(pool[w]).request
           a == ask[r]
           left == funds[w] - a.pay
       IN
       CASE Head(pool[w]).kind = "approve" ->
                allowance' = Set(allowance, w, TRUE) /\ UNCHANGED <<funds, tasks, bets, met>>
         [] Head(pool[w]).kind = "call" /\ Passes(r) ->
                /\ funds' = Set(funds, w, left) /\ UNCHANGED allowance
                /\ IF r \in Markets
                   THEN /\ tasks' = Append(tasks, Task(r, a.deadline, guess[r][2], {}))
                        /\ UNCHANGED bets /\ MeetBoth(Poorer(w, left) \ {r}, {})
                   ELSE /\ tasks' = Raised(a.task, a.side, a.pay) /\ bets' = bets \cup {r}
                        /\ MeetBoth(Poorer(w, left) \ {r},
                                    Fuller(a.task, a.side, tasks'[a.task].pools[a.side]) \ {r})
         [] OTHER -> UNCHANGED <<funds, allowance, tasks, bets, met>>
    /\ UNCHANGED <<at, ask, guess, seen, approved, files, sent, now, paused, controls,
                   doubted, moves>>

\* Bound: others may move so often; what ends a move is free.
Moves == moves < MaxMoves /\ moves' = moves + 1

\* Another client posts a task with the soonest deadline allowed; the human may be
\* its client or its validator.
OtherPosts ==
    /\ Moves /\ ~paused
    /\ \E barred \in {{}, Sides} :
          tasks' = Append(tasks, Task("other", now + BETTING_WINDOW + 1, "other", barred))
    /\ UNCHANGED <<now, paused, controls, funds, sent, met>>

\* A worker accepts, with no look at the deadline; the human's agent may be the worker.
Accepted == {i \in DOMAIN tasks : tasks[i].state # "Created"}
Accepts(i) ==
    /\ Cardinality(Accepted) < MaxOpen
    /\ ~paused /\ tasks[i].state = "Created" /\ now <= tasks[i].posted + ACCEPT_WINDOW
    /\ \E bars \in {{}, {"no"}}, stake \in Stakes :
          tasks' = [tasks EXCEPT ![i] = Opened(tasks[i], tasks[i].barred \cup bars, stake)]
    /\ UNCHANGED <<now, paused, controls, funds, sent, met, moves>>

\* Another bettor fills a pool.
OtherBets(i) ==
    /\ Moves /\ ~paused /\ tasks[i].state = "Open" /\ now < tasks[i].cutoff
    /\ \E side \in Sides, amount \in BetSizes :
          LET level == tasks[i].pools[side] + amount IN
          /\ amount >= MinBet /\ level <= CAP
          /\ tasks' = Raised(i, side, amount)
          /\ Meet(Fuller(i, side, level), "filled")
    /\ UNCHANGED <<now, paused, controls, funds, sent>>

\* R1, which may come before the cutoff of a task accepted late. (Deliveries, and R0
\* on a task nobody may accept any more, change nothing for a bet.)
Settles(i) ==
    /\ tasks[i].state = "Open" /\ now > tasks[i].deadline
    /\ tasks' = [tasks EXCEPT ![i].state = "Settled"]
    /\ Meet({r \in Bets : ask[r].task = i}, "settled")
    /\ UNCHANGED <<now, paused, controls, funds, sent, moves>>

\* The owner pauses the inflows, and lets them go on.
Pauses ==
    /\ IF paused THEN paused' = FALSE /\ UNCHANGED <<met, moves>>
       ELSE Moves /\ paused' = TRUE /\ Meet(Requests, "paused")
    /\ UNCHANGED <<tasks, now, controls, funds, sent>>

\* The human's agent goes to another wallet, and comes back.
ChangesHands ==
    /\ IF controls THEN Moves /\ controls' = FALSE /\ Meet(Bets, "sold")
       ELSE controls' = TRUE /\ UNCHANGED <<met, moves>>
    /\ UNCHANGED <<tasks, now, paused, funds, sent>>

\* The wallet's key is used by another program (demo.ts, a script).
UsedElsewhere(w) ==
    /\ Moves /\ pool[w] = <<>>
    /\ \E cost \in 1..funds[w] :
          /\ funds' = Set(funds, w, funds[w] - cost)
          /\ Meet(Poorer(w, funds[w] - cost), "spent")
    /\ sent' = Set(sent, w, sent[w] + 1)
    /\ UNCHANGED <<tasks, now, paused, controls>>

\* The margin since a market's simulation runs out, or a bet's cutoff comes.
Late(r) == IF r \in Markets THEN now + 1 >= ask[r].deadline - ask[r].window + MARGIN
           ELSE now + 1 >= tasks[ask[r].task].cutoff
Ticks ==
    /\ now < MaxTime /\ now' = now + 1
    /\ Meet({r \in Requests : Undecided(r) /\ Late(r)}, "late")
    /\ UNCHANGED <<tasks, paused, controls, funds, sent, moves>>

Others ==
    /\ \/ OtherPosts \/ Pauses \/ ChangesHands \/ Ticks
       \/ \E i \in DOMAIN tasks : Accepts(i) \/ OtherBets(i) \/ Settles(i)
       \/ \E w \in Wallets : UsedElsewhere(w)
    /\ UNCHANGED <<at, ask, guess, seen, approved, files, allowance, pool, bets, doubted>>

-----------------------------------------------------------------------------
Init ==
    /\ at = [r \in Requests |-> "idle"] /\ ask = [r \in Requests |-> NoAsk]
    /\ guess = [r \in Requests |-> <<0, "none">>] /\ seen = [r \in Requests |-> 0]
    /\ approved = [w \in Wallets |-> FALSE] /\ allowance = [w \in Wallets |-> FALSE]
    /\ funds = [w \in Wallets |-> Funds] /\ sent = [w \in Wallets |-> 0]
    /\ pool = [w \in Wallets |-> <<>>]
    /\ files = Earlier /\ tasks = <<>> /\ bets = {} /\ now = 0
    /\ paused = FALSE /\ controls = TRUE
    /\ doubted = {} /\ met = [r \in Requests |-> {}] /\ moves = 0

Handles(r) == ReadsAllowance(r) \/ Simulates(r) \/ Prepares(r) \/ Sends(r) \/ HearsReceipt(r)
Next == \/ \E r \in Requests : PostsTask(r) \/ PostsBet(r) \/ Rejects(r) \/ Handles(r)
                                  \/ LosesReceipt(r)
        \/ \E w \in Wallets : Mines(w)
        \/ Others

Spec == Init /\ [][Next]_vars
=============================================================================
