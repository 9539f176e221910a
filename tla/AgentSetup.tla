----------------------------- MODULE AgentSetup -----------------------------
(***************************************************************************)
(* Bringing the fleet up on a shared chain (scripts/deploy-fuji.sh):       *)
(* deploy, fund the wallets (cli/fund-fuji), register the agents           *)
(* (cli/register-agents).  Any of it may die anywhere and be run again;    *)
(* the identity registry is everybody's, and outlives a deployment.        *)
(***************************************************************************)
EXTENDS Integers, Sequences, SequencesExt, FiniteSetsExt

CONSTANTS FLEET,                    \* the roles, in the order they are registered
          NEEDS_GAS, NEEDS_USDC,    \* the wallets, in the order they are funded
          RELAYER, GAS, RELAYER_GAS, USDC_EACH,
          TAKEN,                    \* ids of the registry that others have had before
          SCAN,                     \* ids searched for an agent one already has
          Drip,                     \* what the faucet gives the deployer
          MaxForeign, MaxMishaps    \* bounds

\* Roles have different wallets, each of which is given gas; no loop is empty.
ASSUME FleetAssumption ==
    /\ FLEET \in Seq(STRING \ {"other"}) /\ FLEET # <<>>
    /\ \A i, j \in DOMAIN FLEET : FLEET[i] = FLEET[j] => i = j
    /\ NEEDS_GAS \in Seq(STRING) /\ NEEDS_GAS # <<>>
    /\ NEEDS_USDC \in Seq(ToSet(NEEDS_GAS)) /\ NEEDS_USDC # <<>>
    /\ ToSet(FLEET) \subseteq ToSet(NEEDS_GAS)
    /\ {GAS, RELAYER_GAS, USDC_EACH, TAKEN, SCAN, Drip} \subseteq Nat

VARIABLES owner,               \* the identity registry: owner[id]
          map,                 \* agents of the deployment JSON; 0: no entry
          gas, usdc, deployer, \* balances
          script, mempool,     \* where the bring-up stands; its transactions
          stops, deploys, orphans    \* orphans: registrations nobody waits for

wallets == <<gas, usdc, deployer>>
setupBounds == <<stops, deploys, orphans>>
setupVars == <<owner, map, wallets, script, mempool, setupBounds>>

Roles == ToSet(FLEET)
Funded == ToSet(NEEDS_GAS)
Strangers == [id \in 1..TAKEN |-> "other"]
Foreign == {id \in DOMAIN owner : owner[id] \notin Roles}
AgentsOf(role) == {id \in DOMAIN owner : owner[id] = role}
Controls(role) == map[role] \in AgentsOf(role)

\* deploy-fuji.sh: one program after the other, each a loop over its roles.
Loop == [gas |-> NEEDS_GAS, usdc |-> NEEDS_USDC, register |-> FLEET]
NextCli == [deploy |-> "gas", gas |-> "usdc", usdc |-> "register", register |-> "up"]
Begin(cli) == [cli |-> cli, i |-> 1, at |-> "next", n |-> 0]
Role == Loop[script.cli][script.i]
In(cli, at) == script.cli = cli /\ script.at = at
Goes(at, n) == script' = [script EXCEPT !.at = at, !.n = n]
Proceeds == script' = IF script.i < Len(Loop[script.cli])
                      THEN [Begin(script.cli) EXCEPT !.i = script.i + 1]
                      ELSE Begin(NextCli[script.cli])
Dies == Goes("stopped", 0)

Tx(op, role, n) == [op |-> op, role |-> role, n |-> n, run |-> <<deploys, stops>>]
Sender(tx) == IF tx.op = "register" THEN tx.role ELSE "deployer"
Sends(tx) == mempool' = Append(mempool, tx) /\ Goes("waiting", script.n)
\* The transaction this run waits for; the registrations a wallet has pending.
Waited == {tx \in ToSet(mempool) : tx.run = <<deploys, stops>>}
Pending(role) == {tx \in ToSet(mempool) : tx.op = "register" /\ tx.role = role}

-----------------------------------------------------------------------------
(* The programs.                                                           *)

\* forge script: contracts and MockUSDC are new, the agents map is empty.  It is
\* not run for a deployer without money.
Deploys ==
    /\ In("deploy", "next")
    /\ IF deployer = 0 THEN Dies /\ UNCHANGED <<map, usdc>>
       ELSE /\ map' = [r \in Roles |-> 0] /\ usdc' = [r \in Funded |-> 0]
            /\ script' = Begin(NextCli["deploy"])
    /\ UNCHANGED <<owner, gas, deployer, mempool, setupBounds>>

\* Seeded fault: the relayer is treated as everybody else.
SameTarget(role) == GAS
GasTarget(role) == IF role = RELAYER THEN RELAYER_GAS ELSE GAS

\* fund-fuji begins with a look at the deployer; then each wallet's balance is
\* read: enough, or what is missing.
LooksAtGas ==
    /\ In("gas", "next")
    /\ IF script.i = 1 /\ deployer = 0 THEN Dies
       ELSE IF gas[Role] >= GasTarget(Role) THEN Proceeds
       ELSE Goes("sending", GasTarget(Role) - gas[Role])
    /\ UNCHANGED <<owner, map, wallets, mempool, setupBounds>>

\* Seeded fault: without the money the program waits for it.
WaitsForMoney ==
    /\ In("gas", "sending") /\ deployer >= script.n
    /\ Sends(Tx("gas", Role, script.n)) /\ deployer' = deployer - script.n
    /\ UNCHANGED <<owner, map, gas, usdc, setupBounds>>

\* The deployer sends it; without the money the program dies.
TopsUp ==
    /\ In("gas", "sending")
    /\ IF deployer >= script.n
       THEN Sends(Tx("gas", Role, script.n)) /\ deployer' = deployer - script.n
       ELSE Dies /\ UNCHANGED <<mempool, deployer>>
    /\ UNCHANGED <<owner, map, gas, usdc, setupBounds>>

\* USDC is minted whatever the balance; a mint that fails, or whose receipt does
\* not come, is only logged.
MintsUsdc ==
    /\ \/ In("usdc", "next") /\ Sends(Tx("mint", Role, USDC_EACH)) /\ UNCHANGED stops
       \/ /\ In("usdc", "next") \/ In("usdc", "waiting")
          /\ stops + deploys < MaxMishaps /\ stops' = stops + 1 /\ Proceeds /\ UNCHANGED mempool
    /\ UNCHANGED <<owner, map, wallets, deploys, orphans>>

\* Seeded fault: an agent that is not in the map is registered anew.
RecoversNone(role) == {}

\* recoverAgentId: the ids this wallet holds among the last SCAN ones.
RecoverAgentId(role) ==
    LET top == Len(owner) + 1
        lowest == IF top - SCAN > 1 THEN top - SCAN ELSE 1
    IN  AgentsOf(role) \cap (lowest..(top - 1))

\* In the map, or found in the registry, or the id a registration would get.
LooksForAgent ==
    /\ In("register", "next")
    /\ \/ map[Role] > 0 /\ Proceeds /\ UNCHANGED map
       \/ /\ map[Role] = 0 /\ RecoverAgentId(Role) # {}
          /\ map' = [map EXCEPT ![Role] = Max(RecoverAgentId(Role))]
          /\ Proceeds
       \/ /\ map[Role] = 0 /\ RecoverAgentId(Role) = {}
          /\ Goes("sending", Len(owner) + 1)
          /\ UNCHANGED map
    /\ UNCHANGED <<owner, wallets, mempool, setupBounds>>

\* A node takes a transaction only if the wallet can pay for it and for those of
\* its own that are pending already.
Registers ==
    /\ In("register", "sending")
    /\ IF gas[Role] > Cardinality(Pending(Role))
       THEN Sends(Tx("register", Role, script.n)) ELSE Dies /\ UNCHANGED mempool
    /\ UNCHANGED <<owner, map, wallets, setupBounds>>

\* Seeded fault: the next role's turn comes before the receipt.
WaitsForNothing ==
    /\ script.at = "waiting"
    /\ map' = IF script.cli = "register" THEN [map EXCEPT ![Role] = script.n] ELSE map
    /\ Proceeds
    /\ UNCHANGED <<owner, wallets, mempool, setupBounds>>

\* The receipt; an agent is entered under the id that was simulated, and the
\* map is saved before the next one's turn.
HearsReceipt ==
    /\ script.at = "waiting" /\ Waited = {}
    /\ map' = IF script.cli = "register" THEN [map EXCEPT ![Role] = script.n] ELSE map
    /\ Proceeds
    /\ UNCHANGED <<owner, wallets, mempool, setupBounds>>

\* A process dies, or a receipt does not come.
Stops ==
    /\ script.at # "stopped" /\ script.cli # "up"
    /\ stops + deploys < MaxMishaps /\ stops' = stops + 1
    /\ Dies
    /\ orphans' = [r \in Roles |-> orphans[r] +
                       Cardinality({tx \in Waited : tx.op = "register" /\ tx.role = r})]
    /\ UNCHANGED <<owner, map, wallets, mempool, deploys>>

\* Both loops of fund-fuji are one program.
Program == IF script.cli = "usdc" THEN "gas" ELSE script.cli

\* The operator fills up the deployer, or forgets to, and runs the program again,
\* or everything.
Reruns ==
    /\ script.at = "stopped"
    /\ \/ deployer' = (IF deployer < Drip THEN deployer + Drip ELSE deployer) /\ UNCHANGED stops
       \/ stops + deploys < MaxMishaps /\ stops' = stops + 1 /\ UNCHANGED deployer
    /\ \/ script' = Begin(Program) /\ UNCHANGED deploys
       \/ stops + deploys < MaxMishaps /\ deploys' = deploys + 1 /\ script' = Begin("deploy")
    /\ UNCHANGED <<owner, map, gas, usdc, mempool, orphans>>

-----------------------------------------------------------------------------
(* The chain.                                                              *)

\* A transaction is mined, each sender's in the order of their nonces.
SetupMines(i) == LET tx == mempool[i] IN
    /\ \A j \in 1..(i - 1) : Sender(mempool[j]) # Sender(tx)
    /\ mempool' = RemoveAt(mempool, i)
    /\ gas' = CASE tx.op = "gas" -> [gas EXCEPT ![tx.role] = @ + tx.n]
                [] tx.op = "register" -> [gas EXCEPT ![tx.role] = @ - 1]
                [] OTHER -> gas
    /\ usdc' = IF tx.op = "mint" /\ tx.run[1] = deploys
               THEN [usdc EXCEPT ![tx.role] = @ + tx.n] ELSE usdc
    /\ owner' = IF tx.op = "register" THEN Append(owner, tx.role) ELSE owner
    /\ UNCHANGED <<map, deployer, script, setupBounds>>

\* Somebody else registers an agent.
RegistersForeign ==
    /\ script.cli = "register"   \* bound: only while it can matter
    /\ Cardinality(Foreign) < TAKEN + MaxForeign
    /\ owner' = Append(owner, "other")
    /\ UNCHANGED <<map, wallets, script, mempool, setupBounds>>

SetupInit ==
    /\ owner = Strangers /\ map = [r \in Roles |-> 0]
    /\ gas = [r \in Funded |-> 0] /\ usdc = [r \in Funded |-> 0] /\ deployer = Drip
    /\ script = Begin("deploy") /\ mempool = <<>>
    /\ stops = 0 /\ deploys = 0 /\ orphans = [r \in Roles |-> 0]

Runs == Deploys \/ LooksAtGas \/ TopsUp \/ MintsUsdc \/ LooksForAgent \/ Registers \/ HearsReceipt
SetupNext == \/ Runs \/ Stops \/ Reruns \/ RegistersForeign
             \/ \E i \in DOMAIN mempool : SetupMines(i)
=============================================================================
