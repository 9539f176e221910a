-------------------------- MODULE IdentityRegistry --------------------------
(***************************************************************************)
(* The ERC-8004 identity registry: an ERC-721 whose tokens are agents, and *)
(* a wallet an agent's owner may set for it.  OracleCore reads it at every *)
(* acceptance and bet, and once per task for the validator's wallet, so a  *)
(* change made between two calls is visible to one and not to the other.   *)
(***************************************************************************)
CONSTANTS Accounts, NoAccount, Agents

VARIABLES agentOwner,       \* agent -> account, NoAccount while unregistered
          agentWallet       \* agent -> explicitly set wallet, or NoAccount

Account0 == Accounts \cup {NoAccount}

IdentityTypeOK ==
    /\ agentOwner \in [Agents -> Account0]
    /\ agentWallet \in [Agents -> Account0]

WalletOf(agent) ==
    IF agentWallet[agent] = NoAccount THEN agentOwner[agent] ELSE agentWallet[agent]

Register(sender, agent) ==
    /\ agentOwner[agent] = NoAccount
    /\ agentOwner' = [agentOwner EXCEPT ![agent] = sender]
    /\ UNCHANGED agentWallet

\* The owner may also clear the wallet again (address(0)): back to the owner.
SetAgentWallet(sender, agent, wallet) ==
    /\ agentOwner[agent] = sender
    /\ agentWallet' = [agentWallet EXCEPT ![agent] = wallet]
    /\ UNCHANGED agentOwner

\* ERC-721 transfer: the explicit wallet of the previous owner stays in place.
TransferFrom(sender, agent, to) ==
    /\ agentOwner[agent] = sender
    /\ agentOwner' = [agentOwner EXCEPT ![agent] = to]
    /\ UNCHANGED agentWallet

\* OracleCore._isAgentController for a caller addr # address(0); an unregistered
\* agent has neither owner nor wallet, so nobody controls it.
IsAgentController(agent, addr) == addr \in {agentOwner[agent], WalletOf(agent)}
=============================================================================
