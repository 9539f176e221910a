----------------------------- MODULE PotEscrow ------------------------------
(***************************************************************************)
(* What OracleCore promises about money, without saying how it is computed:*)
(* each task has a pot of its own; a pot only grows while the task trades, *)
(* only shrinks once the task has one final outcome (or was never taken    *)
(* up), and what leaves it is a payment, a fee or the final sweep.         *)
(***************************************************************************)
EXTENDS Integers

CONSTANTS Ids, Payees, Treasury

VARIABLES phase, outcome, pot, accrued

vars == <<phase, outcome, pot, accrued>>

Init ==
    /\ phase = [id \in Ids |-> "None"]
    /\ outcome = [id \in Ids |-> "Unresolved"]
    /\ pot = [id \in Ids |-> 0]
    /\ accrued = [p \in Payees |-> 0]

Move(id, from, to) == phase[id] = from /\ phase' = [phase EXCEPT ![id] = to]

\* Only pot id may change, and it does not shrink.
Deposit(id) ==
    /\ pot' = [pot EXCEPT ![id] = pot'[id]]
    /\ pot'[id] >= pot[id]

Post(id) ==
    /\ Move(id, "None", "Created")
    /\ Deposit(id) /\ pot'[id] > 0
    /\ UNCHANGED <<outcome, accrued>>

Accept(id) ==
    /\ Move(id, "Created", "Open")
    /\ Deposit(id)
    /\ UNCHANGED <<outcome, accrued>>

Bet(id) ==
    /\ phase[id] = "Open"
    /\ Deposit(id)
    /\ UNCHANGED <<phase, outcome, accrued>>

Deliver(id) ==
    /\ Move(id, "Open", "Delivered")
    /\ UNCHANGED <<outcome, pot, accrued>>

Cancel(id) ==
    /\ Move(id, "Created", "Cancelled")
    /\ UNCHANGED <<outcome, pot, accrued>>

\* The fees come out of this pot and nowhere else; only delivered work can earn
\* a payee other than the treasury a part of them.
Resolve(id) ==
    /\ \/ Move(id, "Open", "Settled")
       \/ Move(id, "Delivered", "Settled")
    /\ outcome[id] = "Unresolved"
    /\ \E o \in {"Yes", "No"} : outcome' = [outcome EXCEPT ![id] = o]
    /\ \E toTreasury, toPayee \in 0..pot[id], p \in Payees \ {Treasury} :
          /\ toTreasury + toPayee <= pot[id]
          /\ phase[id] = "Open" => toPayee = 0
          /\ pot' = [pot EXCEPT ![id] = @ - toTreasury - toPayee]
          /\ accrued' = [accrued EXCEPT ![Treasury] = @ + toTreasury, ![p] = @ + toPayee]

Pay(id) ==
    /\ phase[id] \in {"Settled", "Cancelled"}
    /\ \E amount \in 1..pot[id] : pot' = [pot EXCEPT ![id] = @ - amount]
    /\ UNCHANGED <<phase, outcome, accrued>>

Sweep(id) ==
    /\ phase[id] = "Settled"
    /\ pot' = [pot EXCEPT ![id] = 0]
    /\ accrued' = [accrued EXCEPT ![Treasury] = @ + pot[id]]
    /\ UNCHANGED <<phase, outcome>>

Withdraw(p) ==
    /\ accrued[p] > 0
    /\ accrued' = [accrued EXCEPT ![p] = 0]
    /\ UNCHANGED <<phase, outcome, pot>>

Next ==
    \/ \E id \in Ids : \/ Post(id) \/ Accept(id) \/ Bet(id) \/ Deliver(id) \/ Cancel(id)
                       \/ Resolve(id) \/ Pay(id) \/ Sweep(id)
    \/ \E p \in Payees : Withdraw(p)

Spec == Init /\ [][Next]_vars
=============================================================================
