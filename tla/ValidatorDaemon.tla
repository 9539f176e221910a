--------------------------- MODULE ValidatorDaemon ---------------------------
(***************************************************************************)
(* agents/src/validator.ts.  handleDelivery scores a delivery, answers on  *)
(* chain, then cranks the settlement and withdraws its fees.  It is called *)
(* by the event watcher and by the periodic reconcile(); the set processed *)
(* keeps a task from being handled twice by one process.                   *)
(***************************************************************************)
EXTENDS Transactions

CONSTANTS Validator, ValidatorAgent,
          Attempts      \* tries of validationResponse (5 in the code)

VARIABLES vRun,         \* task -> the handleDelivery run in flight
          tries,        \* task -> attempts the answer has failed
          processed

ASSUME ValidatorAssumption ==
    Validator \in Accounts /\ ValidatorAgent \in Agents /\ Attempts \in Nat \ {0}

validatorVars == <<vRun, tries, processed>>

ValidatorInit ==
    /\ vRun = [id \in TaskIds |-> NoRun]
    /\ tries = [id \in TaskIds |-> 0]
    /\ processed = {}

ValidatorGoes(id, run) == vRun' = [vRun EXCEPT ![id] = run]

\* A DeliverySubmitted log of one of its tasks is handled.  The watcher may
\* deliver it late: a task that is no longer Delivered stays marked.
ValidatorSees(id) ==
    /\ tasks[id].deliveredAt # 0
    /\ id \notin processed
    /\ tasks[id].validatorAgentId = ValidatorAgent
    /\ processed' = processed \cup {id}
    /\ tries' = [tries EXCEPT ![id] = 0]
    /\ ValidatorGoes(id, IF tasks[id].state = "Delivered" THEN At("scoring") ELSE NoRun)
    /\ UNCHANGED <<vars, pool, faults>>

\* Tests or judge; the verdict is an input of the model.
ValidatorScores(id) ==
    /\ vRun[id].at = "scoring"
    /\ \E response \in Responses :
          ValidatorGoes(id, Writing(ResponseTx(Validator, id, tasks[id].deliverableHash,
                                               response)))
    /\ UNCHANGED <<vars, pool, faults, tries, processed>>

ValidatorSends(id) ==
    /\ Broadcast(vRun[id])
    /\ ValidatorGoes(id, [vRun[id] EXCEPT !.sent = TRUE])
    /\ UNCHANGED <<tries, processed>>

\* Seeded fault: the settlement is left to somebody else.
AnswersOnly(tx) == NoRun

\* The handler's next write; both cranks are attempted whatever the one before did.
AfterTx(tx) ==
    CASE tx.op = "validationResponse" ->
            Writing(PlainTx("settleWithValidation", Validator, tx.id))
      [] tx.op = "settleWithValidation" ->
            Writing(PlainTx("withdrawValidatorFees", Validator, tx.id))
      [] OTHER -> NoRun

ValidatorHears(id) ==
    /\ Receipt(vRun[id])
    /\ ValidatorGoes(id, AfterTx(vRun[id].tx))
    /\ UNCHANGED <<tries, processed>>

\* Seeded fault: a failed verdict is never looked at again.
GivesUp(id) ==
    /\ ValidatorGoes(id, NoRun)
    /\ UNCHANGED processed

\* The outer catch: give the task back to reconcile().
Releases(id) ==
    /\ ValidatorGoes(id, NoRun)
    /\ processed' = processed \ {id}

\* Seeded fault: one attempt too many.
OneMoreTry(id) == tries[id] < Attempts

MayRetry(id) == tries[id] + 1 < Attempts

\* A write failed, for whatever reason.
ValidatorRecovers(id) ==
    LET run == vRun[id] IN
    \/ /\ run.at \in {"settleWithValidation", "withdrawValidatorFees"}
       /\ ValidatorGoes(id, AfterTx(run.tx))
       /\ UNCHANGED <<tries, processed>>
    \/ /\ run.at = "validationResponse" /\ MayRetry(id)
       /\ tries' = [tries EXCEPT ![id] = @ + 1]
       /\ ValidatorGoes(id, Writing(run.tx))
       /\ UNCHANGED processed
    \/ /\ run.at = "validationResponse" /\ ~MayRetry(id)
       /\ Releases(id)
       /\ UNCHANGED tries

ValidatorRefused(id) == Refused(vRun[id]) /\ ValidatorRecovers(id)

\* A fetch, harness, judge or RPC failure.
ValidatorFails(id) ==
    /\ CallFails
    /\ \/ ValidatorRecovers(id)
       \/ vRun[id].at = "scoring" /\ Releases(id) /\ UNCHANGED tries

ValidatorRestarts ==
    /\ vRun' = [id \in TaskIds |-> NoRun]
    /\ tries' = [id \in TaskIds |-> 0]
    /\ processed' = {}
    /\ UNCHANGED <<vars, pool, faults>>

ValidatorStep(id) ==
    \/ ValidatorSees(id)
    \/ ValidatorScores(id)
    \/ ValidatorSends(id)
    \/ ValidatorHears(id)
    \/ ValidatorRefused(id)

ValidatorNext(id) == ValidatorStep(id) \/ ValidatorFails(id)
=============================================================================
