---------------------------- MODULE WorkerDaemon ----------------------------
(***************************************************************************)
(* agents/src/worker.ts.  driveTask takes a task forward from the state it *)
(* finds on chain; events and the periodic reconcile() both call it.  At   *)
(* most one run per task is in flight (inFlight: the tasks whose run is    *)
(* not idle).  A run is broken at its awaits, where anything else may      *)
(* happen; a stop loses every run and the memory, not the pending          *)
(* transactions.                                                           *)
(***************************************************************************)
EXTENDS Transactions

CONSTANTS Worker, WorkerAgent,
          Skews         \* Date.now() minus the chain's clock

VARIABLES wRun,         \* task -> the driveTask run in flight
          claimedTasks, \* tasks the worker takes for claimed
          intakes       \* task -> validator intake fees paid, 2 for more

ASSUME WorkerAssumption ==
    Worker \in Accounts /\ WorkerAgent \in Agents /\ Skews \subseteq Int

workerVars == <<wRun, claimedTasks, intakes>>

WorkerInit ==
    /\ wRun = [id \in TaskIds |-> NoRun]
    /\ claimedTasks = {}
    /\ intakes = [id \in TaskIds |-> 0]

IsMine(id) == tasks[id].workerWallet = Worker
WorkerGoes(id, run) == wRun' = [wRun EXCEPT ![id] = run]

\* Date.now() is past the deadline; not the chain's clock.
PastDeadline(id, skew) == now + skew > tasks[id].deadline

\* Created: accept an open job or one's own.  Declining is not taking the step.
WorkerAccepts(id) ==
    /\ wRun[id].at = "idle"
    /\ tasks[id].state = "Created"
    /\ tasks[id].workerAgentId \in {NoAgent, WorkerAgent}
    /\ \E stake \in Stakes :
          WorkerGoes(id, Writing(AcceptTx(Worker, id, WorkerAgent, stake)))
    /\ UNCHANGED <<vars, pool, faults, claimedTasks, intakes>>

\* Open and undelivered: resume, or settle what can no longer be delivered.
WorkerDrives(id) ==
    /\ wRun[id].at = "idle"
    /\ tasks[id].state = "Open" /\ IsMine(id) /\ tasks[id].deliveredAt = 0
    /\ \E skew \in Skews :
          WorkerGoes(id, IF PastDeadline(id, skew)
                         THEN Writing(PlainTx("settleByTimeout", Worker, id))
                         ELSE At("waiting"))
    /\ UNCHANGED <<vars, pool, faults, claimedTasks, intakes>>

\* Settled: claim once; the mark is set before the call.
WorkerClaims(id) ==
    /\ wRun[id].at = "idle"
    /\ tasks[id].state = "Settled" /\ IsMine(id)
    /\ id \notin claimedTasks
    /\ claimedTasks' = claimedTasks \cup {id}
    /\ WorkerGoes(id, Writing(PlainTx("claim", Worker, id)))
    /\ UNCHANGED <<vars, pool, faults, intakes>>

\* waitForTimestamp is over; delivery rights are checked again.
WorkerResumes(id) ==
    /\ wRun[id].at = "waiting"
    /\ now > tasks[id].betCutoff
    /\ WorkerGoes(id, IF tasks[id].deliveredAt = 0 /\ IsMine(id) THEN At("working") ELSE NoRun)
    /\ UNCHANGED <<vars, pool, faults, claimedTasks, intakes>>

\* A solution is written and uploaded, the intake fee is paid.
WorkerSolves(id) ==
    /\ wRun[id].at = "working"
    /\ \E hash \in Hashes :
          WorkerGoes(id, Writing(RequestTx(Worker, id, tasks[id].validatorWallet,
                                           WorkerAgent, hash)))
    /\ \/ intakes' = [intakes EXCEPT ![id] = IF @ < 2 THEN @ + 1 ELSE 2]
          /\ UNCHANGED <<vars, pool, faults, claimedTasks>>
       \/ CallFails /\ UNCHANGED <<claimedTasks, intakes>>    \* unpaid: continuing

WorkerSends(id) ==
    /\ Broadcast(wRun[id])
    /\ WorkerGoes(id, [wRun[id] EXCEPT !.sent = TRUE])
    /\ UNCHANGED <<claimedTasks, intakes>>

\* What follows a write that returned.
AfterWrite(tx) ==
    CASE tx.op = "acceptAndStake" -> At("waiting")
      [] tx.op = "validationRequest" -> Writing(DeliverTx(Worker, tx.id, tx.hash))
      [] OTHER -> NoRun

\* What follows a write that reverted: a request filed before is tolerated.
AfterRevert(tx) ==
    IF tx.op = "validationRequest" THEN Writing(DeliverTx(Worker, tx.id, tx.hash)) ELSE NoRun

\* Seeded faults: any failure of the request is tolerated, a lost call as well;
\* the run is not taken out of inFlight.
AfterErrorTolerant(tx) == AfterRevert(tx)
InFlightKept(tx) == [NoRun EXCEPT !.at = "failed"]

\* What follows a write that failed otherwise: driveTask's catch and finally.
AfterError(tx) == NoRun

\* Seeded fault: a failed claim keeps its mark.
MarkKept(tx) == claimedTasks

\* A failed claim gives up its mark.
MarkReleased(tx) == IF tx.op = "claim" THEN claimedTasks \ {tx.id} ELSE claimedTasks

WorkerHears(id) ==
    \/ /\ Receipt(wRun[id])
       /\ WorkerGoes(id, AfterWrite(wRun[id].tx))
       /\ UNCHANGED <<claimedTasks, intakes>>
    \/ /\ Refused(wRun[id])
       /\ WorkerGoes(id, AfterRevert(wRun[id].tx))
       /\ claimedTasks' = MarkReleased(wRun[id].tx)
       /\ UNCHANGED intakes

\* A solver, upload, RPC or payment-gate failure ends the run.
WorkerFails(id) ==
    /\ wRun[id].at # "idle"
    /\ CallFails
    /\ WorkerGoes(id, AfterError(wRun[id].tx))
    /\ claimedTasks' = MarkReleased(wRun[id].tx)
    /\ UNCHANGED intakes

\* The process dies and its supervisor starts it again.
WorkerRestarts ==
    /\ wRun' = [id \in TaskIds |-> NoRun]
    /\ claimedTasks' = {}
    /\ UNCHANGED <<vars, pool, faults, intakes>>

\* What the worker does by itself, given that its calls return.
WorkerStep(id) ==
    \/ WorkerDrives(id)
    \/ WorkerClaims(id)
    \/ WorkerResumes(id)
    \/ WorkerSolves(id)
    \/ WorkerSends(id)
    \/ WorkerHears(id)

WorkerNext(id) == WorkerAccepts(id) \/ WorkerStep(id) \/ WorkerFails(id)
=============================================================================
