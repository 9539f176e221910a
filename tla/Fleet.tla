-------------------------------- MODULE Fleet --------------------------------
(***************************************************************************)
(* The worker and the validator daemon on one chain, with everybody else   *)
(* an environment that may post jobs, take open ones, attest, pause and    *)
(* occupy request slots.  The daemons meet only on chain.                  *)
(***************************************************************************)
EXTENDS WorkerDaemon, ValidatorDaemon

CONSTANTS Rivals,       \* account and agent of other workers
          MaxRestarts   \* bound: restarts of either daemon

VARIABLE restarts

ASSUME FleetAssumption ==
    MaxRestarts \in Nat /\ Rivals \subseteq [account : Accounts, agent : Agents]

txVars == <<vars, pool, faults>>
fleetVars == <<txVars, workerVars, validatorVars, restarts>>

FleetInit ==
    /\ Init /\ pool = {} /\ faults = 0
    /\ WorkerInit /\ ValidatorInit
    /\ restarts = 0

TimePasses == Tick /\ UNCHANGED <<pool, faults>>

\* Accounts the daemons do not act for.
Others ==
    /\ \/ \E job \in Jobs : CreateTask(job)
       \/ \E id \in TaskIds : CancelUnaccepted(id)
       \/ \E id \in TaskIds, rival \in Rivals, stake \in Stakes :
             AcceptAndStake(rival.account, id, rival.agent, stake)
       \/ \E id \in TaskIds, approved \in BOOLEAN : Attest(tasks[id].client, id, approved)
       \/ \E request \in Requests, hash \in RequestHashes :
             FileRequest(request.validator, request.agentId, hash)
       \/ now \in PauseTimes /\ SetPaused(Owner)
    /\ UNCHANGED <<pool, faults>>

Restart ==
    /\ restarts < MaxRestarts
    /\ restarts' = restarts + 1
    /\ \/ WorkerRestarts /\ UNCHANGED validatorVars
       \/ ValidatorRestarts /\ UNCHANGED workerVars

FleetNext ==
    \/ /\ \/ TimePasses
          \/ Others
          \/ \E tx \in pool : Mine(tx)
       /\ UNCHANGED <<workerVars, validatorVars, restarts>>
    \/ \E id \in TaskIds : WorkerNext(id) /\ UNCHANGED <<validatorVars, restarts>>
    \/ \E id \in TaskIds : ValidatorNext(id) /\ UNCHANGED <<workerVars, restarts>>
    \/ Restart

FleetSpec == FleetInit /\ [][FleetNext]_fleetVars

Ops == {"acceptAndStake", "validationRequest", "submitDelivery", "validationResponse",
        "settleWithValidation", "settleByTimeout", "withdrawValidatorFees", "claim"}

(***************************************************************************)
(* Blocks keep coming and include pending transactions; a daemon that is up *)
(* takes its next step (event loop, a reconcile() every 20 s, a supervisor *)
(* that restarts on exit).  Accepting a job, attesting and every other     *)
(* account's step are free choices, and failures are not fair.             *)
(***************************************************************************)
FairFleet ==
    /\ FleetSpec
    /\ WF_fleetVars(TimePasses /\ UNCHANGED <<workerVars, validatorVars, restarts>>)
    /\ WF_fleetVars(/\ \E tx \in pool : Mine(tx)
                    /\ UNCHANGED <<workerVars, validatorVars, restarts>>)
    /\ \A id \in TaskIds :
          /\ WF_fleetVars(WorkerStep(id) /\ UNCHANGED <<validatorVars, restarts>>)
          /\ WF_fleetVars(ValidatorStep(id) /\ UNCHANGED <<workerVars, restarts>>)

-----------------------------------------------------------------------------
(* Safety. *)

Stages == Ops \cup {"idle", "waiting", "working", "scoring"}

(* The daemons' memory holds what the code can put there, and a run that    *)
(* writes is at the operation it writes.                                    *)
FleetTypeOK ==
    /\ faults \in 0..MaxFaults /\ restarts \in 0..MaxRestarts
    /\ claimedTasks \subseteq TaskIds /\ processed \subseteq TaskIds
    /\ intakes \in [TaskIds -> 0..2] /\ tries \in [TaskIds -> 0..(Attempts - 1)]
    /\ \A id \in TaskIds : \A run \in {wRun[id], vRun[id]} :
          /\ run.at \in Stages /\ run.sent \in BOOLEAN
          /\ InWrite(run) => run.at = run.tx.op /\ run.tx.id = id

\* Somebody other than the worker may have taken the request slot first.
FiledByOther(s) == [validator |-> s.validator, agentId |-> s.agentId] \in Requests

(* DR-6 as worker.ts orders it: whenever a delivery of this worker is on    *)
(* chain its request is too, so the validator it triggers never meets       *)
(* RequestNotFound; and unless the slot was taken, it names the assigned    *)
(* validator and this worker.  Restarts, lost calls and a second solution   *)
(* after a lost one included.                                               *)
RequestPrecedesDelivery ==
    \A id \in TaskIds : tasks[id].deliveredAt # 0 /\ IsMine(id) =>
        LET s == StatusOf(id) IN
        \/ s.validator = tasks[id].validatorWallet /\ s.agentId = WorkerAgent
        \/ FiledByOther(s)

(* claimedTasks, which stops the worker from claiming again, never holds a  *)
(* task whose payout is still to be had, except while that claim runs.      *)
ClaimedMeansPaid ==
    \A id \in claimedTasks :
        wRun[id].at = "claim" \/ PreviewPayout(id, Worker) = 0

(* What the daemons remember and what they left on chain agree, whatever    *)
(* was lost or restarted (worker.ts, validator.ts).                         *)
MemoryMatchesTheChain == FleetTypeOK /\ RequestPrecedesDelivery /\ ClaimedMeansPaid

-----------------------------------------------------------------------------
(* Progress. *)

\* The model's clock leaves the task room to run to its end.
ClockSuffices(id) ==
    /\ tasks[id].deadline + 2 <= MaxTime
    /\ tasks[id].betCutoff < MaxTime

(* Whatever fails or restarts, a task this worker has staked on is          *)
(* delivered or, past its deadline, settled by the worker itself.           *)
WorkerFinishes ==
    \A id \in TaskIds :
        tasks[id].state = "Open" /\ IsMine(id) /\ ClockSuffices(id)
           ~> tasks[id].state \in {"Delivered", "Settled"}

(* Whatever fails or restarts, a worker that is owed money gets it.         *)
WorkerIsPaid ==
    \A id \in TaskIds :
        IsMine(id) /\ PreviewPayout(id, Worker) > 0 ~> Worker \in claimed[id]

\* A delivery this validator is assigned to, not answered and not settled.
Awaited(id) ==
    /\ tasks[id].state = "Delivered"
    /\ tasks[id].validatorAgentId = ValidatorAgent
    /\ StatusOf(id).respondedAt = 0

(* Whatever fails or restarts, the validator answers a delivery that was    *)
(* filed for it, unless another rule has settled the task first.            *)
DeliveredIsAnswered ==
    \A id \in TaskIds :
        Awaited(id) /\ StatusOf(id).validator = Validator ~> ~Awaited(id)

\* A delivery whose answer counts, of a task this validator is assigned to.
Answered(id) ==
    /\ tasks[id].state = "Delivered" /\ HasValidResponse(id)
    /\ tasks[id].validatorAgentId = ValidatorAgent

(* The validator, the only daemon that cranks settleWithValidation, settles *)
(* what was answered, whatever rivals, pauses and skewed clocks do,         *)
(* provided that no call failed and nothing restarted.                      *)
AnsweredIsSettled ==
    \A id \in TaskIds :
        Answered(id) ~> tasks[id].state = "Settled" \/ faults + restarts > 0

-----------------------------------------------------------------------------
(* A statement the code does not keep. *)

(* validator.ts:194 "a daemon killed between scoring and settle ... resumes *)
(* correctly on the next tick / restart".                                   *)
ResumesToSettle ==
    \A id \in TaskIds : Answered(id) ~> tasks[id].state = "Settled"
=============================================================================
