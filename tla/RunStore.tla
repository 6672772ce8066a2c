------------------------------ MODULE RunStore ------------------------------
(***************************************************************************)
(* The Redis RunStore of one agent run (backend/internal/service/          *)
(* agent_run): the run snapshot, its task records, its outbox and its      *)
(* event stream.  Every operation below is one WATCH/MULTI transaction of  *)
(* the code, hence one action; the version a caller observed is the        *)
(* parameter v and a transaction whose version is stale changes nothing.   *)
(*                                                                         *)
(* StoreSpec lets arbitrary clients call the operations in any order with  *)
(* any owner and fence: what holds of it holds whatever workers, scanners  *)
(* and API processes do.                                                   *)
(*                                                                         *)
(* Time is kept as the outcome of the comparisons the code makes: the run  *)
(* deadline has passed, a task's lease is still live, a queued task has    *)
(* waited longer than queueWaitTimeout.                                    *)
(***************************************************************************)
EXTENDS Naturals, Sequences

CONSTANTS Steps,      \* the tasks of the plan (revision 1)
          Plans,      \* the dependency graphs a planner may return
          Owners,     \* lease owners (a worker process is one owner)
          NoOwner,    \* LeaseOwner = ""
          CapacityReasons,  \* QueueReason of a task refused capacity
          MaxFence    \* bound: fencing tokens handed out per task

PlanningTaskID == "plan"
Tasks == Steps \cup {PlanningTaskID}
Fences == 1..MaxFence

\* Every task depends on other tasks of the plan only, without a cycle.
ValidPlan(p) ==
    /\ p \in [Steps -> SUBSET Steps]
    /\ \A S \in SUBSET Steps : S # {} => \E s \in S : p[s] \cap S = {}

ASSUME StoreAssumption ==
    /\ PlanningTaskID \notin Steps
    /\ NoOwner \notin Owners
    /\ "" \notin CapacityReasons
    /\ MaxFence \in Nat
    /\ \A p \in Plans : p \in [Steps -> SUBSET Steps]

VARIABLES run,          \* Snapshot
          task,         \* TaskSnapshot per task
          plan,         \* the installed plan's dependencies
          outbox,       \* stream of tasks waiting to be dispatched
          events,       \* the event stream: its last entry and how many are final
          pastDeadline  \* clock >= run.DeadlineAt

storeVars == <<run, task, plan, outbox, events, pastDeadline>>

NoPlan == [s \in Steps |-> {}]

-----------------------------------------------------------------------------
RunTerminal == {"completed", "partial", "needs_input", "blocked", "failed", "cancelled"}
RunOpen == {"accepted", "planning", "running"}
RunStatus == {"absent"} \cup RunOpen \cup RunTerminal
Terminal == run.status \in RunTerminal
Open == run.status \in RunOpen

Finished == {"completed", "failed", "skipped", "cancelled"}
TaskStatus == {"absent", "pending_dependency", "queued", "leased", "running"} \cup Finished

Reasons == {"", "run.deadline", "queue.timeout", "dependency.failed", "run.cancelled",
            "manual_review_required", "classified", "planner.failed"}

Task == [status : TaskStatus, owner : Owners \cup {NoOwner}, fence : Nat,
         live : BOOLEAN, waited : BOOLEAN, queueReason : CapacityReasons \cup {""},
         token : Nat, receipt : BOOLEAN, reason : Reasons]

\* queueReason "" stands for every reason that is not a refusal of capacity.
NoTask == [status |-> "absent", owner |-> NoOwner, fence |-> 0, live |-> FALSE,
           waited |-> FALSE, queueReason |-> "", token |-> 0, receipt |-> FALSE,
           reason |-> ""]

FinalEvents == {"agent_run.final", "agent_run.cancelled", "agent_run.failed"}
EventKinds == FinalEvents \cup {"none", "agent_run.started", "agent_run.progress"}

StoreTypeOK ==
    /\ run \in [status : RunStatus, rev : {0, 1}, version : Nat]
    /\ task \in [Tasks -> Task]
    /\ plan \in [Steps -> SUBSET Steps]
    /\ outbox \in Seq(Tasks)
    /\ events \in [last : EventKinds, finals : Nat]
    /\ pastDeadline \in BOOLEAN

StoreInit ==
    /\ run = [status |-> "absent", rev |-> 0, version |-> 0]
    /\ task = [t \in Tasks |-> NoTask]
    /\ plan = NoPlan
    /\ outbox = <<>>
    /\ events = [last |-> "none", finals |-> 0]
    /\ pastDeadline = FALSE

-----------------------------------------------------------------------------
(* What every transaction does to the snapshot and to the event stream:    *)
(* the version moves and events are appended, the last of them of kind k.  *)
Logged(k) ==
    events' = [last |-> k, finals |-> IF k \in FinalEvents THEN events.finals + 1
                                      ELSE events.finals]

Commit(s, k) ==
    /\ run' = [run EXCEPT !.status = s, !.version = @ + 1]
    /\ Logged(k)

\* Create: refuses a deadline that has passed; an existing run is returned as
\* it is.
Create ==
    /\ run.status = "absent" /\ ~pastDeadline
    /\ Commit("accepted", "agent_run.started")
    /\ UNCHANGED <<task, plan, outbox, pastDeadline>>

\* RecoverAdmission: an expired pending_create anchor becomes a failed run
\* that never executes anything.
RecoverAdmission ==
    \/ Create
    \/ /\ run.status = "absent" /\ pastDeadline
       /\ Commit("failed", "agent_run.failed")
       /\ UNCHANGED <<task, plan, outbox, pastDeadline>>

Revision(t) == IF t = PlanningTaskID THEN 0 ELSE 1

\* mutateTask: CAS on version and revision of a run that is open.
MutateTask(v, t, new) ==
    /\ run.version = v /\ run.rev = Revision(t) /\ Open
    /\ task[t].status # "absent"
    /\ task' = [task EXCEPT ![t] = new]
    /\ Commit(run.status, "agent_run.progress")
    /\ UNCHANGED <<plan, outbox, pastDeadline>>

HoldsLease(t, w, f) == task[t].owner = w /\ task[t].fence = f /\ task[t].live

\* StartPlanning: the one planning request, committed with its outbox entry.
StartPlanning ==
    /\ run.rev = 0 /\ run.status = "accepted" /\ ~pastDeadline
    /\ task' = [task EXCEPT ![PlanningTaskID] = [NoTask EXCEPT !.status = "queued"]]
    /\ outbox' = Append(outbox, PlanningTaskID)
    /\ Commit("planning", "agent_run.progress")
    /\ UNCHANGED <<plan, pastDeadline>>

\* Mutant: installs the tasks but not the revision.
CompletePlanning_NoRevision(v, w, f, p) ==
    /\ run.version = v /\ run.rev = 0 /\ run.status = "planning"
    /\ task[PlanningTaskID].status = "running"
    /\ HoldsLease(PlanningTaskID, w, f) /\ ~pastDeadline
    /\ ValidPlan(p)
    /\ plan' = p
    /\ task' = [t \in Tasks |->
                  IF t = PlanningTaskID THEN [task[t] EXCEPT !.status = "completed"]
                  ELSE [NoTask EXCEPT !.status = "pending_dependency"]]
    /\ run' = [run EXCEPT !.version = @ + 1]
    /\ Logged("agent_run.progress")
    /\ UNCHANGED <<outbox, pastDeadline>>

\* CompletePlanning: fences the planner and installs revision one.
CompletePlanning(v, w, f, p) ==
    /\ run.version = v /\ run.rev = 0 /\ run.status = "planning"
    /\ task[PlanningTaskID].status = "running"
    /\ HoldsLease(PlanningTaskID, w, f) /\ ~pastDeadline
    /\ ValidPlan(p)
    /\ plan' = p
    /\ task' = [t \in Tasks |->
                  IF t = PlanningTaskID THEN [task[t] EXCEPT !.status = "completed"]
                  ELSE [NoTask EXCEPT !.status = "pending_dependency"]]
    /\ run' = [run EXCEPT !.rev = 1, !.version = @ + 1]
    /\ Logged("agent_run.progress")
    /\ UNCHANGED <<outbox, pastDeadline>>

\* Why ExpirePlanning would close the run, "" when it would not.
PlanningExpiry ==
    LET t == task[PlanningTaskID] IN
    CASE t.status = "failed" -> t.reason
      [] t.status # "failed" /\ pastDeadline -> "run.deadline"
      [] t.status = "queued" /\ ~pastDeadline /\ t.waited -> "queue.timeout"
      [] OTHER -> ""

ExpirePlanning ==
    /\ run.rev = 0
    /\ \/ /\ run.status = "accepted" /\ pastDeadline
          /\ UNCHANGED task
       \/ /\ run.status = "planning" /\ PlanningExpiry # ""
          /\ task' = [task EXCEPT ![PlanningTaskID] =
                        [@ EXCEPT !.status = "failed", !.reason = PlanningExpiry]]
    /\ Commit("failed", "agent_run.final")
    /\ UNCHANGED <<plan, outbox, pastDeadline>>

\* Mutant: a dependency only has to be over.
QueueTask_FinishedIsEnough(v, t) ==
    /\ run.version = v /\ run.rev = 1 /\ Open
    /\ task[t].status = "pending_dependency"
    /\ \A d \in plan[t] : task[d].status \in Finished
    /\ task' = [task EXCEPT ![t].status = "queued"]
    /\ outbox' = Append(outbox, t)
    /\ Commit("running", "agent_run.progress")
    /\ UNCHANGED <<plan, pastDeadline>>

\* QueueTask: dependencies are checked inside the transaction.
QueueTask(v, t) ==
    /\ run.version = v /\ run.rev = 1 /\ Open
    /\ task[t].status = "pending_dependency"
    /\ \A d \in plan[t] : task[d].status = "completed"
    /\ task' = [task EXCEPT ![t].status = "queued"]
    /\ outbox' = Append(outbox, t)
    /\ Commit("running", "agent_run.progress")
    /\ UNCHANGED <<plan, pastDeadline>>

\* MarkCapacityWaiting: only a change of the waiting reason is recorded.
MarkCapacityWaiting(v, t, reason) ==
    /\ task[t].status = "queued" /\ task[t].queueReason # reason
    /\ MutateTask(v, t, [task[t] EXCEPT !.queueReason = reason])

\* LeaseTask: a takeover needs a higher fence and an expired lease.
Leasable(t) ==
    \/ task[t].status = "queued" /\ ~task[t].waited
    \/ task[t].status \in {"leased", "running"} /\ ~task[t].live

\* Mutant: any other fence takes over.
LeaseTask_AnyFence(v, t, w, f) ==
    /\ Leasable(t) /\ f # task[t].fence
    /\ MutateTask(v, t, [task[t] EXCEPT !.status = "leased", !.owner = w,
                                        !.fence = f, !.live = TRUE])

LeaseTask(v, t, w, f) ==
    /\ Leasable(t) /\ f > task[t].fence
    /\ MutateTask(v, t, [task[t] EXCEPT !.status = "leased", !.owner = w,
                                        !.fence = f, !.live = TRUE])

StartTask(v, t, w, f) ==
    /\ task[t].status = "leased" /\ HoldsLease(t, w, f)
    /\ MutateTask(v, t, [task[t] EXCEPT !.status = "running"])

CompleteTask(v, t, w, f) ==
    /\ task[t].status = "running" /\ HoldsLease(t, w, f)
    /\ MutateTask(v, t, [task[t] EXCEPT !.status = "completed"])

FailTask(v, t, w, f, reason) ==
    /\ task[t].status = "running" /\ HoldsLease(t, w, f)
    /\ MutateTask(v, t, [task[t] EXCEPT !.status = "failed", !.reason = reason])

SkipTask(v, t) ==
    /\ task[t].status = "pending_dependency"
    /\ MutateTask(v, t, [task[t] EXCEPT !.status = "skipped",
                                        !.reason = "dependency.failed"])

ExpireQueuedTask(v, t) ==
    /\ task[t].status = "queued" /\ task[t].waited
    /\ MutateTask(v, t, [task[t] EXCEPT !.status = "failed",
                                        !.reason = "queue.timeout"])

ExpireUnstartedTask(v, t) ==
    /\ task[t].status \in {"queued", "pending_dependency"}
    /\ MutateTask(v, t, [task[t] EXCEPT !.reason = "run.deadline",
            !.status = IF @ = "queued" THEN "failed" ELSE "skipped"])

\* RenewTaskLease: with time abstracted a renewal only keeps the lease from
\* elapsing; what is left of it is when it is accepted.
RenewTaskLease(t, w, f) ==
    task[t].status \in {"leased", "running"} /\ HoldsLease(t, w, f)

\* Mutant: a late receipt still reaches a terminal run.
MayExecute_AnyRun(t, w, f) ==
    /\ run.rev = Revision(t) /\ ~pastDeadline
    /\ task[t].status = "running" /\ HoldsLease(t, w, f)

\* The guard both calls of executionReceipt share.
MayExecute(t, w, f) ==
    /\ Open /\ run.rev = Revision(t) /\ ~pastDeadline
    /\ task[t].status = "running" /\ HoldsLease(t, w, f)

\* Mutant: a takeover claims again.
ClaimExecution_Again(t, w, f) ==
    /\ MayExecute(t, w, f)
    /\ task' = [task EXCEPT ![t].token = f]
    /\ UNCHANGED <<run, plan, outbox, events, pastDeadline>>

\* First call: occupies the only right to execute.  The token (a fresh UUID)
\* is represented by the claiming fence, which no other claim can have.
ClaimExecution(t, w, f) ==
    /\ MayExecute(t, w, f) /\ task[t].token = 0
    /\ task' = [task EXCEPT ![t].token = f]
    /\ UNCHANGED <<run, plan, outbox, events, pastDeadline>>

\* Second call: stores the receipt of the execution that token began.
StoreReceipt(t, w, f) ==
    /\ MayExecute(t, w, f) /\ task[t].token = f
    /\ task' = [task EXCEPT ![t].receipt = TRUE]
    /\ UNCHANGED <<run, plan, outbox, events, pastDeadline>>

\* Cancel: every unfinished task, the outbox and the run in one transaction.
Unfinished == {t \in Tasks : task[t].status \notin Finished \cup {"absent"}}

Cancel ==
    /\ Open
    /\ task' = [t \in Tasks |->
                  IF t \in Unfinished
                  THEN [task[t] EXCEPT !.status = "cancelled", !.live = FALSE,
                          !.reason = IF task[t].token # 0 /\ ~task[t].receipt
                                     THEN "manual_review_required"
                                     ELSE "run.cancelled"]
                  ELSE task[t]]
    /\ outbox' = <<>>
    /\ Commit("cancelled", "agent_run.cancelled")
    /\ UNCHANGED <<plan, pastDeadline>>

\* Mutant: a second reconciler closes the run again.
Transition_Twice(v, s) ==
    /\ run.version = v /\ run.status # "absent"
    /\ Commit(s, "agent_run.final")
    /\ UNCHANGED <<task, plan, outbox, pastDeadline>>

\* Transition: ReconcilePlan's commit of the final status.
ReconcileOutcomes == {"completed", "partial", "blocked", "failed"}

Transition(v, s) ==
    /\ run.version = v /\ Open
    /\ Commit(s, "agent_run.final")
    /\ UNCHANGED <<task, plan, outbox, pastDeadline>>

-----------------------------------------------------------------------------
(* The passage of time: each comparison with the clock turns at most once, *)
(* and only while some operation still makes it.                           *)
DeadlinePasses ==
    /\ ~pastDeadline /\ ~Terminal
    /\ pastDeadline' = TRUE
    /\ UNCHANGED <<run, task, plan, outbox, events>>

QueueWaitElapses(t) ==
    /\ Open /\ task[t].status = "queued" /\ ~task[t].waited
    /\ task' = [task EXCEPT ![t].waited = TRUE]
    /\ UNCHANGED <<run, plan, outbox, events, pastDeadline>>

LeaseElapses(t) ==
    /\ Open /\ task[t].status \in {"leased", "running"} /\ task[t].live
    /\ task' = [task EXCEPT ![t].live = FALSE]
    /\ UNCHANGED <<run, plan, outbox, events, pastDeadline>>

-----------------------------------------------------------------------------
\* The reason codes the two workers commit.
FailReasons(t) == IF t = PlanningTaskID THEN {"planner.failed"}
                  ELSE {"classified", "run.deadline", "manual_review_required"}

WorkerOp ==
    \E t \in Tasks, w \in Owners, f \in Fences :
        \/ LeaseTask(run.version, t, w, f)
        \/ StartTask(run.version, t, w, f)
        \/ \E r \in FailReasons(t) : FailTask(run.version, t, w, f, r)
        \/ t \in Steps /\ CompleteTask(run.version, t, w, f)
        \/ t \in Steps /\ ClaimExecution(t, w, f)
        \/ t \in Steps /\ StoreReceipt(t, w, f)
        \/ t = PlanningTaskID /\ \E p \in Plans : CompletePlanning(run.version, w, f, p)

ReconcileOp ==
    \/ RecoverAdmission
    \/ StartPlanning
    \/ ExpirePlanning
    \/ \E t \in Steps : \/ QueueTask(run.version, t)
                        \/ SkipTask(run.version, t)
                        \/ ExpireQueuedTask(run.version, t)
                        \/ ExpireUnstartedTask(run.version, t)
    \/ \E t \in Tasks, c \in CapacityReasons : MarkCapacityWaiting(run.version, t, c)
    \/ \E s \in ReconcileOutcomes : Transition(run.version, s)
    \/ Cancel

TimePasses ==
    \/ DeadlinePasses
    \/ \E t \in Tasks : QueueWaitElapses(t) \/ LeaseElapses(t)

StoreNext == WorkerOp \/ ReconcileOp \/ TimePasses

StoreSpec == StoreInit /\ [][StoreNext]_storeVars

-----------------------------------------------------------------------------
(* Safety of the store under arbitrary clients.                            *)

\* Nothing of a plan exists before CompletePlanning installs it, and nothing at
\* all before StartPlanning: neither of them overwrites a task in progress.
NothingBeforePlanning ==
    /\ run.rev = 0 => \A s \in Steps : task[s] = NoTask
    /\ run.status \in {"absent", "accepted"} => run.rev = 0 /\ task[PlanningTaskID] = NoTask

\* A task that was ever queued had all its dependencies completed, and they
\* still are: no client interleaving makes QueueTask jump the plan's order.
QueuedAfterDependencies ==
    \A t \in Steps :
        task[t].status \in {"queued", "leased", "running", "completed"}
            => \A d \in plan[t] : task[d].status = "completed"

\* The event stream holds a final event iff the run is over, then exactly one,
\* and nothing follows it: racing reconcilers, cancellations and workers never
\* log past the end, which subscribers take for the end of the run.
OneFinalEvent ==
    /\ events.finals = IF Terminal THEN 1 ELSE 0
    /\ Terminal <=> events.last \in FinalEvents

\* The right to execute a task is granted at most once, to the holder of a
\* fence the task really reached, and only that execution leaves a receipt.
ExecutionRightIsUnique ==
    [][\A t \in Steps :
         /\ task[t].token # 0 => task'[t].token = task[t].token
         /\ task[t].receipt => task'[t].receipt
         /\ task'[t].receipt /\ ~task[t].receipt => task[t].token = task[t].fence]_storeVars

\* Once a run is terminal nothing of it changes any more: neither its status,
\* version and events nor the outcome, claim and receipt of any task.
TerminalIsFinal ==
    [][Terminal => /\ UNCHANGED <<run, events, plan, outbox>>
                   /\ \A t \in Tasks : /\ task'[t].status = task[t].status
                                       /\ task'[t].token = task[t].token
                                       /\ task'[t].receipt = task[t].receipt
                                       /\ task'[t].reason = task[t].reason]_storeVars

\* A finished task keeps its outcome and a fence never moves backwards: a
\* worker that lost its lease cannot overwrite what its successor committed.
OutcomeIsFinal ==
    [][\A t \in Tasks :
         /\ task[t].status \in Finished =>
              task'[t].status = task[t].status /\ task'[t].reason = task[t].reason
         /\ task'[t].fence >= task[t].fence]_storeVars
=============================================================================
