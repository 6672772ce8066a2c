--------------------------- MODULE AgentRunProofs ---------------------------
(***************************************************************************)
(* Proofs about the RunStore under arbitrary clients, for every set of     *)
(* steps, plans and owners and every bound on the fences, and then about   *)
(* one durable run with any number of workers, services, steps, deliveries *)
(* and faults: every step is a transaction of the store (so the theorems   *)
(* about the store hold of the run), a step is executed at most once, a    *)
(* completed step has the receipt of its execution, the run implements     *)
(* RunContract, and no task of an open run is lost.                        *)
(***************************************************************************)
EXTENDS AgentRun, TLAPS, SequenceTheorems

(***************************************************************************)
(* The store under arbitrary clients.                                      *)
(***************************************************************************)
\* Statuses a step has only once its dependencies completed.
Active == {"queued", "leased", "running", "completed"}

\* The inductive invariant.
StoreInv ==
    /\ StoreTypeOK
    /\ NothingBeforePlanning
    /\ QueuedAfterDependencies
    /\ OneFinalEvent

-----------------------------------------------------------------------------
\* NoTask is a task record, and the planning task is no step.
LEMMA TaskBasics ==
    /\ NoTask \in Task /\ NoTask.status = "absent"
    /\ PlanningTaskID \in Tasks /\ Steps \subseteq Tasks
    /\ PlanningTaskID \notin Steps
BY StoreAssumption DEF NoTask, Task, TaskStatus, Finished, Reasons, Tasks

\* The initial state satisfies the invariant.
LEMMA InitInv == StoreInit => StoreInv
<1> SUFFICES ASSUME StoreInit PROVE StoreInv
    OBVIOUS
<1>1. StoreTypeOK
  <2>1. run \in [status : RunStatus, rev : {0, 1}, version : Nat]
      BY DEF StoreInit, RunStatus
  <2>2. task \in [Tasks -> Task]
      BY TaskBasics DEF StoreInit
  <2>3. plan \in [Steps -> SUBSET Steps]
      BY DEF StoreInit, NoPlan
  <2>4. outbox \in Seq(Tasks)
      BY DEF StoreInit
  <2>5. events \in [last : EventKinds, finals : Nat]
      BY DEF StoreInit, EventKinds
  <2>6. pastDeadline \in BOOLEAN
      BY DEF StoreInit
  <2> QED
      BY <2>1, <2>2, <2>3, <2>4, <2>5, <2>6 DEF StoreTypeOK
<1>2. NothingBeforePlanning
    BY TaskBasics DEF StoreInit, NothingBeforePlanning
<1>3. QueuedAfterDependencies
    BY TaskBasics DEF StoreInit, QueuedAfterDependencies, NoTask
<1>4. OneFinalEvent
    BY DEF StoreInit, OneFinalEvent, Terminal, RunTerminal, FinalEvents
<1> QED
    BY <1>1, <1>2, <1>3, <1>4 DEF StoreInv

\* What a transaction leaves in the snapshot and in the event stream.
LEMMA CommitEffect ==
    ASSUME StoreTypeOK, NEW s \in RunStatus, NEW k \in EventKinds, Commit(s, k)
    PROVE  /\ run' \in [status : RunStatus, rev : {0, 1}, version : Nat]
           /\ run'.status = s /\ run'.rev = run.rev
           /\ events' \in [last : EventKinds, finals : Nat]
           /\ events'.last = k
           /\ k \notin FinalEvents => events'.finals = events.finals
           /\ k \in FinalEvents => events'.finals = events.finals + 1
<1>1. run \in [status : RunStatus, rev : {0, 1}, version : Nat]
    BY DEF StoreTypeOK
<1>2. run' = [run EXCEPT !.status = s, !.version = run.version + 1]
    BY DEF Commit
<1>3. run' = [status |-> s, rev |-> run.rev, version |-> run.version + 1]
    BY <1>1, <1>2
<1>4. run' \in [status : RunStatus, rev : {0, 1}, version : Nat]
    BY <1>1, <1>3
<1>5. events \in [last : EventKinds, finals : Nat]
    BY DEF StoreTypeOK
<1>6. events' = [last |-> k, finals |-> IF k \in FinalEvents THEN events.finals + 1
                                       ELSE events.finals]
    BY DEF Commit, Logged
<1> QED
    BY <1>3, <1>4, <1>5, <1>6

\* mutateTask keeps the invariant when the new record keeps a completed task
\* completed and makes no step active that was not.
LEMMA MutateInv ==
    ASSUME StoreInv, NEW v, NEW t \in Tasks, NEW new \in Task,
           MutateTask(v, t, new),
           new.status # "absent",
           task[t].status = "completed" => new.status = "completed",
           new.status \in Active => task[t].status \in Active
    PROVE  StoreInv'
<1> USE TaskBasics
<1>1. /\ task' = [task EXCEPT ![t] = new]
      /\ UNCHANGED <<plan, outbox, pastDeadline>>
      /\ Open /\ run.rev = Revision(t)
      /\ task[t].status # "absent"
      /\ Commit(run.status, "agent_run.progress")
    BY DEF MutateTask
<1>2. /\ StoreTypeOK /\ run.status \in RunStatus
      /\ "agent_run.progress" \in EventKinds \ FinalEvents
    BY DEF StoreInv, StoreTypeOK, EventKinds, FinalEvents
<1>3. /\ run' \in [status : RunStatus, rev : {0, 1}, version : Nat]
      /\ run'.status = run.status /\ run'.rev = run.rev
      /\ events' \in [last : EventKinds, finals : Nat]
      /\ events'.last \notin FinalEvents
      /\ events'.finals = events.finals
    BY <1>1, <1>2, CommitEffect
<1>4. StoreTypeOK'
  <2>1. task' \in [Tasks -> Task]
      BY <1>1, <1>2 DEF StoreTypeOK
  <2> QED
      BY <1>1, <1>2, <1>3, <2>1 DEF StoreTypeOK
<1>5. NothingBeforePlanning'
  <2>1. run.rev = 0 => t = PlanningTaskID
      BY <1>1 DEF Revision
  <2>2. run.status \notin {"absent", "accepted"}
      BY <1>1, <2>1 DEF StoreInv, NothingBeforePlanning
  <2>3. \A s \in Steps : run.rev = 0 => task'[s] = task[s]
      BY <1>1, <1>2, <2>1 DEF StoreTypeOK
  <2> QED
      BY <1>3, <2>2, <2>3 DEF StoreInv, NothingBeforePlanning
<1>6. QueuedAfterDependencies'
    BY <1>1, <1>2 DEF StoreInv, StoreTypeOK, QueuedAfterDependencies, Active
<1>7. OneFinalEvent'
    BY <1>1, <1>3 DEF StoreInv, OneFinalEvent, Terminal, RunTerminal, Open, RunOpen
<1> QED
    BY <1>4, <1>5, <1>6, <1>7 DEF StoreInv

\* What the holder of a lease does through mutateTask keeps the invariant.
LEMMA MutationsInv ==
    ASSUME StoreInv, NEW v, NEW t \in Tasks, NEW w \in Owners, NEW f \in Nat,
           NEW r \in Reasons,
           \/ LeaseTask(v, t, w, f) \/ StartTask(v, t, w, f) \/ CompleteTask(v, t, w, f)
           \/ FailTask(v, t, w, f, r)
    PROVE  StoreInv'
<1>1. task[t] \in Task
    BY DEF StoreInv, StoreTypeOK
<1>2. CASE LeaseTask(v, t, w, f)
  <2> DEFINE new == [task[t] EXCEPT !.status = "leased", !.owner = w, !.fence = f,
                                    !.live = TRUE]
  <2>1. new \in Task /\ new.status = "leased"
      BY <1>1 DEF Task, TaskStatus
  <2>2. task[t].status \in {"queued", "leased", "running"} /\ MutateTask(v, t, new)
      BY <1>2 DEF LeaseTask, Leasable
  <2> QED
      BY <2>1, <2>2, MutateInv DEF Active
<1>3. CASE StartTask(v, t, w, f)
  <2> DEFINE new == [task[t] EXCEPT !.status = "running"]
  <2>1. new \in Task /\ new.status = "running"
      BY <1>1 DEF Task, TaskStatus
  <2>2. task[t].status = "leased" /\ MutateTask(v, t, new)
      BY <1>3 DEF StartTask
  <2> QED
      BY <2>1, <2>2, MutateInv DEF Active
<1>4. CASE CompleteTask(v, t, w, f)
  <2> DEFINE new == [task[t] EXCEPT !.status = "completed"]
  <2>1. new \in Task /\ new.status = "completed"
      BY <1>1 DEF Task, TaskStatus, Finished
  <2>2. task[t].status = "running" /\ MutateTask(v, t, new)
      BY <1>4 DEF CompleteTask
  <2> QED
      BY <2>1, <2>2, MutateInv DEF Active
<1>5. CASE FailTask(v, t, w, f, r)
  <2> DEFINE new == [task[t] EXCEPT !.status = "failed", !.reason = r]
  <2>1. new \in Task /\ new.status = "failed"
      BY <1>1 DEF Task, TaskStatus, Finished
  <2>2. task[t].status = "running" /\ MutateTask(v, t, new)
      BY <1>5 DEF FailTask
  <2> QED
      BY <2>1, <2>2, MutateInv DEF Active
<1> QED
    BY <1>2, <1>3, <1>4, <1>5

\* What a reconciler does to one task through mutateTask keeps the invariant.
LEMMA SoloMutationsInv ==
    ASSUME StoreInv, NEW v, NEW t \in Tasks, NEW c \in CapacityReasons \cup {""},
           \/ SkipTask(v, t) \/ ExpireQueuedTask(v, t)
           \/ ExpireUnstartedTask(v, t) \/ MarkCapacityWaiting(v, t, c)
    PROVE  StoreInv'
<1>1. task[t] \in Task
    BY DEF StoreInv, StoreTypeOK
<1>2. CASE SkipTask(v, t)
  <2> DEFINE new == [task[t] EXCEPT !.status = "skipped", !.reason = "dependency.failed"]
  <2>1. new \in Task /\ new.status = "skipped"
      BY <1>1 DEF Task, TaskStatus, Finished, Reasons
  <2>2. task[t].status = "pending_dependency" /\ MutateTask(v, t, new)
      BY <1>2 DEF SkipTask
  <2> QED
      BY <2>1, <2>2, MutateInv DEF Active
<1>3. CASE ExpireQueuedTask(v, t)
  <2> DEFINE new == [task[t] EXCEPT !.status = "failed", !.reason = "queue.timeout"]
  <2>1. new \in Task /\ new.status = "failed"
      BY <1>1 DEF Task, TaskStatus, Finished, Reasons
  <2>2. task[t].status = "queued" /\ MutateTask(v, t, new)
      BY <1>3 DEF ExpireQueuedTask
  <2> QED
      BY <2>1, <2>2, MutateInv DEF Active
<1>4. CASE ExpireUnstartedTask(v, t)
  <2> DEFINE new == [task[t] EXCEPT !.reason = "run.deadline",
                        !.status = IF @ = "queued" THEN "failed" ELSE "skipped"]
  <2>1. new \in Task /\ new.status \in {"failed", "skipped"}
      BY <1>1 DEF Task, TaskStatus, Finished, Reasons
  <2>2. task[t].status \in {"queued", "pending_dependency"} /\ MutateTask(v, t, new)
      BY <1>4 DEF ExpireUnstartedTask
  <2> QED
      BY <2>1, <2>2, MutateInv DEF Active
<1>5. CASE MarkCapacityWaiting(v, t, c)
  <2> DEFINE new == [task[t] EXCEPT !.queueReason = c]
  <2>1. new \in Task /\ new.status = task[t].status
      BY <1>1 DEF Task
  <2>2. task[t].status = "queued" /\ MutateTask(v, t, new)
      BY <1>5 DEF MarkCapacityWaiting
  <2> QED
      BY <2>1, <2>2, MutateInv DEF Active
<1> QED
    BY <1>2, <1>3, <1>4, <1>5

\* A step that changes neither a status nor the snapshot keeps the invariant:
\* claims, receipts and the passage of time.
LEMMA TouchInv ==
    ASSUME StoreInv, NEW t \in Tasks, NEW new \in Task,
           new.status = task[t].status, task[t].status # "absent",
           task' = [task EXCEPT ![t] = new],
           UNCHANGED <<run, plan, outbox, events, pastDeadline>>
    PROVE  StoreInv'
<1> USE TaskBasics
<1>1. StoreTypeOK'
    BY DEF StoreInv, StoreTypeOK
<1>2. NothingBeforePlanning'
    BY DEF StoreInv, StoreTypeOK, NothingBeforePlanning
<1>3. QueuedAfterDependencies'
    BY DEF StoreInv, StoreTypeOK, QueuedAfterDependencies
<1>4. OneFinalEvent'
    BY DEF StoreInv, OneFinalEvent, Terminal
<1> QED
    BY <1>1, <1>2, <1>3, <1>4 DEF StoreInv

\* The two calls of executionReceipt.
LEMMA ReceiptInv ==
    ASSUME StoreInv, NEW t \in Tasks, NEW w, NEW f \in Nat,
           ClaimExecution(t, w, f) \/ StoreReceipt(t, w, f)
    PROVE  StoreInv'
<1>1. task[t] \in Task
    BY DEF StoreInv, StoreTypeOK
<1>2. CASE ClaimExecution(t, w, f)
  <2> DEFINE new == [task[t] EXCEPT !.token = f]
  <2>1. new \in Task /\ new.status = task[t].status
      BY <1>1 DEF Task
  <2>2. /\ task[t].status # "absent" /\ task' = [task EXCEPT ![t] = new]
        /\ UNCHANGED <<run, plan, outbox, events, pastDeadline>>
      BY <1>2 DEF ClaimExecution, MayExecute
  <2> QED
      BY <2>1, <2>2, TouchInv
<1>3. CASE StoreReceipt(t, w, f)
  <2> DEFINE new == [task[t] EXCEPT !.receipt = TRUE]
  <2>1. new \in Task /\ new.status = task[t].status
      BY <1>1 DEF Task
  <2>2. /\ task[t].status # "absent" /\ task' = [task EXCEPT ![t] = new]
        /\ UNCHANGED <<run, plan, outbox, events, pastDeadline>>
      BY <1>3 DEF StoreReceipt, MayExecute
  <2> QED
      BY <2>1, <2>2, TouchInv
<1> QED
    BY <1>2, <1>3

\* The passage of time.
LEMMA ElapseInv ==
    ASSUME StoreInv, NEW t \in Tasks, QueueWaitElapses(t) \/ LeaseElapses(t)
    PROVE  StoreInv'
<1>1. task[t] \in Task
    BY DEF StoreInv, StoreTypeOK
<1>2. CASE QueueWaitElapses(t)
  <2> DEFINE new == [task[t] EXCEPT !.waited = TRUE]
  <2>1. new \in Task /\ new.status = task[t].status
      BY <1>1 DEF Task
  <2>2. /\ task[t].status # "absent" /\ task' = [task EXCEPT ![t] = new]
        /\ UNCHANGED <<run, plan, outbox, events, pastDeadline>>
      BY <1>2 DEF QueueWaitElapses
  <2> QED
      BY <2>1, <2>2, TouchInv
<1>3. CASE LeaseElapses(t)
  <2> DEFINE new == [task[t] EXCEPT !.live = FALSE]
  <2>1. new \in Task /\ new.status = task[t].status
      BY <1>1 DEF Task
  <2>2. /\ task[t].status # "absent" /\ task' = [task EXCEPT ![t] = new]
        /\ UNCHANGED <<run, plan, outbox, events, pastDeadline>>
      BY <1>3 DEF LeaseElapses
  <2> QED
      BY <2>1, <2>2, TouchInv
<1> QED
    BY <1>2, <1>3

\* Transactions that close the run, or open it, without touching a step: the
\* planning task may only end or, from nothing, be queued.
LEMMA CloseInv ==
    ASSUME StoreInv, NEW s \in RunStatus, NEW k \in EventKinds, Commit(s, k),
           s \in RunTerminal <=> k \in FinalEvents, ~Terminal,
           task' \in [Tasks -> Task], outbox' \in Seq(Tasks),
           \A u \in Steps : task'[u] = task[u],
           s \in {"absent", "accepted"} => /\ run.status \in {"absent", "accepted"}
                                          /\ task' = task,
           UNCHANGED <<plan, pastDeadline>>
    PROVE  StoreInv'
<1>1. StoreTypeOK /\ plan \in [Steps -> SUBSET Steps]
    BY DEF StoreInv, StoreTypeOK
<1>2. /\ run' \in [status : RunStatus, rev : {0, 1}, version : Nat]
      /\ run'.status = s /\ run'.rev = run.rev
      /\ events' \in [last : EventKinds, finals : Nat]
      /\ events'.last = k
      /\ k \notin FinalEvents => events'.finals = events.finals
      /\ k \in FinalEvents => events'.finals = events.finals + 1
    BY <1>1, CommitEffect
<1>3. StoreTypeOK'
    BY <1>1, <1>2 DEF StoreTypeOK
<1>4. NothingBeforePlanning'
    BY <1>2 DEF StoreInv, NothingBeforePlanning
<1>5. QueuedAfterDependencies'
    BY <1>1 DEF StoreInv, QueuedAfterDependencies
<1>6. OneFinalEvent'
    BY <1>2 DEF StoreInv, OneFinalEvent, Terminal
<1> QED
    BY <1>3, <1>4, <1>5, <1>6 DEF StoreInv

\* Admission, the start and the end of planning, and the final transition.
LEMMA LifecycleInv ==
    ASSUME StoreInv, NEW v, NEW o \in ReconcileOutcomes,
           RecoverAdmission \/ StartPlanning \/ ExpirePlanning \/ Transition(v, o)
    PROVE  StoreInv'
<1> USE TaskBasics
<1>1. /\ task \in [Tasks -> Task] /\ outbox \in Seq(Tasks) /\ run.status \in RunStatus
      /\ {"accepted", "planning", "failed"} \cup ReconcileOutcomes \subseteq RunStatus
      /\ ReconcileOutcomes \cup {"failed"} \subseteq RunTerminal
      /\ {"accepted", "planning"} \cap RunTerminal = {}
    BY DEF StoreInv, StoreTypeOK, RunStatus, RunOpen, RunTerminal, ReconcileOutcomes
<1>2. /\ FinalEvents \cup {"agent_run.started", "agent_run.progress"} \subseteq EventKinds
      /\ {"agent_run.started", "agent_run.progress"} \cap FinalEvents = {}
      /\ {"agent_run.final", "agent_run.failed"} \subseteq FinalEvents
    BY DEF EventKinds, FinalEvents
<1>3. \A q \in {"absent", "accepted", "planning"} : run.status = q => ~Terminal
    BY DEF Terminal, RunTerminal
<1>4. CASE RecoverAdmission
  <2>1. /\ run.status = "absent" /\ UNCHANGED <<task, plan, outbox, pastDeadline>>
        /\ Commit("accepted", "agent_run.started") \/ Commit("failed", "agent_run.failed")
      BY <1>4 DEF RecoverAdmission, Create
  <2>2. CASE Commit("accepted", "agent_run.started")
      BY <1>1, <1>2, <1>3, <2>1, <2>2, CloseInv
  <2>3. CASE Commit("failed", "agent_run.failed")
      BY <1>1, <1>2, <1>3, <2>1, <2>3, CloseInv
  <2> QED
      BY <2>1, <2>2, <2>3
<1>5. CASE StartPlanning
  <2> DEFINE new == [NoTask EXCEPT !.status = "queued"]
  <2>1. /\ run.status = "accepted" /\ UNCHANGED <<plan, pastDeadline>>
        /\ Commit("planning", "agent_run.progress")
        /\ task' = [task EXCEPT ![PlanningTaskID] = new]
        /\ outbox' = Append(outbox, PlanningTaskID)
      BY <1>5 DEF StartPlanning
  <2>2. new \in Task
      BY DEF Task, TaskStatus
  <2>3. task' \in [Tasks -> Task] /\ \A u \in Steps : task'[u] = task[u]
      BY <1>1, <2>1, <2>2
  <2>4. outbox' \in Seq(Tasks)
      BY <1>1, <2>1
  <2> QED
      BY <1>1, <1>2, <1>3, <2>1, <2>3, <2>4, CloseInv
<1>6. CASE ExpirePlanning
  <2> DEFINE new == [task[PlanningTaskID] EXCEPT !.status = "failed",
                                                 !.reason = PlanningExpiry]
  <2>1. /\ run.status \in {"accepted", "planning"}
        /\ UNCHANGED <<plan, outbox, pastDeadline>>
        /\ Commit("failed", "agent_run.final")
        /\ \/ task' = task
           \/ task' = [task EXCEPT ![PlanningTaskID] = new]
      BY <1>6 DEF ExpirePlanning
  <2>2. PlanningExpiry \in Reasons
      BY <1>1 DEF PlanningExpiry, Reasons, Task
  <2>3. new \in Task
      BY <1>1, <2>2 DEF Task, TaskStatus, Finished
  <2>4. task' \in [Tasks -> Task] /\ \A u \in Steps : task'[u] = task[u]
      BY <1>1, <2>1, <2>3
  <2> QED
      BY <1>1, <1>2, <1>3, <2>1, <2>4, CloseInv
<1>7. CASE Transition(v, o)
  <2>1. /\ Open /\ UNCHANGED <<task, plan, outbox, pastDeadline>>
        /\ Commit(o, "agent_run.final")
      BY <1>7 DEF Transition
  <2>2. ~Terminal /\ o \notin {"absent", "accepted"}
      BY <2>1 DEF Open, RunOpen, Terminal, RunTerminal, ReconcileOutcomes
  <2> QED
      BY <1>1, <1>2, <2>1, <2>2, CloseInv
<1> QED
    BY <1>4, <1>5, <1>6, <1>7

\* QueueTask makes a step active only after reading its dependencies.
LEMMA QueueInv ==
    ASSUME StoreInv, NEW v, NEW t \in Steps, QueueTask(v, t)
    PROVE  StoreInv'
<1> USE TaskBasics
<1>1. /\ run.rev = 1 /\ Open /\ task[t].status = "pending_dependency"
      /\ \A d \in plan[t] : task[d].status = "completed"
      /\ task' = [task EXCEPT ![t].status = "queued"]
      /\ outbox' = Append(outbox, t)
      /\ Commit("running", "agent_run.progress")
      /\ UNCHANGED <<plan, pastDeadline>>
    BY DEF QueueTask
<1>2. /\ StoreTypeOK /\ "running" \in RunStatus
      /\ "agent_run.progress" \in EventKinds \ FinalEvents
    BY DEF StoreInv, EventKinds, FinalEvents, RunStatus, RunOpen
<1>3. /\ run' \in [status : RunStatus, rev : {0, 1}, version : Nat]
      /\ run'.status = "running" /\ run'.rev = 1
      /\ events' \in [last : EventKinds, finals : Nat]
      /\ events'.last \notin FinalEvents
      /\ events'.finals = events.finals
    BY <1>1, <1>2, CommitEffect
<1>4. StoreTypeOK'
  <2>1. task' \in [Tasks -> Task]
      BY <1>1, <1>2 DEF StoreTypeOK, Task, TaskStatus
  <2>2. outbox' \in Seq(Tasks)
      BY <1>1, <1>2 DEF StoreTypeOK
  <2> QED
      BY <1>1, <1>2, <1>3, <2>1, <2>2 DEF StoreTypeOK
<1>5. NothingBeforePlanning'
    BY <1>3 DEF NothingBeforePlanning
<1>6. QueuedAfterDependencies'
    BY <1>1, <1>2 DEF StoreInv, StoreTypeOK, QueuedAfterDependencies
<1>7. OneFinalEvent'
    BY <1>1, <1>3 DEF StoreInv, OneFinalEvent, Terminal, RunTerminal, Open, RunOpen
<1> QED
    BY <1>4, <1>5, <1>6, <1>7 DEF StoreInv

\* Cancel ends every unfinished task and leaves the finished ones alone.
LEMMA CancelInv ==
    ASSUME StoreInv, Cancel
    PROVE  StoreInv'
<1> USE TaskBasics
<1> DEFINE why(t) == IF task[t].token # 0 /\ ~task[t].receipt
                     THEN "manual_review_required" ELSE "run.cancelled"
           new(t) == [task[t] EXCEPT !.status = "cancelled", !.live = FALSE,
                                     !.reason = why(t)]
<1>1. /\ Open /\ UNCHANGED <<plan, pastDeadline>>
      /\ task' = [t \in Tasks |-> IF t \in Unfinished THEN new(t) ELSE task[t]]
      /\ outbox' = <<>>
      /\ Commit("cancelled", "agent_run.cancelled")
    BY DEF Cancel
<1>2. /\ StoreTypeOK /\ "cancelled" \in RunStatus
      /\ "agent_run.cancelled" \in EventKinds \cap FinalEvents
    BY DEF StoreInv, EventKinds, FinalEvents, RunStatus, RunTerminal
<1>3. /\ run' \in [status : RunStatus, rev : {0, 1}, version : Nat]
      /\ run'.status = "cancelled" /\ run'.rev = run.rev
      /\ events' \in [last : EventKinds, finals : Nat]
      /\ events'.last \in FinalEvents
      /\ events'.finals = events.finals + 1
    BY <1>1, <1>2, CommitEffect
<1>4. \A t \in Tasks : new(t) \in Task /\ new(t).status = "cancelled"
  <2> SUFFICES ASSUME NEW t \in Tasks
               PROVE  new(t) \in Task /\ new(t).status = "cancelled"
      OBVIOUS
  <2>1. task[t] \in Task
      BY <1>2 DEF StoreTypeOK
  <2>2. why(t) \in Reasons
      BY DEF Reasons
  <2> HIDE DEF why
  <2> QED
      BY <2>1, <2>2 DEF Task, TaskStatus, Finished
<1>5. StoreTypeOK'
  <2>1. task' \in [Tasks -> Task]
      BY <1>1, <1>2, <1>4 DEF StoreTypeOK
  <2>2. <<>> \in Seq(Tasks)
      OBVIOUS
  <2>3. outbox' = <<>>
      BY <1>1
  <2> QED
      BY <1>1, <1>2, <1>3, <2>1, <2>2, <2>3 DEF StoreTypeOK
<1>6. NothingBeforePlanning'
    BY <1>1, <1>3 DEF StoreInv, NothingBeforePlanning, Unfinished
<1>7. QueuedAfterDependencies'
  <2>1. \A t \in Tasks : /\ task'[t].status = "completed" <=> task[t].status = "completed"
                         /\ task'[t].status \in Active => task'[t].status = task[t].status
      BY <1>1, <1>4 DEF Unfinished, Finished, Active
  <2> QED
      BY <1>1, <1>2, <2>1 DEF StoreInv, StoreTypeOK, QueuedAfterDependencies, Active
<1>8. OneFinalEvent'
  <2>1. ~Terminal /\ Terminal'
      BY <1>1, <1>3 DEF Terminal, RunTerminal, Open, RunOpen
  <2>2. events.finals = 0
      BY <2>1 DEF StoreInv, OneFinalEvent
  <2> QED
      BY <1>3, <2>1, <2>2 DEF OneFinalEvent
<1> QED
    BY <1>5, <1>6, <1>7, <1>8 DEF StoreInv

\* CompletePlanning replaces tasks that do not exist yet.
LEMMA PlanInv ==
    ASSUME StoreInv, NEW v, NEW w, NEW f, NEW p \in Plans, CompletePlanning(v, w, f, p)
    PROVE  StoreInv'
<1> USE TaskBasics
<1> DEFINE done == [task[PlanningTaskID] EXCEPT !.status = "completed"]
           new == [NoTask EXCEPT !.status = "pending_dependency"]
<1>1. /\ run.rev = 0 /\ run.status = "planning" /\ plan' = p
      /\ task' = [t \in Tasks |-> IF t = PlanningTaskID THEN done ELSE new]
      /\ run' = [run EXCEPT !.rev = 1, !.version = run.version + 1]
      /\ events' = [last |-> "agent_run.progress", finals |-> events.finals]
      /\ UNCHANGED <<outbox, pastDeadline>>
    BY DEF CompletePlanning, Logged, FinalEvents
<1>2. StoreTypeOK
    BY DEF StoreInv
<1>3. /\ done \in Task
      /\ new \in Task /\ new.status = "pending_dependency"
    BY <1>2 DEF StoreTypeOK, Task, TaskStatus, Finished, NoTask
<1>4. run' = [status |-> "planning", rev |-> 1, version |-> run.version + 1]
    BY <1>1, <1>2 DEF StoreTypeOK
<1>5. StoreTypeOK'
  <2>1. run' \in [status : RunStatus, rev : {0, 1}, version : Nat]
      BY <1>2, <1>4 DEF StoreTypeOK, RunStatus, RunOpen
  <2>2. task' \in [Tasks -> Task]
      BY <1>1, <1>3
  <2>3. plan' \in [Steps -> SUBSET Steps]
      BY <1>1, StoreAssumption
  <2>4. events' \in [last : EventKinds, finals : Nat]
      BY <1>1, <1>2 DEF StoreTypeOK, EventKinds
  <2> QED
      BY <1>1, <1>2, <2>1, <2>2, <2>3, <2>4 DEF StoreTypeOK
<1>6. NothingBeforePlanning'
    BY <1>4 DEF NothingBeforePlanning
<1>7. QueuedAfterDependencies'
    BY <1>1, <1>3 DEF QueuedAfterDependencies
<1>8. OneFinalEvent'
    BY <1>1, <1>4 DEF StoreInv, OneFinalEvent, Terminal, RunTerminal, FinalEvents
<1> QED
    BY <1>5, <1>6, <1>7, <1>8 DEF StoreInv

-----------------------------------------------------------------------------
\* Every step of every client keeps the invariant.
LEMMA NextInv == StoreInv /\ [StoreNext]_storeVars => StoreInv'
<1> SUFFICES ASSUME StoreInv, [StoreNext]_storeVars PROVE StoreInv'
    OBVIOUS
<1> USE TaskBasics
<1>1. \A f \in Fences : f \in Nat
    BY DEF Fences
<1>2. "" \in Reasons /\ "" \in CapacityReasons \cup {""}
    BY DEF Reasons
<1>3. CASE WorkerOp
  <2>1. PICK t \in Tasks, w \in Owners, f \in Fences :
          \/ LeaseTask(run.version, t, w, f)
          \/ StartTask(run.version, t, w, f)
          \/ \E r \in FailReasons(t) : FailTask(run.version, t, w, f, r)
          \/ t \in Steps /\ CompleteTask(run.version, t, w, f)
          \/ t \in Steps /\ ClaimExecution(t, w, f)
          \/ t \in Steps /\ StoreReceipt(t, w, f)
          \/ t = PlanningTaskID /\ \E p \in Plans : CompletePlanning(run.version, w, f, p)
      BY <1>3 DEF WorkerOp
  <2>2. FailReasons(t) \subseteq Reasons
      BY DEF FailReasons, Reasons
  <2>3. CASE \/ LeaseTask(run.version, t, w, f) \/ StartTask(run.version, t, w, f)
             \/ CompleteTask(run.version, t, w, f)
      BY <1>1, <1>2, <2>3, MutationsInv
  <2>4. CASE \E r \in FailReasons(t) : FailTask(run.version, t, w, f, r)
      BY <1>1, <1>2, <2>2, <2>4, MutationsInv
  <2>5. CASE ClaimExecution(t, w, f) \/ StoreReceipt(t, w, f)
      BY <1>1, <2>5, ReceiptInv
  <2>6. CASE \E p \in Plans : CompletePlanning(run.version, w, f, p)
      BY <2>6, PlanInv
  <2> QED
      BY <2>1, <2>3, <2>4, <2>5, <2>6
<1>4. CASE ReconcileOp
  <2>1. CASE RecoverAdmission \/ StartPlanning \/ ExpirePlanning
    <3>1. "failed" \in ReconcileOutcomes
        BY DEF ReconcileOutcomes
    <3> QED
        BY <2>1, <3>1, LifecycleInv
  <2>2. CASE \E s \in ReconcileOutcomes : Transition(run.version, s)
      BY <2>2, LifecycleInv
  <2>3. CASE \E t \in Steps : QueueTask(run.version, t)
      BY <2>3, QueueInv
  <2>4. CASE \E t \in Steps : \/ SkipTask(run.version, t) \/ ExpireQueuedTask(run.version, t)
                              \/ ExpireUnstartedTask(run.version, t)
    <3>1. PICK t \in Tasks : SkipTask(run.version, t) \/ ExpireQueuedTask(run.version, t)
                             \/ ExpireUnstartedTask(run.version, t)
        BY <2>4
    <3> QED
        BY <1>2, <3>1, SoloMutationsInv
  <2>5. CASE \E t \in Tasks, c \in CapacityReasons : MarkCapacityWaiting(run.version, t, c)
      BY <1>2, <2>5, SoloMutationsInv
  <2>6. CASE Cancel
      BY <2>6, CancelInv
  <2> QED
      BY <1>4, <2>1, <2>2, <2>3, <2>4, <2>5, <2>6 DEF ReconcileOp
<1>5. CASE TimePasses
  <2>1. CASE DeadlinePasses
      BY <2>1 DEF DeadlinePasses, StoreInv, StoreTypeOK, NothingBeforePlanning,
                  QueuedAfterDependencies, OneFinalEvent, Terminal
  <2>2. CASE \E t \in Tasks : QueueWaitElapses(t) \/ LeaseElapses(t)
      BY <2>2, ElapseInv
  <2> QED
      BY <1>5, <2>1, <2>2 DEF TimePasses
<1>6. CASE UNCHANGED storeVars
    BY <1>6 DEF storeVars, StoreInv, StoreTypeOK, NothingBeforePlanning,
                QueuedAfterDependencies, OneFinalEvent, Terminal
<1> QED
    BY <1>3, <1>4, <1>5, <1>6 DEF StoreNext

\* The invariant holds in every state of every client behaviour.
THEOREM StoreInvariance == StoreSpec => []StoreInv
    BY InitInv, NextInv, PTL DEF StoreSpec

\* Type correctness of the store for every client behaviour.
THEOREM TypeCorrect == StoreSpec => []StoreTypeOK
<1>1. StoreInv => StoreTypeOK
    BY DEF StoreInv
<1> QED
    BY <1>1, StoreInvariance, PTL

\* QueueTask never jumps the plan's order, whoever calls it and whenever.
THEOREM DependencyOrder == StoreSpec => []QueuedAfterDependencies
<1>1. StoreInv => QueuedAfterDependencies
    BY DEF StoreInv
<1> QED
    BY <1>1, StoreInvariance, PTL

\* A run's event stream ends with its one final event.
THEOREM SingleFinalEvent == StoreSpec => []OneFinalEvent
<1>1. StoreInv => OneFinalEvent
    BY DEF StoreInv
<1> QED
    BY <1>1, StoreInvariance, PTL

\* StartPlanning and CompletePlanning are the only way in: no client makes a
\* planning request before admission or a step before the plan is installed.
THEOREM NothingBeforePlan == StoreSpec => []NothingBeforePlanning
<1>1. StoreInv => NothingBeforePlanning
    BY DEF StoreInv
<1> QED
    BY <1>1, StoreInvariance, PTL

-----------------------------------------------------------------------------
(* Action properties: what no step of any client does.                     *)

\* TerminalIsFinal as a step, for the states of the invariant.
LEMMA TerminalStep ==
    ASSUME StoreInv, StoreNext, Terminal
    PROVE  UNCHANGED <<run, events, plan, outbox, task>>
<1>1. run.status \notin RunOpen \cup {"absent"}
    BY DEF Terminal, RunTerminal, RunOpen
<1>2. ~Open
    BY <1>1 DEF Open
<1>3. \A v, t, new : ~MutateTask(v, t, new)
    BY <1>2 DEF MutateTask
<1>4. ~WorkerOp
  <2>1. \A t, w, f : ~LeaseTask(run.version, t, w, f) /\ ~StartTask(run.version, t, w, f)
                     /\ ~CompleteTask(run.version, t, w, f)
      BY <1>3 DEF LeaseTask, StartTask, CompleteTask
  <2>2. \A t, w, f, r : ~FailTask(run.version, t, w, f, r)
      BY <1>3 DEF FailTask
  <2>3. \A t, w, f : ~ClaimExecution(t, w, f) /\ ~StoreReceipt(t, w, f)
      BY <1>2 DEF ClaimExecution, StoreReceipt, MayExecute
  <2>4. \A w, f, p : ~CompletePlanning(run.version, w, f, p)
      BY <1>1 DEF CompletePlanning, RunOpen
  <2> QED
      BY <2>1, <2>2, <2>3, <2>4, Zenon DEF WorkerOp
<1>5. ~ReconcileOp
    BY <1>1, <1>2, <1>3 DEF ReconcileOp, RecoverAdmission, Create, StartPlanning, RunOpen,
                            ExpirePlanning, QueueTask, SkipTask, ExpireQueuedTask,
                            ExpireUnstartedTask, MarkCapacityWaiting, Transition, Cancel
<1>6. ~TimePasses
    BY <1>2 DEF TimePasses, DeadlinePasses, QueueWaitElapses, LeaseElapses
<1> QED
    BY <1>4, <1>5, <1>6 DEF StoreNext

\* A terminal run is never written again, by any interleaving of workers,
\* reconcilers and cancellations.
THEOREM TerminalRunsStay == StoreSpec => TerminalIsFinal
<1>1. StoreInv /\ [StoreNext]_storeVars =>
        [Terminal => /\ UNCHANGED <<run, events, plan, outbox>>
                     /\ \A t \in Tasks : /\ task'[t].status = task[t].status
                                         /\ task'[t].token = task[t].token
                                         /\ task'[t].receipt = task[t].receipt
                                         /\ task'[t].reason = task[t].reason]_storeVars
    BY TerminalStep DEF storeVars
<1> QED
    BY <1>1, StoreInvariance, PTL DEF StoreSpec, TerminalIsFinal

-----------------------------------------------------------------------------
(***************************************************************************)
(* Action properties: what no step of any client does to a task.  They     *)
(* rest on the invariant above and on one more: while the run may still    *)
(* plan, its planning task has not ended in a way that ExpirePlanning      *)
(* would overwrite.                                                        *)
(***************************************************************************)

\* Ends of the planning task that come with the end of planning itself.
PlanningDone == {"completed", "skipped", "cancelled"}

PlannerUndone ==
    run.rev = 0 /\ Open => task[PlanningTaskID].status \notin PlanningDone

\* What a step may make of the record x: its outcome, its execution token and
\* its receipt stay, its fence only grows, a receipt comes from the claimant.
TaskKept(x, y) ==
    /\ x.status \in Finished => y.status = x.status /\ y.reason = x.reason
    /\ y.fence >= x.fence
    /\ x.token # 0 => y.token = x.token
    /\ x.receipt => y.receipt
    /\ y.receipt /\ ~x.receipt => x.token = x.fence

StepKept == PlannerUndone' /\ \A u \in Tasks : TaskKept(task[u], task'[u])

-----------------------------------------------------------------------------
\* A successor that has the same receipt and an equal or a higher fence.
LEMMA KeptBySame ==
    ASSUME NEW x \in Task, NEW y, y.receipt = x.receipt,
           y.fence = x.fence \/ (y.fence \in Nat /\ y.fence > x.fence),
           x.token # 0 => y.token = x.token,
           x.status \in Finished => y.status = x.status /\ y.reason = x.reason
    PROVE  TaskKept(x, y)
<1>1. x.fence \in Nat
    BY DEF Task
<1>2. y.fence >= x.fence
    BY <1>1
<1> QED
    BY <1>2, Zenon DEF TaskKept

\* A record is a legal successor of itself.
LEMMA KeptReflexive == ASSUME NEW x \in Task PROVE TaskKept(x, x)
BY KeptBySame

\* One record is replaced by a legal successor that does not end planning.
LEMMA RewriteKept ==
    ASSUME StoreInv, PlannerUndone, NEW t \in Tasks, NEW new,
           task' = [task EXCEPT ![t] = new], TaskKept(task[t], new),
           run'.rev = run.rev, Open' => Open,
           t = PlanningTaskID => new.status \notin PlanningDone
    PROVE  StepKept
<1>1. task \in [Tasks -> Task]
    BY DEF StoreInv, StoreTypeOK
<1>2. \A u \in Tasks : TaskKept(task[u], task[u])
    BY <1>1, KeptReflexive
<1>3. \A u \in Tasks : task'[u] = IF u = t THEN new ELSE task[u]
    BY <1>1
<1>4. \A u \in Tasks : TaskKept(task[u], task'[u])
    BY <1>2, <1>3
<1>5. PlannerUndone'
    BY <1>3, TaskBasics DEF PlannerUndone
<1> QED
    BY <1>4, <1>5 DEF StepKept

\* A step that writes no record.
LEMMA IdleKept ==
    ASSUME StoreInv, PlannerUndone, UNCHANGED task, run'.rev = run.rev,
           Open' => Open \/ task[PlanningTaskID].status \notin PlanningDone
    PROVE  StepKept
<1>1. \A u \in Tasks : TaskKept(task[u], task[u])
    BY KeptReflexive DEF StoreInv, StoreTypeOK
<1>2. PlannerUndone'
    BY DEF PlannerUndone
<1> QED
    BY <1>1, <1>2 DEF StepKept

\* The same through mutateTask, which leaves revision and status alone.
LEMMA MutateKept ==
    ASSUME StoreInv, PlannerUndone, NEW v, NEW t \in Tasks, NEW new,
           MutateTask(v, t, new), TaskKept(task[t], new),
           t = PlanningTaskID => new.status \notin PlanningDone
    PROVE  StepKept
<1>1. run \in [status : RunStatus, rev : {0, 1}, version : Nat]
    BY DEF StoreInv, StoreTypeOK
<1>2. run'.rev = run.rev /\ run'.status = run.status
    BY <1>1 DEF MutateTask, Commit
<1>3. (Open' => Open) /\ task' = [task EXCEPT ![t] = new]
    BY <1>2 DEF Open, MutateTask
<1> QED
    BY <1>2, <1>3, RewriteKept

\* What the holder of a lease does.
LEMMA WorkerKept ==
    ASSUME StoreInv, PlannerUndone, NEW t \in Tasks, NEW w, NEW f \in Nat, NEW r,
           \/ LeaseTask(run.version, t, w, f) \/ StartTask(run.version, t, w, f)
           \/ FailTask(run.version, t, w, f, r)
           \/ t \in Steps /\ CompleteTask(run.version, t, w, f)
    PROVE  StepKept
<1>1. task[t] \in Task
    BY DEF StoreInv, StoreTypeOK
<1>2. CASE LeaseTask(run.version, t, w, f)
  <2> DEFINE new == [task[t] EXCEPT !.status = "leased", !.owner = w, !.fence = f,
                                    !.live = TRUE]
  <2>1. /\ task[t].status \in {"queued", "leased", "running"} /\ f > task[t].fence
        /\ MutateTask(run.version, t, new)
      BY <1>2 DEF LeaseTask, Leasable
  <2>2. /\ new.receipt = task[t].receipt /\ new.fence = f
        /\ task[t].token # 0 => new.token = task[t].token
        /\ task[t].status \notin Finished
        /\ new.status \notin PlanningDone
      BY <1>1, <2>1 DEF Task, Finished, PlanningDone
  <2>3. TaskKept(task[t], new)
      BY <1>1, <2>1, <2>2, KeptBySame
  <2> QED
      BY <2>1, <2>2, <2>3, MutateKept
<1>3. CASE StartTask(run.version, t, w, f)
  <2> DEFINE new == [task[t] EXCEPT !.status = "running"]
  <2>1. task[t].status = "leased" /\ MutateTask(run.version, t, new)
      BY <1>3 DEF StartTask
  <2>2. /\ new.receipt = task[t].receipt /\ new.fence = task[t].fence
        /\ task[t].token # 0 => new.token = task[t].token
        /\ task[t].status \notin Finished
        /\ new.status \notin PlanningDone
      BY <1>1, <2>1 DEF Task, Finished, PlanningDone
  <2>3. TaskKept(task[t], new)
      BY <1>1, <2>2, KeptBySame
  <2> QED
      BY <2>1, <2>2, <2>3, MutateKept
<1>4. CASE FailTask(run.version, t, w, f, r)
  <2> DEFINE new == [task[t] EXCEPT !.status = "failed", !.reason = r]
  <2>1. task[t].status = "running" /\ MutateTask(run.version, t, new)
      BY <1>4 DEF FailTask
  <2>2. /\ new.receipt = task[t].receipt /\ new.fence = task[t].fence
        /\ task[t].token # 0 => new.token = task[t].token
        /\ task[t].status \notin Finished
        /\ new.status \notin PlanningDone
      BY <1>1, <2>1 DEF Task, Finished, PlanningDone
  <2>3. TaskKept(task[t], new)
      BY <1>1, <2>2, KeptBySame
  <2> QED
      BY <2>1, <2>2, <2>3, MutateKept
<1>5. CASE t \in Steps /\ CompleteTask(run.version, t, w, f)
  <2> DEFINE new == [task[t] EXCEPT !.status = "completed"]
  <2>1. task[t].status = "running" /\ MutateTask(run.version, t, new)
      BY <1>5 DEF CompleteTask
  <2>2. /\ new.receipt = task[t].receipt /\ new.fence = task[t].fence
        /\ task[t].token # 0 => new.token = task[t].token
        /\ task[t].status \notin Finished
        /\ t # PlanningTaskID
      BY <1>1, <1>5, <2>1, TaskBasics DEF Task, Finished
  <2>3. TaskKept(task[t], new)
      BY <1>1, <2>2, KeptBySame
  <2> QED
      BY <2>1, <2>2, <2>3, MutateKept
<1> QED
    BY <1>2, <1>3, <1>4, <1>5

\* The two calls of executionReceipt: only the first claim sets the token, and
\* a receipt needs the fence that claimed.
LEMMA ReceiptKept ==
    ASSUME StoreInv, PlannerUndone, NEW t \in Tasks, NEW w, NEW f \in Nat,
           ClaimExecution(t, w, f) \/ StoreReceipt(t, w, f)
    PROVE  StepKept
<1>1. task[t] \in Task /\ UNCHANGED run /\ (Open' => Open)
    BY DEF StoreInv, StoreTypeOK, ClaimExecution, StoreReceipt, Open
<1>2. task[t].status = "running" /\ task[t].fence = f
    BY DEF ClaimExecution, StoreReceipt, MayExecute, HoldsLease
<1>3. CASE ClaimExecution(t, w, f)
  <2> DEFINE new == [task[t] EXCEPT !.token = f]
  <2>1. task[t].token = 0 /\ task' = [task EXCEPT ![t] = new]
      BY <1>3 DEF ClaimExecution
  <2>2. /\ new.receipt = task[t].receipt /\ new.fence = task[t].fence
        /\ task[t].token # 0 => new.token = task[t].token
        /\ task[t].status \notin Finished
        /\ new.status \notin PlanningDone
      BY <1>1, <1>2, <2>1 DEF Task, Finished, PlanningDone
  <2>3. TaskKept(task[t], new)
      BY <1>1, <2>2, KeptBySame
  <2> QED
      BY <1>1, <2>1, <2>2, <2>3, RewriteKept
<1>4. CASE StoreReceipt(t, w, f)
  <2> DEFINE new == [task[t] EXCEPT !.receipt = TRUE]
  <2>1. task[t].token = f /\ task' = [task EXCEPT ![t] = new]
      BY <1>4 DEF StoreReceipt
  <2>2. /\ new.receipt = TRUE /\ new.fence = task[t].fence /\ new.token = task[t].token
        /\ task[t].token = task[t].fence /\ task[t].status \notin Finished
        /\ new.status \notin PlanningDone
      BY <1>1, <1>2, <2>1 DEF Task, Finished, PlanningDone
  <2>3. new.fence >= task[t].fence
      BY <1>2, <2>2
  <2>4. TaskKept(task[t], new)
      BY <2>2, <2>3, Zenon DEF TaskKept
  <2> QED
      BY <1>1, <2>1, <2>2, <2>4, RewriteKept
<1> QED
    BY <1>3, <1>4

\* What a reconciler does to one task.
LEMMA ReconcilerKept ==
    ASSUME StoreInv, PlannerUndone, NEW t \in Tasks, NEW c,
           \/ MarkCapacityWaiting(run.version, t, c)
           \/ t \in Steps /\ \/ QueueTask(run.version, t) \/ SkipTask(run.version, t)
                             \/ ExpireQueuedTask(run.version, t)
                             \/ ExpireUnstartedTask(run.version, t)
    PROVE  StepKept
<1>1. task[t] \in Task /\ (t \in Steps => t # PlanningTaskID)
    BY TaskBasics DEF StoreInv, StoreTypeOK
<1>2. CASE MarkCapacityWaiting(run.version, t, c)
  <2> DEFINE new == [task[t] EXCEPT !.queueReason = c]
  <2>1. task[t].status = "queued" /\ MutateTask(run.version, t, new)
      BY <1>2 DEF MarkCapacityWaiting
  <2>2. /\ new.receipt = task[t].receipt /\ new.fence = task[t].fence
        /\ task[t].token # 0 => new.token = task[t].token
        /\ task[t].status \notin Finished
        /\ new.status \notin PlanningDone
      BY <1>1, <2>1 DEF Task, Finished, PlanningDone
  <2>3. TaskKept(task[t], new)
      BY <1>1, <2>2, KeptBySame
  <2> QED
      BY <2>1, <2>2, <2>3, MutateKept
<1>3. CASE t \in Steps /\ QueueTask(run.version, t)
  <2> DEFINE new == [task[t] EXCEPT !.status = "queued"]
  <2>1. /\ task[t].status = "pending_dependency" /\ task' = [task EXCEPT ![t] = new]
        /\ Open /\ run'.rev = run.rev
      BY <1>3 DEF QueueTask, Commit, StoreInv, StoreTypeOK
  <2>2. /\ new.receipt = task[t].receipt /\ new.fence = task[t].fence
        /\ task[t].token # 0 => new.token = task[t].token
        /\ task[t].status \notin Finished
      BY <1>1, <2>1 DEF Task, Finished
  <2>3. TaskKept(task[t], new)
      BY <1>1, <2>2, KeptBySame
  <2> QED
      BY <1>1, <1>3, <2>1, <2>2, <2>3, RewriteKept
<1>4. CASE t \in Steps /\ SkipTask(run.version, t)
  <2> DEFINE new == [task[t] EXCEPT !.status = "skipped", !.reason = "dependency.failed"]
  <2>1. task[t].status = "pending_dependency" /\ MutateTask(run.version, t, new)
      BY <1>4 DEF SkipTask
  <2>2. /\ new.receipt = task[t].receipt /\ new.fence = task[t].fence
        /\ task[t].token # 0 => new.token = task[t].token
        /\ task[t].status \notin Finished
      BY <1>1, <2>1 DEF Task, Finished
  <2>3. TaskKept(task[t], new)
      BY <1>1, <2>2, KeptBySame
  <2> QED
      BY <1>1, <1>4, <2>1, <2>2, <2>3, MutateKept
<1>5. CASE t \in Steps /\ ExpireQueuedTask(run.version, t)
  <2> DEFINE new == [task[t] EXCEPT !.status = "failed", !.reason = "queue.timeout"]
  <2>1. task[t].status = "queued" /\ MutateTask(run.version, t, new)
      BY <1>5 DEF ExpireQueuedTask
  <2>2. /\ new.receipt = task[t].receipt /\ new.fence = task[t].fence
        /\ task[t].token # 0 => new.token = task[t].token
        /\ task[t].status \notin Finished
      BY <1>1, <2>1 DEF Task, Finished
  <2>3. TaskKept(task[t], new)
      BY <1>1, <2>2, KeptBySame
  <2> QED
      BY <1>1, <1>5, <2>1, <2>2, <2>3, MutateKept
<1>6. CASE t \in Steps /\ ExpireUnstartedTask(run.version, t)
  <2> DEFINE new == [task[t] EXCEPT !.reason = "run.deadline",
                        !.status = IF @ = "queued" THEN "failed" ELSE "skipped"]
  <2>1. /\ task[t].status \in {"queued", "pending_dependency"}
        /\ MutateTask(run.version, t, new)
      BY <1>6 DEF ExpireUnstartedTask
  <2>2. /\ new.receipt = task[t].receipt /\ new.fence = task[t].fence
        /\ task[t].token # 0 => new.token = task[t].token
        /\ task[t].status \notin Finished
      BY <1>1, <2>1 DEF Task, Finished
  <2>3. TaskKept(task[t], new)
      BY <1>1, <2>2, KeptBySame
  <2> QED
      BY <1>1, <1>6, <2>1, <2>2, <2>3, MutateKept
<1> QED
    BY <1>2, <1>3, <1>4, <1>5, <1>6

\* The start, the end and the abandonment of planning.
LEMMA PlanningKept ==
    ASSUME StoreInv, PlannerUndone, NEW w, NEW f, NEW p,
           StartPlanning \/ ExpirePlanning \/ CompletePlanning(run.version, w, f, p)
    PROVE  StepKept
<1> DEFINE pt == task[PlanningTaskID]
<1>1. /\ task \in [Tasks -> Task] /\ pt \in Task
      /\ run \in [status : RunStatus, rev : {0, 1}, version : Nat]
    BY TaskBasics DEF StoreInv, StoreTypeOK
<1>2. CASE StartPlanning
  <2> DEFINE new == [NoTask EXCEPT !.status = "queued"]
  <2>1. /\ run.status = "accepted" /\ run'.rev = run.rev
        /\ task' = [task EXCEPT ![PlanningTaskID] = new]
      BY <1>1, <1>2 DEF StartPlanning, Commit
  <2>2. Open /\ pt = NoTask
      BY <2>1 DEF StoreInv, NothingBeforePlanning, Open, RunOpen
  <2>3. /\ new.receipt = NoTask.receipt /\ new.fence = NoTask.fence
        /\ new.token = NoTask.token /\ NoTask.status \notin Finished
        /\ new.status \notin PlanningDone
      BY DEF NoTask, Finished, PlanningDone
  <2>4. TaskKept(pt, new)
      BY <2>2, <2>3, KeptBySame, TaskBasics
  <2> QED
      BY <2>1, <2>2, <2>3, <2>4, RewriteKept, TaskBasics
<1>3. CASE ExpirePlanning
  <2> DEFINE new == [pt EXCEPT !.status = "failed", !.reason = PlanningExpiry]
  <2>1. run'.rev = run.rev /\ run'.status = "failed" /\ run.rev = 0
      BY <1>1, <1>3 DEF ExpirePlanning, Commit
  <2>2. ~Open'
      BY <2>1 DEF Open, RunOpen
  <2>3. CASE UNCHANGED task
      BY <2>1, <2>2, <2>3, IdleKept
  <2>4. CASE run.status = "planning" /\ task' = [task EXCEPT ![PlanningTaskID] = new]
    <3>1. pt.status \notin PlanningDone
        BY <2>1, <2>4 DEF PlannerUndone, Open, RunOpen
    <3>2. pt.status \in Finished => pt.status = "failed" /\ PlanningExpiry = pt.reason
        BY <3>1 DEF Finished, PlanningDone, PlanningExpiry
    <3>3. /\ new.receipt = pt.receipt /\ new.fence = pt.fence /\ new.token = pt.token
          /\ new.status = "failed" /\ new.reason = PlanningExpiry
        BY <1>1 DEF Task
    <3>4. TaskKept(pt, new) /\ new.status \notin PlanningDone
        BY <1>1, <3>2, <3>3, KeptBySame DEF PlanningDone
    <3> QED
        BY <2>1, <2>2, <2>4, <3>4, RewriteKept, TaskBasics
  <2> QED
      BY <1>3, <2>3, <2>4 DEF ExpirePlanning
<1>4. CASE CompletePlanning(run.version, w, f, p)
  <2> DEFINE done == [pt EXCEPT !.status = "completed"]
             fresh == [NoTask EXCEPT !.status = "pending_dependency"]
  <2>1. /\ run.rev = 0 /\ run'.rev = 1 /\ pt.status = "running"
        /\ \A u \in Tasks : task'[u] = IF u = PlanningTaskID THEN done ELSE fresh
      BY <1>1, <1>4 DEF CompletePlanning
  <2>2. TaskKept(pt, done)
    <3>1. /\ done.receipt = pt.receipt /\ done.fence = pt.fence /\ done.token = pt.token
          /\ pt.status \notin Finished
        BY <1>1, <2>1 DEF Task, Finished
    <3> QED
        BY <1>1, <3>1, KeptBySame
  <2>3. TaskKept(NoTask, fresh)
    <3>1. /\ fresh.receipt = NoTask.receipt /\ fresh.fence = NoTask.fence
          /\ fresh.token = NoTask.token /\ NoTask.status \notin Finished
        BY DEF NoTask, Finished
    <3> QED
        BY <3>1, KeptBySame, TaskBasics
  <2>4. \A u \in Tasks \ {PlanningTaskID} : task[u] = NoTask
      BY <2>1 DEF StoreInv, NothingBeforePlanning, Tasks
  <2>5. PlannerUndone'
      BY <2>1 DEF PlannerUndone
  <2> HIDE DEF done, fresh
  <2> QED
      BY <2>1, <2>2, <2>3, <2>4, <2>5 DEF StepKept
<1> QED
    BY <1>2, <1>3, <1>4

\* Cancel leaves outcomes, claims, receipts and fences alone.
LEMMA CancelKept ==
    ASSUME StoreInv, PlannerUndone, Cancel
    PROVE  StepKept
<1> DEFINE why(t) == IF task[t].token # 0 /\ ~task[t].receipt
                     THEN "manual_review_required" ELSE "run.cancelled"
           new(t) == [task[t] EXCEPT !.status = "cancelled", !.live = FALSE,
                                     !.reason = why(t)]
<1>1. /\ task \in [Tasks -> Task]
      /\ run \in [status : RunStatus, rev : {0, 1}, version : Nat]
    BY DEF StoreInv, StoreTypeOK
<1>2. /\ \A t \in Tasks : task'[t] = IF t \in Unfinished THEN new(t) ELSE task[t]
      /\ run'.status = "cancelled"
    BY <1>1 DEF Cancel, Commit
<1>3. PlannerUndone'
    BY <1>2 DEF PlannerUndone, Open, RunOpen
<1>4. ASSUME NEW t \in Tasks PROVE TaskKept(task[t], task'[t])
  <2>1. CASE t \in Unfinished
    <3>1. task[t].status \notin Finished
        BY <2>1 DEF Unfinished
    <3> HIDE DEF why
    <3>2. /\ new(t).receipt = task[t].receipt /\ new(t).fence = task[t].fence
          /\ new(t).token = task[t].token
        BY <1>1 DEF Task
    <3> HIDE DEF new
    <3>3. TaskKept(task[t], new(t))
        BY <1>1, <3>1, <3>2, KeptBySame
    <3> QED
        BY <1>2, <2>1, <3>3
  <2>2. CASE t \notin Unfinished
      BY <1>1, <1>2, <2>2, KeptReflexive
  <2> QED
      BY <2>1, <2>2
<1> QED
    BY <1>3, <1>4 DEF StepKept

\* The passage of time.
LEMMA ElapseKept ==
    ASSUME StoreInv, PlannerUndone, NEW t \in Tasks, QueueWaitElapses(t) \/ LeaseElapses(t)
    PROVE  StepKept
<1>1. task[t] \in Task /\ UNCHANGED run /\ (Open' => Open)
    BY DEF StoreInv, StoreTypeOK, QueueWaitElapses, LeaseElapses, Open
<1>2. task[t].status \in {"queued", "leased", "running"}
    BY DEF QueueWaitElapses, LeaseElapses
<1>3. PICK new : /\ task' = [task EXCEPT ![t] = new]
                 /\ \/ new = [task[t] EXCEPT !.waited = TRUE]
                    \/ new = [task[t] EXCEPT !.live = FALSE]
    BY DEF QueueWaitElapses, LeaseElapses
<1>4. /\ new.receipt = task[t].receipt /\ new.fence = task[t].fence
      /\ new.token = task[t].token /\ new.status = task[t].status
      /\ task[t].status \notin Finished /\ new.status \notin PlanningDone
    BY <1>1, <1>2, <1>3 DEF Task, Finished, PlanningDone
<1>5. TaskKept(task[t], new)
    BY <1>1, <1>4, KeptBySame
<1> QED
    BY <1>1, <1>3, <1>4, <1>5, RewriteKept

-----------------------------------------------------------------------------
\* No step of any client breaks what StepKept says.
LEMMA NextKept == StoreInv /\ PlannerUndone /\ [StoreNext]_storeVars => StepKept
<1> SUFFICES ASSUME StoreInv, PlannerUndone, [StoreNext]_storeVars PROVE StepKept
    OBVIOUS
<1> USE TaskBasics
<1>1. /\ \A f \in Fences : f \in Nat
      /\ run \in [status : RunStatus, rev : {0, 1}, version : Nat]
    BY DEF Fences, StoreInv, StoreTypeOK
<1>2. CASE WorkerOp
  <2>1. PICK t \in Tasks, w \in Owners, f \in Fences :
          \/ LeaseTask(run.version, t, w, f)
          \/ StartTask(run.version, t, w, f)
          \/ \E r \in FailReasons(t) : FailTask(run.version, t, w, f, r)
          \/ t \in Steps /\ CompleteTask(run.version, t, w, f)
          \/ t \in Steps /\ ClaimExecution(t, w, f)
          \/ t \in Steps /\ StoreReceipt(t, w, f)
          \/ t = PlanningTaskID /\ \E p \in Plans : CompletePlanning(run.version, w, f, p)
      BY <1>2 DEF WorkerOp
  <2>2. CASE \/ LeaseTask(run.version, t, w, f) \/ StartTask(run.version, t, w, f)
             \/ \E r \in FailReasons(t) : FailTask(run.version, t, w, f, r)
             \/ t \in Steps /\ CompleteTask(run.version, t, w, f)
      BY <1>1, <2>2, WorkerKept
  <2>3. CASE ClaimExecution(t, w, f) \/ StoreReceipt(t, w, f)
      BY <1>1, <2>3, ReceiptKept
  <2>4. CASE \E p \in Plans : CompletePlanning(run.version, w, f, p)
      BY <2>4, PlanningKept
  <2> QED
      BY <2>1, <2>2, <2>3, <2>4
<1>3. CASE ReconcileOp
  <2>1. CASE RecoverAdmission
    <3>1. run.status = "absent" /\ UNCHANGED task /\ run'.rev = run.rev
        BY <1>1, <2>1 DEF RecoverAdmission, Create, Commit
    <3>2. task[PlanningTaskID].status \notin PlanningDone
        BY <3>1 DEF StoreInv, NothingBeforePlanning, NoTask, PlanningDone
    <3> QED
        BY <3>1, <3>2, IdleKept
  <2>2. CASE StartPlanning \/ ExpirePlanning
      BY <2>2, PlanningKept
  <2>3. CASE \E t \in Steps : \/ QueueTask(run.version, t) \/ SkipTask(run.version, t)
                              \/ ExpireQueuedTask(run.version, t)
                              \/ ExpireUnstartedTask(run.version, t)
      BY <2>3, ReconcilerKept
  <2>4. CASE \E t \in Tasks, c \in CapacityReasons : MarkCapacityWaiting(run.version, t, c)
      BY <2>4, ReconcilerKept
  <2>5. CASE \E s \in ReconcileOutcomes : Transition(run.version, s)
    <3>1. Open /\ UNCHANGED task /\ run'.rev = run.rev
        BY <1>1, <2>5 DEF Transition, Commit
    <3> QED
        BY <3>1, IdleKept
  <2>6. CASE Cancel
      BY <2>6, CancelKept
  <2> QED
      BY <1>3, <2>1, <2>2, <2>3, <2>4, <2>5, <2>6 DEF ReconcileOp
<1>4. CASE TimePasses
  <2>1. CASE DeadlinePasses
    <3>1. UNCHANGED <<run, task>> /\ (Open' => Open)
        BY <2>1 DEF DeadlinePasses, Open
    <3> QED
        BY <3>1, IdleKept
  <2>2. CASE \E t \in Tasks : QueueWaitElapses(t) \/ LeaseElapses(t)
      BY <2>2, ElapseKept
  <2> QED
      BY <1>4, <2>1, <2>2 DEF TimePasses
<1>5. CASE UNCHANGED storeVars
  <2>1. UNCHANGED <<run, task>> /\ (Open' => Open)
      BY <1>5 DEF storeVars, Open
  <2> QED
      BY <2>1, IdleKept
<1> QED
    BY <1>2, <1>3, <1>4, <1>5 DEF StoreNext

\* Planning is undone in every state that can still plan.
LEMMA UndoneInvariance == StoreSpec => []PlannerUndone
<1>1. StoreInit => PlannerUndone
    BY DEF StoreInit, PlannerUndone, Open, RunOpen
<1>2. StoreInv /\ PlannerUndone /\ [StoreNext]_storeVars => PlannerUndone'
    BY NextKept DEF StepKept
<1> QED
    BY <1>1, <1>2, StoreInvariance, PTL DEF StoreSpec

\* A worker that lost its lease never overwrites its successor's outcome, and
\* fences only grow, under every client behaviour.
THEOREM OutcomesStay == StoreSpec => OutcomeIsFinal
<1>1. StoreInv /\ PlannerUndone /\ [StoreNext]_storeVars =>
        [\A t \in Tasks :
           /\ task[t].status \in Finished =>
                task'[t].status = task[t].status /\ task'[t].reason = task[t].reason
           /\ task'[t].fence >= task[t].fence]_storeVars
    BY NextKept, Zenon DEF StepKept, TaskKept
<1> QED
    BY <1>1, StoreInvariance, UndoneInvariance, PTL DEF StoreSpec, OutcomeIsFinal

\* executionReceipt grants the right to execute once per task, and only the
\* execution it was granted to leaves a receipt, under every client behaviour.
THEOREM ExecutionRightStays == StoreSpec => ExecutionRightIsUnique
<1>1. StoreInv /\ PlannerUndone /\ [StoreNext]_storeVars =>
        [\A t \in Steps :
           /\ task[t].token # 0 => task'[t].token = task[t].token
           /\ task[t].receipt => task'[t].receipt
           /\ task'[t].receipt /\ ~task[t].receipt => task[t].token = task[t].fence]_storeVars
    BY NextKept, TaskBasics, Zenon DEF StepKept, TaskKept
<1> QED
    BY <1>1, StoreInvariance, UndoneInvariance, PTL DEF StoreSpec, ExecutionRightIsUnique

(***************************************************************************)
(* The run.                                                                *)
(***************************************************************************)
\* Program counters of ProcessDelivery and of ProcessPlanningDelivery.
StepPCs == {"check", "lease", "start", "claim", "execute", "receipt", "settle", "finish"}
PlanPCs == {"p_check", "p_lease", "p_start", "p_build", "p_commit", "p_fail", "p_expire"}

\* What a process remembers fits the place where it is.
Shape(l) ==
    /\ l \in Memory
    /\ l.pc \in StepPCs => l.msg \in Steps
    /\ l.pc \in PlanPCs => l.msg = PlanningTaskID
    /\ l.pc \in DeliveryPCs \/ l.then = "ack" => l.tok \in Fences
    /\ l.pc = "receipt" => l.out = "ok"
    /\ l.pc = "settle" => l.out \in {"ok", "classified", "manual_review_required"}
    /\ l.pc = "finish" =>
           l.out \in {"ok", "classified", "manual_review_required", "run.deadline"}
    /\ l.pc \in {"d_enq", "d_adv"} => l.todo # <<>>
    /\ l.then = "ack" => l.pc \in RecoveryPCs

\* The places around the business call, from the granted claim to the result.
ExecPCs == {"execute", "receipt", "settle", "finish"}

\* What a step other than Dequeue makes of the memory l: the delivery stays
\* the one it is, or is forgotten, only a claim leads to an execution, only the
\* reading of the run to a decision and that of the outbox to dispatching.
Follows(l, m) ==
    /\ Shape(m)
    /\ m.tok = 0 \/ (m.tok = l.tok /\ m.msg = l.msg)
    /\ m.pc \in ExecPCs => l.pc \in ExecPCs \cup {"claim"}
    /\ m.pc \in {"r_tasks", "r_commit"} => l.pc \in {"r_read", "r_tasks"}
    /\ m.pc \in {"d_enq", "d_adv"} => l.pc \in {"d_read", "d_enq", "d_adv"}

\* The types of the run, with the shape of every process.
Shaped ==
    /\ RunTypeOK
    /\ \A p \in Processes : Shape(local[p])

\* Process p alone moves, to a record that follows from its own.
Moves(p) ==
    /\ local' = [local EXCEPT ![p] = local'[p]]
    /\ Follows(local[p], local'[p])

-----------------------------------------------------------------------------
\* An idle process is well shaped, and so is one that starts a recovery.
LEMMA IdleShape ==
    /\ Idle \in Memory /\ Shape(Idle)
    /\ Idle.pc = "idle" /\ Idle.tok = 0 /\ Idle.then = "idle"
    /\ \A l : Follows(l, Idle)
    /\ \A l : \A pc \in {"r_start", "r_read"} : Follows(l, [Idle EXCEPT !.pc = pc])
    /\ \A m \in Tasks, i \in Nat, k \in Fences :
          Shape([Idle EXCEPT !.pc = "setnx", !.msg = m, !.sid = i, !.tok = k])
<1>1. Idle \in Memory
  <2>1. <<>> \in Seq(Tasks) /\ PlanningTaskID \in Tasks /\ NoDecision \in Decision
      BY TaskBasics DEF Decision
  <2> QED
      BY <2>1 DEF Idle, Memory, Reasons
<1>2. Idle.pc = "idle" /\ Idle.tok = 0 /\ Idle.then = "idle"
    BY DEF Idle
<1>3. Shape(Idle) /\ \A l : Follows(l, Idle)
    BY <1>1, <1>2 DEF Shape, DeliveryPCs, StepPCs, PlanPCs, Follows, ExecPCs
<1>4. ASSUME NEW pc \in {"r_start", "r_read"}, NEW l
      PROVE  Follows(l, [Idle EXCEPT !.pc = pc])
    BY <1>1, <1>2 DEF Follows, ExecPCs, Shape, Memory, DeliveryPCs, RecoveryPCs, StepPCs, PlanPCs
<1>5. ASSUME NEW m \in Tasks, NEW i \in Nat, NEW k \in Fences
      PROVE  Shape([Idle EXCEPT !.pc = "setnx", !.msg = m, !.sid = i, !.tok = k])
  <2>1. k \in Nat
      BY DEF Fences
  <2> QED
      BY <1>1, <1>2, <2>1 DEF Shape, Memory, RecoveryPCs, DeliveryPCs, StepPCs, PlanPCs
<1> QED
    BY <1>1, <1>2, <1>3, <1>4, <1>5

\* Abandon returns to Idle.
LEMMA AbandonMoves ==
    ASSUME Shaped, NEW p \in Processes, Abandon(p)
    PROVE  Moves(p) /\ local'[p] = Idle
BY IdleShape DEF Shaped, RunTypeOK, Abandon, Moves

\* Goto keeps the rest of the record.
LEMMA GotoMoves ==
    ASSUME Shaped, NEW p \in Processes, NEW pc, Goto(p, pc),
           Follows(local[p], [local[p] EXCEPT !.pc = pc])
    PROVE  Moves(p) /\ local'[p] = [local[p] EXCEPT !.pc = pc]
BY DEF Shaped, RunTypeOK, Goto, Moves

\* Resolve keeps the rest of the record.
LEMMA ResolveMoves ==
    ASSUME Shaped, NEW w \in Processes, NEW out, NEW pc, Resolve(w, out, pc),
           Follows(local[w], [local[w] EXCEPT !.out = out, !.pc = pc])
    PROVE  Moves(w) /\ local'[w] = [local[w] EXCEPT !.out = out, !.pc = pc]
BY DEF Shaped, RunTypeOK, Resolve, Moves

\* Dequeue: the process takes up a delivery with a token nobody had before.
LEMMA DequeueMoves ==
    ASSUME Shaped, NEW w \in Workers, Dequeue(w)
    PROVE  \E m \in Tasks :
              /\ Bus!Dequeue(m)
              /\ local' = [local EXCEPT ![w] = local'[w]] /\ Shape(local'[w])
              /\ local'[w].pc = "setnx" /\ local'[w].msg = m
              /\ local'[w].tok = bus[m].token + 1
<1> DEFINE new(m) == [Idle EXCEPT !.pc = "setnx", !.msg = m, !.sid = bus[m].sid,
                                  !.tok = bus[m].token + 1]
<1>1. w \in Processes /\ local \in [Processes -> Memory]
    BY DEF Shaped, Processes, RunTypeOK
<1>2. PICK m \in Tasks : Bus!Dequeue(m) /\ local' = [local EXCEPT ![w] = new(m)]
    BY DEF Dequeue
<1>3. bus[m].sid \in Nat /\ bus[m].token + 1 \in Fences
    BY <1>2 DEF Shaped, RunTypeOK, Bus!BusTypeOK, Bus!Dequeue, Fences
<1>4. Shape(new(m))
    BY <1>3, IdleShape
<1>5. new(m).pc = "setnx" /\ new(m).msg = m /\ new(m).tok = bus[m].token + 1
    BY <1>3, IdleShape DEF Memory
<1> HIDE DEF new
<1>6. local'[w] = new(m)
    BY <1>1, <1>2
<1> QED
    BY <1>1, <1>2, <1>4, <1>5, <1>6

\* WorkerService.Run up to the handlers, and the Ack.
LEMMA DeliveryMoves ==
    ASSUME Shaped, NEW w \in Workers,
           \/ AcquireLease(w) \/ Accept(w) \/ Refuse(w)
           \/ DeferDelivery(w) \/ AckDelivery(w)
    PROVE  Moves(w)
<1> DEFINE l == local[w]
<1>1. /\ w \in Processes /\ Shape(l) /\ local \in [Processes -> Memory] /\ l \in Memory
    BY DEF Shaped, Processes, RunTypeOK
<1> USE <1>1
<1>3. CASE AcquireLease(w)
  <2>1. CASE Abandon(w)
      BY <2>1, AbandonMoves
  <2>2. CASE Goto(w, "delivered")
    <3>1. Follows(l, [l EXCEPT !.pc = "delivered"])
        BY <1>3 DEF AcquireLease, At, Follows, ExecPCs, Shape, Memory, RecoveryPCs, DeliveryPCs, StepPCs, PlanPCs
    <3> QED
        BY <2>2, <3>1, GotoMoves
  <2> QED
      BY <1>3, <2>1, <2>2 DEF AcquireLease
<1>4. CASE Accept(w)
  <2> DEFINE pc == IF l.msg = PlanningTaskID THEN "p_check" ELSE "check"
  <2>1. Follows(l, [l EXCEPT !.pc = pc])
      BY <1>4 DEF Accept, At, Follows, ExecPCs, Shape, Memory, RecoveryPCs, DeliveryPCs, StepPCs, PlanPCs, Tasks
  <2> QED
      BY <1>4, <2>1, GotoMoves DEF Accept
<1>5. CASE Refuse(w)
  <2>1. \A pc \in {"ack", "defer"} : Follows(l, [l EXCEPT !.pc = pc])
      BY <1>5 DEF Refuse, At, Follows, ExecPCs, Shape, Memory, RecoveryPCs, DeliveryPCs, StepPCs, PlanPCs
  <2> QED
      BY <1>5, <2>1, GotoMoves DEF Refuse
<1>6. CASE DeferDelivery(w)
    BY <1>6, AbandonMoves DEF DeferDelivery
<1>7. CASE AckDelivery(w)
  <2>1. CASE Abandon(w)
      BY <2>1, AbandonMoves
  <2>2. CASE l.acked # "idle" /\ local' = [local EXCEPT ![w] = [Idle EXCEPT !.pc = l.acked]]
    <3>1. l.acked \in {"r_start", "r_read"}
        BY <2>2 DEF Memory
    <3> QED
        BY <2>2, <3>1, IdleShape DEF Moves
  <2> QED
      BY <1>7, <2>1, <2>2 DEF AckDelivery
<1> QED
    BY <1>3, <1>4, <1>5, <1>6, <1>7

\* ProcessDelivery.
LEMMA StepMoves ==
    ASSUME Shaped, NEW w \in Workers,
           \/ CheckDelivery(w) \/ TakeLease(w) \/ Start(w) \/ Claim(w) \/ Execute(w)
           \/ KeepReceipt(w) \/ Settle(w) \/ Finish(w)
    PROVE  Moves(w)
<1> DEFINE l == local[w]
<1>1. /\ w \in Processes /\ Shape(l) /\ local \in [Processes -> Memory] /\ l \in Memory
    BY DEF Shaped, Processes, RunTypeOK
<1> USE <1>1
<1> USE DEF At, StepPCs, PlanPCs, DeliveryPCs
<1>2. CASE CheckDelivery(w)
  <2>1. \A pc \in {"ack", "lease"} : Follows(l, [l EXCEPT !.pc = pc])
      BY <1>2 DEF CheckDelivery, Follows, ExecPCs, Shape, Memory, RecoveryPCs
  <2> QED
      BY <1>2, <2>1, GotoMoves DEF CheckDelivery
<1>3. CASE TakeLease(w)
  <2>1. CASE QueueWaitExpired(w, run.version)
      BY <1>3, <2>1 DEF TakeLease, QueueWaitExpired, Moves, Follows, ExecPCs, Shape, Memory, RecoveryPCs
  <2>2. CASE Abandon(w)
      BY <2>2, AbandonMoves
  <2>3. CASE Goto(w, "start")
    <3>1. Follows(l, [l EXCEPT !.pc = "start"])
        BY <1>3 DEF TakeLease, Follows, ExecPCs, Shape, Memory, RecoveryPCs
    <3> QED
        BY <2>3, <3>1, GotoMoves
  <2> QED
      BY <1>3, <2>1, <2>2, <2>3 DEF TakeLease, CallStore
<1>4. CASE Start(w)
  <2>1. CASE Abandon(w)
      BY <2>1, AbandonMoves
  <2>2. CASE Goto(w, "claim")
    <3>1. Follows(l, [l EXCEPT !.pc = "claim"])
        BY <1>4 DEF Start, Follows, ExecPCs, Shape, Memory, RecoveryPCs
    <3> QED
        BY <2>2, <3>1, GotoMoves
  <2> QED
      BY <1>4, <2>1, <2>2 DEF Start, CallStore
<1>5. CASE Claim(w)
  <2>1. CASE Goto(w, "execute")
    <3>1. Follows(l, [l EXCEPT !.pc = "execute"])
        BY <1>5 DEF Claim, Follows, ExecPCs, Shape, Memory, RecoveryPCs
    <3> QED
        BY <2>1, <3>1, GotoMoves
  <2>2. CASE Resolve(w, ReceiptReply(w), "settle")
      BY <1>5, <2>2 DEF Claim, Resolve, ReceiptReply, Moves, Follows, ExecPCs, Shape, Memory, RecoveryPCs, Reasons
  <2> QED
      BY <1>5, <2>1, <2>2 DEF Claim
<1>6. CASE Execute(w)
  <2>1. Follows(l, [l EXCEPT !.out = "ok", !.pc = "receipt"])
      BY <1>6 DEF Execute, Follows, ExecPCs, Shape, Memory, RecoveryPCs
  <2>2. \A r \in {"classified", "manual_review_required"} :
           Follows(l, [l EXCEPT !.out = r, !.pc = "settle"])
      BY <1>6 DEF Execute, Follows, ExecPCs, Shape, Memory, RecoveryPCs, Reasons
  <2> QED
      BY <1>6, <2>1, <2>2, ResolveMoves DEF Execute
<1>7. CASE KeepReceipt(w)
  <2>1. CASE Goto(w, "settle")
    <3>1. Follows(l, [l EXCEPT !.pc = "settle"])
        BY <1>7 DEF KeepReceipt, Follows, ExecPCs, Shape, Memory, RecoveryPCs
    <3> QED
        BY <2>1, <3>1, GotoMoves
  <2>2. CASE Resolve(w, "manual_review_required", "settle")
      BY <1>7, <2>2 DEF KeepReceipt, Resolve, Moves, Follows, ExecPCs, Shape, Memory, RecoveryPCs, Reasons
  <2> QED
      BY <1>7, <2>1, <2>2 DEF KeepReceipt
<1>8. CASE Settle(w)
  <2>1. CASE Abandon(w)
      BY <2>1, AbandonMoves
  <2>2. CASE Resolve(w, IF pastDeadline /\ l.out # "classified" THEN "run.deadline" ELSE l.out,
                     "finish")
      BY <1>8, <2>2 DEF Settle, Resolve, Moves, Follows, ExecPCs, Shape, Memory, RecoveryPCs, Reasons
  <2> QED
      BY <1>8, <2>1, <2>2 DEF Settle
<1>9. CASE Finish(w)
  <2>1. CASE Abandon(w)
      BY <2>1, AbandonMoves
  <2>2. CASE local' = [local EXCEPT ![w].pc = "ack", ![w].acked = "r_read"]
      BY <1>9, <2>2 DEF Finish, Moves, Follows, ExecPCs, Shape, Memory, RecoveryPCs
  <2> QED
      BY <1>9, <2>1, <2>2 DEF Finish
<1> QED
    BY <1>2, <1>3, <1>4, <1>5, <1>6, <1>7, <1>8, <1>9

\* ProcessPlanningDelivery.
LEMMA PlanningMoves ==
    ASSUME Shaped, NEW w \in Workers,
           \/ CheckPlanning(w) \/ LeasePlanning(w) \/ BeginPlanning(w) \/ Build(w)
           \/ CommitPlan(w) \/ FailPlanning(w) \/ CloseFailedPlanning(w)
    PROVE  Moves(w)
<1> DEFINE l == local[w]
<1>1. /\ w \in Processes /\ Shape(l) /\ local \in [Processes -> Memory] /\ l \in Memory
      /\ run.version \in Nat
    BY DEF Shaped, Processes, RunTypeOK, StoreTypeOK
<1> USE <1>1
<1> USE DEF At, StepPCs, PlanPCs, DeliveryPCs
<1>2. CASE CheckPlanning(w)
  <2>1. CASE Abandon(w)
      BY <2>1, AbandonMoves
  <2>2. CASE local' = [local EXCEPT ![w].pc = "ack",
                                    ![w].acked = IF Terminal THEN "idle" ELSE "r_start"]
      BY <1>2, <2>2 DEF CheckPlanning, Moves, Follows, ExecPCs, Shape, Memory, RecoveryPCs
  <2>3. CASE local' = [local EXCEPT ![w].pc = "p_lease", ![w].ver = run.version]
      BY <1>2, <2>3 DEF CheckPlanning, Moves, Follows, ExecPCs, Shape, Memory, RecoveryPCs
  <2> QED
      BY <1>2, <2>1, <2>2, <2>3 DEF CheckPlanning
<1>3. CASE LeasePlanning(w)
  <2>1. CASE Abandon(w)
      BY <2>1, AbandonMoves
  <2>2. CASE QueueWaitExpired(w, l.ver)
      BY <1>3, <2>2 DEF LeasePlanning, QueueWaitExpired, Moves, Follows, ExecPCs, Shape, Memory, RecoveryPCs
  <2>3. CASE local' = [local EXCEPT ![w].pc = "p_start", ![w].ver = @ + 1]
    <3>1. l.ver + 1 \in Nat
        BY DEF Memory
    <3>2. local' = [local EXCEPT ![w].pc = "p_start", ![w].ver = l.ver + 1]
        BY <2>3
    <3> HIDE <2>3
    <3> QED
        BY <1>3, <3>1, <3>2 DEF LeasePlanning, Moves, Follows, ExecPCs, Shape, Memory, RecoveryPCs
  <2> QED
      BY <1>3, <2>1, <2>2, <2>3 DEF LeasePlanning
<1>4. CASE BeginPlanning(w)
  <2>1. CASE Abandon(w)
      BY <2>1, AbandonMoves
  <2>2. CASE Goto(w, "p_build")
    <3>1. Follows(l, [l EXCEPT !.pc = "p_build"])
        BY <1>4 DEF BeginPlanning, Follows, ExecPCs, Shape, Memory, RecoveryPCs
    <3> QED
        BY <2>2, <3>1, GotoMoves
  <2> QED
      BY <1>4, <2>1, <2>2 DEF BeginPlanning, CallStore
<1>5. CASE Build(w)
  <2>1. \A pc \in {"p_commit", "p_fail"} : Follows(l, [l EXCEPT !.pc = pc])
      BY <1>5 DEF Build, Follows, ExecPCs, Shape, Memory, RecoveryPCs
  <2> QED
      BY <1>5, <2>1, AbandonMoves, GotoMoves DEF Build
<1>6. CASE CommitPlan(w)
  <2>1. CASE Abandon(w)
      BY <2>1, AbandonMoves
  <2>2. CASE local' = [local EXCEPT ![w].pc = "ack", ![w].acked = "r_start"]
      BY <1>6, <2>2 DEF CommitPlan, Moves, Follows, ExecPCs, Shape, Memory, RecoveryPCs
  <2> QED
      BY <1>6, <2>1, <2>2 DEF CommitPlan
<1>7. CASE FailPlanning(w)
  <2>1. \A pc \in {"ack", "p_expire"} : Follows(l, [l EXCEPT !.pc = pc])
      BY <1>7 DEF FailPlanning, Follows, ExecPCs, Shape, Memory, RecoveryPCs
  <2> QED
      BY <1>7, <2>1, AbandonMoves, GotoMoves DEF FailPlanning
<1>8. CASE CloseFailedPlanning(w)
  <2>1. Follows(l, [l EXCEPT !.pc = "ack"])
      BY <1>8 DEF CloseFailedPlanning, Follows, ExecPCs, Shape, Memory, RecoveryPCs
  <2> QED
      BY <1>8, <2>1, GotoMoves DEF CloseFailedPlanning, CallStore
<1> QED
    BY <1>2, <1>3, <1>4, <1>5, <1>6, <1>7, <1>8

\* RecoverRun and ReconcilePlan return to their caller.
LEMMA ReturnMoves ==
    ASSUME Shaped, NEW p \in Processes, Return(p)
    PROVE  /\ Moves(p)
           /\ \/ local'[p] = Idle
              \/ /\ local[p].then = "ack"
                 /\ local'[p] = [local[p] EXCEPT !.pc = "ack", !.then = "idle", !.ver = 0,
                                    !.dec = NoDecision, !.todo = <<>>, !.pos = 0]
<1> DEFINE l == local[p]
           new == [l EXCEPT !.pc = "ack", !.then = "idle", !.ver = 0, !.dec = NoDecision,
                            !.todo = <<>>, !.pos = 0]
<1>1. /\ Shape(l) /\ local \in [Processes -> Memory] /\ l \in Memory
    BY DEF Shaped, RunTypeOK
<1>2. CASE Abandon(p)
    BY <1>2, AbandonMoves
<1>3. CASE l.then = "ack" /\ local' = [local EXCEPT ![p] = new]
  <2>1. NoDecision \in Decision /\ <<>> \in Seq(Tasks)
      BY DEF Decision
  <2>2. Follows(l, new)
      BY <1>1, <1>3, <2>1 DEF Follows, ExecPCs, Shape, Memory, RecoveryPCs, DeliveryPCs, StepPCs, PlanPCs
  <2> QED
      BY <1>1, <1>3, <2>2 DEF Moves
<1> QED
    BY <1>2, <1>3 DEF Return

\* What ReconcilePlan decides is a decision.
LEMMA DecisionsType == Decisions \subseteq Decision
<1>1. Outcome \in ReconcileOutcomes
    BY DEF Outcome, ReconcileOutcomes
<1>2. \A S \in SUBSET Steps, op \in {"expire", "timeout", "skip", "queue"} :
         Decide(op, S) \subseteq Decision
    BY DEF Decide, Decision
<1>3. Decide("close", {Outcome}) \subseteq Decision
    BY <1>1 DEF Decide, Decision
<1>4. {NoDecision} \subseteq Decision
    BY DEF Decision
<1>5. \A S : StepsIn(S) \subseteq Steps
    BY DEF StepsIn
<1> QED
    BY <1>2, <1>3, <1>4, <1>5 DEF Decisions

\* RecoverRun.
LEMMA RecoverMoves ==
    ASSUME Shaped, NEW p \in Processes,
           \/ Scan(p) \/ RecoverStart(p) \/ RecoverExpire(p) \/ ReconcileRead(p)
           \/ ReconcileTasks(p) \/ ReconcileCommit(p)
    PROVE  Moves(p)
<1> DEFINE l == local[p]
<1>1. /\ Shape(l) /\ local \in [Processes -> Memory] /\ l \in Memory
      /\ run.version \in Nat
    BY DEF Shaped, RunTypeOK, StoreTypeOK
<1> USE <1>1
<1> USE DEF At, StepPCs, PlanPCs, DeliveryPCs, RecoveryPCs
<1>2. ASSUME NEW pc \in {"r_start", "r_expire", "r_read", "d_read"},
             l.pc \in {"idle"} \cup RecoveryPCs
      PROVE  Follows(l, [l EXCEPT !.pc = pc])
    BY <1>2 DEF Follows, ExecPCs, Shape, Memory, RecoveryPCs
<1>3. CASE Scan(p)
    BY <1>2, <1>3, GotoMoves DEF Scan
<1>4. CASE RecoverStart(p)
    BY <1>2, <1>4, GotoMoves DEF RecoverStart, CallStore
<1>5. CASE RecoverExpire(p)
    BY <1>2, <1>5, GotoMoves DEF RecoverExpire, CallStore
<1>6. CASE ReconcileRead(p)
  <2>1. CASE Return(p)
      BY <2>1, ReturnMoves
  <2>2. CASE Goto(p, "d_read")
      BY <1>2, <1>6, <2>2, GotoMoves DEF ReconcileRead
  <2>3. CASE local' = [local EXCEPT ![p].pc = "r_tasks", ![p].ver = run.version]
      BY <1>6, <2>3 DEF ReconcileRead, Moves, Follows, ExecPCs, Shape, Memory, RecoveryPCs
  <2> QED
      BY <1>6, <2>1, <2>2, <2>3 DEF ReconcileRead
<1>7. CASE ReconcileTasks(p)
  <2>1. PICK d \in Decisions :
          local' = [local EXCEPT ![p].dec = d,
                                 ![p].ver = IF d = NoDecision THEN 0 ELSE @,
                                 ![p].pc = IF d = NoDecision THEN "d_read" ELSE "r_commit"]
      BY <1>7 DEF ReconcileTasks
  <2>2. d \in Decision
      BY DecisionsType
  <2> DEFINE ver == IF d = NoDecision THEN 0 ELSE l.ver
             pc == IF d = NoDecision THEN "d_read" ELSE "r_commit"
  <2>3. ver \in Nat /\ pc \in {"d_read", "r_commit"}
      BY DEF Memory
  <2>4. local' = [local EXCEPT ![p].dec = d, ![p].ver = ver, ![p].pc = pc]
      BY <2>1
  <2> HIDE DEF ver, pc
  <2>5. local' = [local EXCEPT ![p] = [l EXCEPT !.dec = d, !.ver = ver, !.pc = pc]]
      BY <2>4
  <2>6. Follows(l, [l EXCEPT !.dec = d, !.ver = ver, !.pc = pc])
      BY <1>7, <2>2, <2>3 DEF ReconcileTasks, Follows, ExecPCs, Shape, Memory, RecoveryPCs
  <2> QED
      BY <2>5, <2>6 DEF Moves
<1>8. CASE ReconcileCommit(p)
  <2>1. CASE Return(p)
      BY <2>1, ReturnMoves
  <2>2. CASE local' = [local EXCEPT ![p].pc = "r_read", ![p].dec = NoDecision, ![p].ver = 0]
    <3>1. NoDecision \in Decision
        BY DEF Decision
    <3> QED
        BY <1>8, <2>2, <3>1 DEF ReconcileCommit, Moves, Follows, ExecPCs, Shape, Memory, RecoveryPCs
  <2> QED
      BY <1>8, <2>1, <2>2 DEF ReconcileCommit
<1> QED
    BY <1>3, <1>4, <1>5, <1>6, <1>7, <1>8

\* The entries that are left to dispatch.
LEMMA EntriesType ==
    ASSUME Shaped
    PROVE  SubSeq(outbox, cursor + 1, Len(outbox)) \in Seq(Tasks)
<1>1. outbox \in Seq(Tasks) /\ cursor \in Nat
    BY DEF Shaped, RunTypeOK, StoreTypeOK
<1> QED
    BY <1>1, SubSeqProperties

\* DispatchPending, and the API's submission, which begins with it.
LEMMA DispatchMoves ==
    ASSUME Shaped, NEW p \in Processes,
           DispatchRead(p) \/ DispatchEnqueue(p) \/ DispatchAdvance(p) \/ Submit(p)
    PROVE  Moves(p)
<1> DEFINE l == local[p]
           entries == SubSeq(outbox, cursor + 1, Len(outbox))
<1>1. /\ Shape(l) /\ local \in [Processes -> Memory] /\ l \in Memory
      /\ cursor \in Nat
    BY DEF Shaped, RunTypeOK, StoreTypeOK
<1> USE <1>1
<1> USE DEF At, StepPCs, PlanPCs, DeliveryPCs, RecoveryPCs
<1>2. CASE DispatchRead(p)
  <2>1. CASE Abandon(p)
      BY <2>1, AbandonMoves
  <2>2. CASE Return(p)
      BY <2>2, ReturnMoves
  <2>3. CASE /\ entries # <<>>
             /\ local' = [local EXCEPT ![p].pc = "d_enq", ![p].todo = entries, ![p].pos = cursor]
    <3>1. entries \in Seq(Tasks)
        BY EntriesType
    <3> HIDE DEF entries
    <3> QED
        BY <1>2, <2>3, <3>1 DEF DispatchRead, Moves, Follows, ExecPCs, Shape, Memory, RecoveryPCs
  <2> QED
      BY <1>2, <2>1, <2>2, <2>3 DEF DispatchRead
<1>3. CASE DispatchEnqueue(p)
  <2>1. Follows(l, [l EXCEPT !.pc = "d_adv"])
      BY <1>3 DEF DispatchEnqueue, Follows, ExecPCs, Shape, Memory, RecoveryPCs
  <2> QED
      BY <1>3, <2>1, GotoMoves DEF DispatchEnqueue
<1>4. CASE DispatchAdvance(p)
  <2>1. CASE Abandon(p)
      BY <2>1, AbandonMoves
  <2>2. CASE Return(p)
      BY <2>2, ReturnMoves
  <2>3. CASE /\ Len(l.todo) # 1
             /\ local' = [local EXCEPT ![p].pc = "d_enq", ![p].todo = Tail(@), ![p].pos = @ + 1]
    <3> DEFINE rest == Tail(l.todo)
               pos == l.pos + 1
    <3>1. l.todo \in Seq(Tasks) /\ l.todo # <<>> /\ pos \in Nat
        BY <1>4 DEF DispatchAdvance, Follows, ExecPCs, Shape, Memory, RecoveryPCs
    <3>2. rest \in Seq(Tasks) /\ rest # <<>>
      <4>1. /\ Len(l.todo) \in Nat /\ Len(l.todo) # 0 /\ rest \in Seq(Tasks)
            /\ Len(rest) = Len(l.todo) - 1
          BY <3>1, HeadTailProperties, LenProperties, EmptySeq
      <4>2. Len(rest) # 0
          BY <2>3, <4>1
      <4>3. Len(<<>>) = 0
          OBVIOUS
      <4>4. rest # <<>>
          BY <4>2, <4>3, Zenon
      <4> QED
          BY <4>1, <4>4
    <3>3. local' = [local EXCEPT ![p].pc = "d_enq", ![p].todo = rest, ![p].pos = pos]
        BY <2>3
    <3> HIDE DEF rest, pos
    <3>4. local' = [local EXCEPT ![p] = [l EXCEPT !.pc = "d_enq", !.todo = rest, !.pos = pos]]
        BY <3>3
    <3>5. Follows(l, [l EXCEPT !.pc = "d_enq", !.todo = rest, !.pos = pos])
        BY <1>4, <3>1, <3>2 DEF DispatchAdvance, Follows, ExecPCs, Shape, Memory, RecoveryPCs
    <3> QED
        BY <3>4, <3>5 DEF Moves
  <2> QED
      BY <1>4, <2>1, <2>2, <2>3 DEF DispatchAdvance
<1>5. CASE Submit(p)
  <2>1. Follows(l, [l EXCEPT !.pc = "d_read"])
      BY <1>5 DEF Submit, Follows, ExecPCs, Shape, Memory, RecoveryPCs
  <2> QED
      BY <1>5, <2>1, GotoMoves DEF Submit
<1> QED
    BY <1>2, <1>3, <1>4, <1>5

\* Faults of a process.
LEMMA FaultMoves ==
    ASSUME Shaped, NEW p \in Processes, Crash(p) \/ Stall(p) \/ Interrupt(p)
    PROVE  Moves(p)
<1> DEFINE l == local[p]
<1>1. /\ Shape(l) /\ local \in [Processes -> Memory] /\ l \in Memory
    BY DEF Shaped, RunTypeOK
<1>2. CASE Crash(p)
    BY <1>2, AbandonMoves DEF Crash
<1>3. CASE Stall(p)
  <2> DEFINE m == [l EXCEPT !.stalled = TRUE]
  <2>1. l.pc \notin {"r_tasks", "r_commit", "d_enq", "d_adv"}
      BY <1>3 DEF Stall, DeliveryPCs
  <2>2. /\ m \in Memory /\ m.pc = l.pc /\ m.msg = l.msg /\ m.tok = l.tok /\ m.out = l.out
        /\ m.then = l.then /\ m.todo = l.todo
      BY <1>1 DEF Memory
  <2> HIDE DEF m
  <2>3. Shape(m)
      BY <1>1, <2>2 DEF Shape
  <2>4. Follows(l, m)
      BY <2>1, <2>2, <2>3 DEF Follows
  <2> QED
      BY <1>1, <1>3, <2>4 DEF Stall, Moves, m
<1>4. CASE Interrupt(p)
  <2>1. Follows(l, [l EXCEPT !.out = "manual_review_required", !.pc = "finish"])
      BY <1>1, <1>4 DEF Interrupt, Follows, ExecPCs, Shape, Memory, RecoveryPCs, DeliveryPCs, StepPCs, PlanPCs, Reasons
  <2> QED
      BY <1>4, <2>1, ResolveMoves DEF Interrupt
<1> QED
    BY <1>2, <1>3, <1>4

-----------------------------------------------------------------------------
(* The bus.                                                                *)

\* The acknowledgement of the delivery that worker w has.
AckOp(w) == At(w, "ack") /\ Bus!Ack(local[w].msg, local[w].sid, local[w].tok)

\* One operation on the bus, or none.
BusStep ==
    \/ UNCHANGED bus
    \/ \E m \in Tasks :
         \/ Bus!Enqueue(m) \/ Bus!PromoteDue(m) \/ Bus!Dequeue(m)
         \/ Bus!LeaseExpires(m) \/ Bus!EntryIdles(m)
         \/ \E k \in Fences : Bus!SetLease(m, k)
         \/ \E i, k : Bus!Defer(m, i, k)
         \/ \E w \in Workers : m = local[w].msg /\ AckOp(w)

\* No operation breaks the types of the bus, and tokens only grow.
LEMMA BusStepType ==
    ASSUME Bus!BusTypeOK, BusStep
    PROVE  Bus!BusTypeOK' /\ \A n \in Tasks : bus'[n].token >= bus[n].token
<1> DEFINE Entry == [place : Bus!Places, sid : Nat, idle : BOOLEAN,
                     lease : 0..MaxFence, token : 0..MaxFence]
<1>1. bus \in [Tasks -> Entry] /\ MaxFence \in Nat
    BY StoreAssumption DEF Bus!BusTypeOK
<1>2. ASSUME NEW m \in Tasks, NEW new \in Entry, new.token >= bus[m].token,
             bus' = [bus EXCEPT ![m] = new]
      PROVE  bus' \in [Tasks -> Entry] /\ \A n \in Tasks : bus'[n].token >= bus[n].token
    BY <1>1, <1>2
<1>3. {"none", "stream", "pending", "delay", "acked"} \subseteq Bus!Places
    BY DEF Bus!Places
<1>4. ASSUME NEW m \in Tasks
      PROVE  Bus!Added(bus[m]) \in Entry /\ Bus!Added(bus[m]).token = bus[m].token
  <2> DEFINE sid == bus[m].sid + 1
  <2>1. sid \in Nat /\ bus[m] \in Entry
      BY <1>1
  <2>2. Bus!Added(bus[m]) = [bus[m] EXCEPT !.place = "stream", !.sid = sid, !.idle = FALSE]
      BY DEF Bus!Added
  <2> HIDE DEF sid
  <2> QED
      BY <1>3, <2>1, <2>2
<1>6. ASSUME NEW m \in Tasks, Bus!Enqueue(m) \/ Bus!PromoteDue(m)
      PROVE  bus' \in [Tasks -> Entry] /\ \A n \in Tasks : bus'[n].token >= bus[n].token
  <2>1. CASE bus' = bus
      BY <1>1, <2>1
  <2>2. CASE bus' = [bus EXCEPT ![m] = Bus!Added(bus[m])]
      BY <1>1, <1>2, <1>4, <2>2
  <2> QED
      BY <1>6, <2>1, <2>2 DEF Bus!Enqueue, Bus!PromoteDue
<1>7. ASSUME NEW m \in Tasks, Bus!Dequeue(m)
      PROVE  bus' \in [Tasks -> Entry] /\ \A n \in Tasks : bus'[n].token >= bus[n].token
  <2> DEFINE tok == bus[m].token + 1
             new == [bus[m] EXCEPT !.place = "pending", !.idle = FALSE, !.token = tok]
  <2>1. tok \in 0..MaxFence /\ tok >= bus[m].token /\ bus[m] \in Entry
      BY <1>1, <1>7 DEF Bus!Dequeue
  <2>2. bus' = [bus EXCEPT ![m] = new]
      BY <1>1, <1>7 DEF Bus!Dequeue
  <2> HIDE DEF tok
  <2>3. new \in Entry /\ new.token >= bus[m].token
      BY <1>3, <2>1
  <2> QED
      BY <1>2, <2>2, <2>3
<1>8. ASSUME NEW m \in Tasks, NEW k \in 0..MaxFence,
             Bus!LeaseExpires(m) \/ Bus!EntryIdles(m) \/ Bus!SetLease(m, k)
      PROVE  bus' \in [Tasks -> Entry] /\ \A n \in Tasks : bus'[n].token >= bus[n].token
  <2>1. ASSUME NEW e \in Entry, NEW j \in 0..MaxFence
        PROVE  /\ [e EXCEPT !.lease = j] \in Entry /\ [e EXCEPT !.lease = j].token >= e.token
               /\ [e EXCEPT !.idle = TRUE] \in Entry /\ [e EXCEPT !.idle = TRUE].token >= e.token
    <3>1. [e EXCEPT !.lease = j] \in Entry
        OBVIOUS
    <3>2. [e EXCEPT !.idle = TRUE] \in Entry
        OBVIOUS
    <3>3. /\ [e EXCEPT !.lease = j].token = e.token /\ [e EXCEPT !.idle = TRUE].token = e.token
          /\ e.token >= e.token
        BY <1>1
    <3> QED
        BY <3>1, <3>2, <3>3
  <2>2. 0 \in 0..MaxFence /\ bus[m] \in Entry
      BY <1>1
  <2> HIDE DEF Entry
  <2>3. CASE Bus!LeaseExpires(m)
      BY <1>2, <2>1, <2>2, <2>3 DEF Bus!LeaseExpires
  <2>4. CASE Bus!EntryIdles(m)
      BY <1>2, <2>1, <2>2, <2>4 DEF Bus!EntryIdles
  <2>5. CASE Bus!SetLease(m, k)
      BY <1>2, <2>1, <2>2, <2>5 DEF Bus!SetLease
  <2> QED
      BY <1>8, <2>3, <2>4, <2>5
<1>9. ASSUME NEW m \in Tasks, NEW i, NEW k, Bus!Ack(m, i, k) \/ Bus!Defer(m, i, k)
      PROVE  bus' \in [Tasks -> Entry] /\ \A n \in Tasks : bus'[n].token >= bus[n].token
  <2> DEFINE new(e, place) == [e EXCEPT !.place = place, !.lease = 0]
  <2>1. \E place \in {"acked", "delay"} : bus' = [bus EXCEPT ![m] = new(bus[m], place)]
      BY <1>1, <1>9 DEF Bus!Ack, Bus!Defer
  <2>2. ASSUME NEW e \in Entry, NEW place \in Bus!Places
        PROVE  new(e, place) \in Entry /\ new(e, place).token >= e.token
    <3>1. 0 \in 0..MaxFence
        BY <1>1
    <3>2. new(e, place) \in Entry
        BY <3>1
    <3>3. new(e, place).token = e.token /\ e.token >= e.token
        BY <1>1
    <3> QED
        BY <3>2, <3>3
  <2> HIDE DEF Entry, new
  <2> QED
      BY <1>1, <1>2, <1>3, <2>1, <2>2
<1>10. bus' \in [Tasks -> Entry] /\ \A n \in Tasks : bus'[n].token >= bus[n].token
  <2>1. CASE UNCHANGED bus
      BY <1>1, <2>1
  <2>2. ASSUME NEW m \in Tasks,
               \/ Bus!Enqueue(m) \/ Bus!PromoteDue(m) \/ Bus!Dequeue(m)
               \/ \E i, k : Bus!Defer(m, i, k)
               \/ \E w \in Workers : m = local[w].msg /\ AckOp(w)
        PROVE  bus' \in [Tasks -> Entry] /\ \A n \in Tasks : bus'[n].token >= bus[n].token
      BY <2>2, <1>6, <1>7, <1>9, Zenon DEF AckOp
  <2>3. ASSUME NEW m \in Tasks,
               \/ Bus!LeaseExpires(m) \/ Bus!EntryIdles(m)
               \/ \E k \in Fences : Bus!SetLease(m, k)
        PROVE  bus' \in [Tasks -> Entry] /\ \A n \in Tasks : bus'[n].token >= bus[n].token
    <3>1. Fences \subseteq 0..MaxFence /\ 0 \in 0..MaxFence
        BY <1>1 DEF Fences
    <3> QED
        BY <2>3, <1>8, <3>1, Zenon
  <2> QED
      BY <2>1, <2>2, <2>3, Zenon DEF BusStep
<1> QED
    BY <1>10 DEF Bus!BusTypeOK

\* What a step does outside the store and the memories of the processes.
RestStep ==
    /\ BusStep
    /\ cursor' \in Nat
    /\ executed' \in [Steps -> Nat]
    /\ executed' = executed \/ \E w \in Workers : Execute(w)
    /\ faults' \in 0..MaxFaults

LEMMA NextRest ==
    ASSUME Shaped, Next
    PROVE  RestStep
<1>1. /\ cursor \in Nat /\ executed \in [Steps -> Nat] /\ faults \in 0..MaxFaults
      /\ MaxFaults \in Nat
    BY RunAssumption DEF Shaped, RunTypeOK
<1>2. Fault => faults' \in 0..MaxFaults
    BY <1>1 DEF Fault
<1>3. BusSame => BusStep
    BY DEF BusSame, BusStep
<1>4. ASSUME BusSame /\ RestSame PROVE RestStep
    BY <1>1, <1>3, <1>4 DEF RestSame, RestStep
<1>5. ASSUME BusStep /\ RestSame PROVE RestStep
    BY <1>1, <1>5 DEF RestSame, RestStep
<1>6. ASSUME BusStep, Fault \/ UNCHANGED faults, UNCHANGED <<cursor, executed>> PROVE RestStep
    BY <1>1, <1>2, <1>6 DEF RestStep
<1>7. \A w \in Workers : Shape(local[w]) /\ local[w] \in Memory
    BY DEF Shaped, RunTypeOK, Processes
<1>8. ASSUME NEW w \in Workers, WorkerStep(w) PROVE RestStep
  <2>1. CASE \/ Accept(w) \/ CheckDelivery(w) \/ TakeLease(w) \/ Start(w) \/ Claim(w)
             \/ KeepReceipt(w) \/ Settle(w) \/ Finish(w) \/ CheckPlanning(w)
             \/ LeasePlanning(w) \/ BeginPlanning(w) \/ Build(w) \/ CommitPlan(w)
             \/ FailPlanning(w) \/ CloseFailedPlanning(w)
      BY <1>4, <2>1 DEF Accept, CheckDelivery, TakeLease, QueueWaitExpired, CallStore, Start,
         Claim, KeepReceipt, Settle, Finish, CheckPlanning, LeasePlanning, BeginPlanning, Build,
         CommitPlan, FailPlanning, CloseFailedPlanning
  <2>2. CASE Dequeue(w) \/ AcquireLease(w) \/ DeferDelivery(w) \/ AckDelivery(w)
    <3>1. local[w].msg \in Tasks
        BY <1>7 DEF Memory
    <3>2. At(w, "setnx") => local[w].tok \in Fences
        BY <1>7 DEF Shape, DeliveryPCs, At
    <3>3. CASE Dequeue(w)
        BY <1>5, <3>3 DEF Dequeue, BusStep
    <3>4. CASE AcquireLease(w)
        BY <1>3, <1>5, <3>1, <3>2, <3>4 DEF AcquireLease, BusStep
    <3>5. CASE DeferDelivery(w)
        BY <1>3, <1>5, <3>1, <3>5 DEF DeferDelivery, BusStep
    <3>6. CASE AckDelivery(w)
        BY <1>3, <1>5, <3>1, <3>6 DEF AckDelivery, BusStep, AckOp
    <3> QED
        BY <2>2, <3>3, <3>4, <3>5, <3>6
  <2>3. CASE Execute(w)
    <3>1. local[w].msg \in Steps /\ BusSame /\ UNCHANGED <<cursor, faults>>
          /\ executed' = [executed EXCEPT ![local[w].msg] = @ + 1]
        BY <1>7, <2>3 DEF Shape, StepPCs, At, Execute
    <3>2. executed' \in [Steps -> Nat]
        BY <1>1, <3>1
    <3> QED
        BY <1>1, <1>3, <2>3, <3>1, <3>2 DEF RestStep
  <2> QED
      BY <1>8, <2>1, <2>2, <2>3 DEF WorkerStep
<1>9. ASSUME NEW p \in Processes, RecoverStep(p) \/ Scan(p) \/ Submit(p) \/ Crash(p)
      PROVE  RestStep
  <2>1. Shape(local[p]) /\ local[p] \in Memory
      BY DEF Shaped, RunTypeOK
  <2>2. CASE \/ RecoverStart(p) \/ RecoverExpire(p) \/ ReconcileRead(p) \/ ReconcileTasks(p)
             \/ ReconcileCommit(p) \/ DispatchRead(p) \/ Scan(p) \/ Submit(p)
      BY <1>4, <2>2 DEF RecoverStart, RecoverExpire, CallStore, ReconcileRead, ReconcileTasks,
         ReconcileCommit, DispatchRead, Scan, Submit
  <2>3. CASE DispatchEnqueue(p)
    <3>1. local[p].todo \in Seq(Tasks) /\ local[p].todo # <<>>
        BY <2>1, <2>3 DEF DispatchEnqueue, At, Shape, Memory, RecoveryPCs
    <3>2. Head(local[p].todo) \in Tasks
        BY <3>1, HeadTailProperties
    <3> QED
        BY <1>5, <2>3, <3>2 DEF DispatchEnqueue, BusStep
  <2>4. CASE DispatchAdvance(p)
    <3>1. local[p].pos + 1 \in Nat
        BY <2>1 DEF Memory
    <3> QED
        BY <1>1, <1>3, <2>4, <3>1 DEF DispatchAdvance, RestStep
  <2>5. CASE Crash(p)
      BY <1>3, <1>6, <2>5 DEF Crash
  <2> QED
      BY <1>9, <2>2, <2>3, <2>4, <2>5 DEF RecoverStep
<1>10. CASE ApiStep
  <2>1. CASE Admit \/ CancelRun
      BY <1>4, <2>1 DEF Admit, CancelRun
  <2> QED
      BY <1>9, <1>10, <2>1 DEF ApiStep, Processes
<1>11. CASE FaultStep
  <2>1. CASE \E w \in Workers : Stall(w) \/ Interrupt(w) \/ Refuse(w)
      BY <1>3, <1>6, <2>1 DEF Stall, Interrupt, Refuse
  <2> QED
      BY <1>9, <1>11, <2>1 DEF FaultStep
<1>12. CASE TimeStep
  <2>1. CASE \/ Deadline
             \/ \E m \in Tasks : StoreLeaseElapses(m) \/ QueueTimeout(m)
      BY <1>4, <2>1 DEF Deadline, StoreLeaseElapses, QueueTimeout
  <2>2. CASE \E m \in Tasks : BusLeaseExpires(m) \/ Promote(m)
      BY <1>5, <2>2 DEF BusLeaseExpires, Promote, BusStep
  <2>3. ASSUME NEW m \in Tasks, EntryIdles(m) PROVE RestStep
    <3>1. BusStep
        BY <2>3 DEF EntryIdles, BusStep
    <3> QED
        BY <1>6, <2>3, <3>1 DEF EntryIdles
  <2> QED
      BY <1>12, <2>1, <2>2, <2>3 DEF TimeStep
<1>13. CASE Over
    BY <1>1, <1>13 DEF Over, vars, RestStep, BusStep
<1> QED
    BY <1>8, <1>9, <1>10, <1>11, <1>12, <1>13 DEF Next, Processes

-----------------------------------------------------------------------------
(* The store.                                                              *)

\* The transactions of the API, the scanner and the reconciler but the last.
RecoveryOp ==
    \/ RecoverAdmission \/ StartPlanning \/ ExpirePlanning \/ Cancel
    \/ \E t \in Steps : \/ QueueTask(run.version, t) \/ SkipTask(run.version, t)
                        \/ ExpireQueuedTask(run.version, t)
                        \/ ExpireUnstartedTask(run.version, t)
    \/ \E t \in Tasks, c \in CapacityReasons : MarkCapacityWaiting(run.version, t, c)

\* A transaction that grants no right to execute, keeps no receipt, completes
\* no step and does not close a planned run; or none at all.
OtherOp ==
    \/ \E t \in Tasks, w \in Owners, f \in Fences :
         \/ LeaseTask(run.version, t, w, f)
         \/ StartTask(run.version, t, w, f)
         \/ \E r \in FailReasons(t) : FailTask(run.version, t, w, f, r)
         \/ t = PlanningTaskID /\ \E p \in Plans : CompletePlanning(run.version, w, f, p)
    \/ RecoveryOp \/ TimePasses \/ UNCHANGED storeVars

\* The three transactions around an execution, of the worker that makes them.
GrantOp(w) ==
    Claim(w) /\ Goto(w, "execute") /\ ClaimExecution(local[w].msg, Owner(w), local[w].tok)

KeepOp(w) ==
    KeepReceipt(w) /\ StoreReceipt(local[w].msg, Owner(w), local[w].tok)

CompleteOp(w) ==
    /\ Finish(w) /\ local[w].out = "ok"
    /\ CompleteTask(run.version, local[w].msg, Owner(w), local[w].tok)

\* The commit of the final status that ReconcilePlan decided.
CloseOp(p) ==
    /\ At(p, "r_commit") /\ local[p].dec.op = "close"
    /\ local[p].dec.arg \in ReconcileOutcomes
    /\ Transition(local[p].ver, local[p].dec.arg)

StoreStep ==
    \/ OtherOp
    \/ \E w \in Workers : GrantOp(w) \/ KeepOp(w) \/ CompleteOp(w)
    \/ \E p \in Processes : CloseOp(p)

\* What a worker knows of its delivery when it calls the store.
LEMMA DeliveryTypes ==
    ASSUME Shaped, NEW w \in Workers
    PROVE  /\ Owner(w) \in Owners
           /\ local[w].msg \in Tasks
           /\ local[w].pc \in DeliveryPCs => local[w].tok \in Fences
           /\ local[w].pc \in StepPCs => local[w].msg \in Steps
           /\ local[w].pc \in PlanPCs => local[w].msg = PlanningTaskID
BY RunAssumption DEF Shaped, RunTypeOK, Processes, Shape, Memory, RecoveryPCs, Owner

\* A version that must hold is the run's version.
LEMMA VersionHolds ==
    /\ \A v, t, w, f : LeaseTask(v, t, w, f) => LeaseTask(run.version, t, w, f)
    /\ \A v, t, w, f : StartTask(v, t, w, f) => StartTask(run.version, t, w, f)
    /\ \A v, t : QueueTask(v, t) => QueueTask(run.version, t)
    /\ \A v, t : SkipTask(v, t) => SkipTask(run.version, t)
    /\ \A v, t : ExpireQueuedTask(v, t) => ExpireQueuedTask(run.version, t)
    /\ \A v, t : ExpireUnstartedTask(v, t) => ExpireUnstartedTask(run.version, t)
    /\ \A v, s : Transition(v, s) => Transition(run.version, s)
BY Zenon DEF LeaseTask, StartTask, QueueTask, SkipTask, ExpireQueuedTask, ExpireUnstartedTask,
   Transition, MutateTask

\* Every step is a transaction of the store or leaves it alone.
LEMMA NextStore ==
    ASSUME Shaped, Next
    PROVE  StoreStep
<1>1. StoreSame => OtherOp
    BY DEF StoreSame, OtherOp
<1>2. OtherOp => StoreStep
    BY DEF StoreStep
<1> HIDE DEF OtherOp
<1>3. ASSUME NEW w \in Workers, WorkerStep(w) PROVE StoreStep
  <2> DEFINE t == local[w].msg
             f == local[w].tok
  <2>1. /\ Owner(w) \in Owners /\ t \in Tasks
        /\ local[w].pc \in DeliveryPCs => f \in Fences
        /\ local[w].pc \in StepPCs => t \in Steps
        /\ local[w].pc \in PlanPCs => t = PlanningTaskID
        /\ Shape(local[w])
      BY DeliveryTypes DEF Shaped, Processes
  <2>2. CASE \/ Dequeue(w) \/ AcquireLease(w) \/ Accept(w) \/ DeferDelivery(w) \/ AckDelivery(w)
             \/ CheckDelivery(w) \/ Execute(w) \/ Settle(w) \/ CheckPlanning(w) \/ Build(w)
      BY <1>1, <1>2, <2>2 DEF Dequeue, AcquireLease, Accept, DeferDelivery, AckDelivery,
         CheckDelivery, Execute, Settle, CheckPlanning, Build
  <2>3. CASE TakeLease(w)
    <3>1. f \in Fences
        BY <2>1, <2>3 DEF TakeLease, At, DeliveryPCs
    <3>2. CASE LeaseTask(run.version, t, Owner(w), f)
        BY <1>2, <2>1, <3>1, <3>2 DEF OtherOp
    <3> QED
        BY <1>1, <1>2, <2>3, <3>2 DEF TakeLease, QueueWaitExpired, CallStore
  <2>4. CASE Start(w)
    <3>1. f \in Fences
        BY <2>1, <2>4 DEF Start, At, DeliveryPCs
    <3>2. CASE StartTask(run.version, t, Owner(w), f)
        BY <1>2, <2>1, <3>1, <3>2 DEF OtherOp
    <3> QED
        BY <1>1, <1>2, <2>4, <3>2 DEF Start, CallStore
  <2>5. CASE Claim(w)
      BY <1>1, <1>2, <2>5 DEF Claim, GrantOp, StoreStep
  <2>6. CASE KeepReceipt(w)
      BY <1>1, <1>2, <2>6 DEF KeepReceipt, KeepOp, StoreStep
  <2>7. CASE Finish(w)
    <3>1. f \in Fences /\ t \in Steps /\ t # PlanningTaskID
        BY <2>1, <2>7, TaskBasics DEF Finish, At, DeliveryPCs, StepPCs
    <3>2. local[w].out \in {"ok"} \cup FailReasons(t)
        BY <2>1, <2>7, <3>1 DEF Finish, At, Shape, FailReasons
    <3>3. CASE local[w].out = "ok" /\ FinishOp(w)
        BY <2>7, <3>3 DEF FinishOp, CompleteOp, StoreStep
    <3>4. CASE local[w].out # "ok" /\ FinishOp(w)
      <4>1. FailTask(run.version, t, Owner(w), f, local[w].out) /\ local[w].out \in FailReasons(t)
          BY <3>2, <3>4 DEF FinishOp
      <4> QED
          BY <1>2, <2>1, <3>1, <4>1 DEF OtherOp
    <3> QED
        BY <1>1, <1>2, <2>7, <3>3, <3>4 DEF Finish
  <2>8. CASE LeasePlanning(w)
    <3>1. f \in Fences /\ t = PlanningTaskID
        BY <2>1, <2>8 DEF LeasePlanning, At, DeliveryPCs, PlanPCs
    <3>2. CASE LeaseTask(local[w].ver, PlanningTaskID, Owner(w), f)
        BY <1>2, <2>1, <3>1, <3>2, VersionHolds DEF OtherOp
    <3> QED
        BY <1>1, <1>2, <2>8, <3>2 DEF LeasePlanning, QueueWaitExpired
  <2>9. CASE BeginPlanning(w)
    <3>1. f \in Fences /\ t = PlanningTaskID
        BY <2>1, <2>9 DEF BeginPlanning, At, DeliveryPCs, PlanPCs
    <3>2. CASE StartTask(local[w].ver, PlanningTaskID, Owner(w), f)
        BY <1>2, <2>1, <3>1, <3>2, VersionHolds DEF OtherOp
    <3> QED
        BY <1>1, <1>2, <2>9, <3>2 DEF BeginPlanning, CallStore
  <2>10. CASE CommitPlan(w)
    <3>1. f \in Fences /\ t = PlanningTaskID
        BY <2>1, <2>10 DEF CommitPlan, At, DeliveryPCs, PlanPCs
    <3>2. CASE \E p \in Plans : CompletePlanning(run.version, Owner(w), f, p)
        BY <1>2, <2>1, <3>1, <3>2 DEF OtherOp
    <3> QED
        BY <1>1, <1>2, <2>10, <3>2 DEF CommitPlan
  <2>11. CASE FailPlanning(w)
    <3>1. f \in Fences /\ t = PlanningTaskID /\ "planner.failed" \in FailReasons(t)
        BY <2>1, <2>11 DEF FailPlanning, At, DeliveryPCs, PlanPCs, FailReasons
    <3>2. CASE FailTask(run.version, PlanningTaskID, Owner(w), f, "planner.failed")
        BY <1>2, <2>1, <3>1, <3>2 DEF OtherOp
    <3> QED
        BY <1>1, <1>2, <2>11, <3>2 DEF FailPlanning
  <2>12. CASE CloseFailedPlanning(w)
      BY <1>1, <1>2, <2>12 DEF CloseFailedPlanning, CallStore, OtherOp, RecoveryOp
  <2> QED
      BY <1>3, <2>2, <2>3, <2>4, <2>5, <2>6, <2>7, <2>8, <2>9, <2>10, <2>11, <2>12 DEF WorkerStep
<1>4. ASSUME NEW p \in Processes, RecoverStep(p) \/ Scan(p) \/ Submit(p) \/ Crash(p)
      PROVE  StoreStep
  <2>1. CASE \/ ReconcileRead(p) \/ ReconcileTasks(p) \/ DispatchRead(p) \/ DispatchEnqueue(p)
             \/ DispatchAdvance(p) \/ Scan(p) \/ Crash(p)
      BY <1>1, <1>2, <2>1 DEF ReconcileRead, ReconcileTasks, DispatchRead, DispatchEnqueue,
         DispatchAdvance, Scan, Crash
  <2>2. CASE RecoverStart(p) \/ RecoverExpire(p) \/ Submit(p)
      BY <1>1, <1>2, <2>2 DEF RecoverStart, RecoverExpire, CallStore, Submit, OtherOp, RecoveryOp
  <2>3. CASE ReconcileCommit(p)
    <3> DEFINE d == local[p].dec
               v == local[p].ver
    <3>1. d \in Decision
        BY DEF Shaped, RunTypeOK, Memory
    <3>2. /\ d.op \in {"expire", "timeout", "skip", "queue"} => d.arg \in Steps
          /\ d.op = "close" => d.arg \in ReconcileOutcomes
        BY <3>1 DEF Decision, NoDecision
    <3>3. CASE DecidedOp(v, d)
      <4>1. \/ \E t \in Steps : \/ QueueTask(run.version, t) \/ SkipTask(run.version, t)
                                \/ ExpireQueuedTask(run.version, t)
                                \/ ExpireUnstartedTask(run.version, t)
            \/ CloseOp(p)
          BY <2>3, <3>2, <3>3, VersionHolds DEF DecidedOp, CloseOp, ReconcileCommit
      <4> QED
          BY <1>2, <4>1 DEF OtherOp, RecoveryOp, StoreStep
    <3> QED
        BY <1>1, <1>2, <2>3, <3>3 DEF ReconcileCommit
  <2> QED
      BY <1>4, <2>1, <2>2, <2>3 DEF RecoverStep
<1>5. CASE ApiStep
  <2>1. CASE Admit \/ CancelRun
      BY <1>2, <2>1 DEF Admit, CancelRun, OtherOp, RecoveryOp
  <2> QED
      BY <1>4, <1>5, <2>1 DEF ApiStep, Processes
<1>6. CASE FaultStep
  <2>1. CASE \E w \in Workers : Stall(w) \/ Interrupt(w)
      BY <1>1, <1>2, <2>1 DEF Stall, Interrupt
  <2>2. ASSUME NEW w \in Workers, Refuse(w) PROVE StoreStep
    <3>1. CASE \E c \in CapacityReasons : MarkCapacityWaiting(run.version, local[w].msg, c)
        BY <1>2, <3>1, DeliveryTypes DEF OtherOp, RecoveryOp
    <3> QED
        BY <1>1, <1>2, <2>2, <3>1 DEF Refuse
  <2> QED
      BY <1>4, <1>6, <2>1, <2>2 DEF FaultStep
<1>7. CASE TimeStep
  <2>1. CASE Deadline
      BY <1>2, <2>1 DEF Deadline, OtherOp, TimePasses
  <2>2. CASE \E m \in Tasks : StoreLeaseElapses(m) \/ QueueTimeout(m)
      BY <1>2, <2>2 DEF StoreLeaseElapses, QueueTimeout, OtherOp, TimePasses
  <2>3. CASE \E m \in Tasks : BusLeaseExpires(m) \/ EntryIdles(m) \/ Promote(m)
      BY <1>1, <1>2, <2>3 DEF BusLeaseExpires, EntryIdles, Promote
  <2> QED
      BY <1>7, <2>1, <2>2, <2>3 DEF TimeStep
<1>8. CASE Over
    BY <1>1, <1>2, <1>8 DEF Over, vars, StoreSame, storeVars
<1> QED
    BY <1>3, <1>4, <1>5, <1>6, <1>7, <1>8 DEF Next, Processes

\* Those steps are steps of StoreSpec.
LEMMA StoreStepIsNext ==
    ASSUME Shaped, StoreStep
    PROVE  [StoreNext]_storeVars
<1>1. CASE OtherOp
    BY <1>1 DEF OtherOp, RecoveryOp, ReconcileOp, StoreNext, WorkerOp
<1>2. ASSUME NEW w \in Workers, GrantOp(w) \/ KeepOp(w) \/ CompleteOp(w)
      PROVE  WorkerOp
  <2>1. local[w].pc \in {"claim", "receipt", "finish"}
      BY <1>2 DEF GrantOp, KeepOp, CompleteOp, Claim, KeepReceipt, Finish, At
  <2>2. /\ Owner(w) \in Owners /\ local[w].tok \in Fences
        /\ local[w].msg \in Steps /\ local[w].msg \in Tasks
      BY <2>1, DeliveryTypes DEF DeliveryPCs, StepPCs
  <2> QED
      BY <1>2, <2>2 DEF GrantOp, KeepOp, CompleteOp, WorkerOp
<1>3. ASSUME NEW p \in Processes, CloseOp(p) PROVE ReconcileOp
    BY <1>3, VersionHolds DEF CloseOp, ReconcileOp
<1> QED
    BY <1>1, <1>2, <1>3 DEF StoreStep, StoreNext

\* What a step does to the memories of the processes.
LEMMA NextLocal ==
    ASSUME Shaped, Next
    PROVE  \/ UNCHANGED local
           \/ \E p \in Processes : Moves(p)
           \/ \E w \in Workers : Dequeue(w)
<1>1. \A w \in Workers : w \in Processes
    BY DEF Processes
<1>2. CASE \E w \in Workers : WorkerStep(w)
    BY <1>1, <1>2, DeliveryMoves, StepMoves, PlanningMoves DEF WorkerStep
<1>3. CASE \E p \in Processes : RecoverStep(p) \/ Scan(p) \/ Submit(p)
    BY <1>3, RecoverMoves, DispatchMoves DEF RecoverStep
<1>4. CASE Admit \/ CancelRun \/ TimeStep \/ Over
    BY <1>4 DEF Admit, CancelRun, TimeStep, Deadline, StoreLeaseElapses, BusLeaseExpires,
       EntryIdles, Promote, QueueTimeout, Over, vars
<1>5. CASE FaultStep
    BY <1>1, <1>5, FaultMoves, DeliveryMoves DEF FaultStep
<1> QED
    BY <1>2, <1>3, <1>4, <1>5 DEF Next, ApiStep, Processes

\* A process whose memory changes does so itself.
LEMMA NextMover ==
    ASSUME Shaped, Next, NEW p \in Processes, local'[p] # local[p]
    PROVE  \/ p \in Workers /\ \/ WorkerStep(p) \/ Stall(p) \/ Interrupt(p) \/ Refuse(p)
           \/ RecoverStep(p) \/ Scan(p) \/ Submit(p) \/ Crash(p)
<1>1. /\ local \in [Processes -> Memory] /\ \A w \in Workers : w \in Processes
      /\ \A q \in Services : q \in Processes
    BY DEF Shaped, RunTypeOK, Processes
<1>2. ASSUME NEW q \in Processes, local' = [local EXCEPT ![q] = local'[q]] PROVE p = q
    BY <1>1, <1>2
<1>3. ASSUME NEW w \in Workers, WorkerStep(w) PROVE p = w
  <2>1. Moves(w) \/ Dequeue(w)
      BY <1>1, <1>3, DeliveryMoves, StepMoves, PlanningMoves DEF WorkerStep
  <2> QED
      BY <1>1, <1>2, <2>1, DequeueMoves DEF Moves
<1>4. ASSUME NEW q \in Processes, RecoverStep(q) \/ Scan(q) \/ Submit(q) \/ Crash(q)
      PROVE  p = q
    BY <1>2, <1>4, RecoverMoves, DispatchMoves, FaultMoves DEF RecoverStep, Moves
<1>5. ASSUME NEW w \in Workers, Stall(w) \/ Interrupt(w) \/ Refuse(w) PROVE p = w
    BY <1>1, <1>2, <1>5, FaultMoves, DeliveryMoves DEF Moves
<1>6. ~(Admit \/ CancelRun \/ TimeStep \/ Over)
    BY DEF Admit, CancelRun, TimeStep, Deadline, StoreLeaseElapses, BusLeaseExpires,
       EntryIdles, Promote, QueueTimeout, Over, vars
<1> QED
    BY <1>1, <1>3, <1>4, <1>5, <1>6 DEF Next, ApiStep, FaultStep

\* The shapes are an invariant, given the invariant of the store.
LEMMA NextShaped ==
    ASSUME Shaped, StoreInv, [Next]_vars
    PROVE  Shaped' /\ [StoreNext]_storeVars
<1>1. CASE UNCHANGED vars
    BY <1>1 DEF vars, Shaped, RunTypeOK, Shape, Bus!BusTypeOK, StoreTypeOK, storeVars
<1>2. CASE Next
  <2>1. [StoreNext]_storeVars
      BY <1>2, NextStore, StoreStepIsNext
  <2>2. StoreTypeOK'
      BY <2>1, NextInv DEF StoreInv
  <2>3. RestStep
      BY <1>2, NextRest
  <2>4. Bus!BusTypeOK'
      BY <2>3, BusStepType DEF RestStep, Shaped, RunTypeOK
  <2>5. local' \in [Processes -> Memory] /\ \A p \in Processes : Shape(local'[p])
    <3>1. /\ local \in [Processes -> Memory]
          /\ \A p \in Processes : Shape(local[p])
        BY DEF Shaped, RunTypeOK
    <3>2. CASE UNCHANGED local
        BY <3>1, <3>2
    <3>3. ASSUME NEW p \in Processes, local' = [local EXCEPT ![p] = local'[p]],
                 Shape(local'[p])
          PROVE  local' \in [Processes -> Memory] /\ \A q \in Processes : Shape(local'[q])
      <4>1. local'[p] \in Memory
          BY <3>3 DEF Shape
      <4>2. \A q \in Processes : local'[q] = IF q = p THEN local'[p] ELSE local[q]
          BY <3>1, <3>3
      <4>3. local' \in [Processes -> Memory]
          BY <3>1, <3>3, <4>1
      <4> QED
          BY <3>1, <3>3, <4>2, <4>3
    <3>4. CASE \E p \in Processes : Moves(p)
        BY <3>3, <3>4 DEF Moves, Follows
    <3>5. CASE \E w \in Workers : Dequeue(w)
        BY <3>3, <3>5, DequeueMoves DEF Processes
    <3> QED
        BY <1>2, <3>2, <3>4, <3>5, NextLocal
  <2> QED
      BY <2>1, <2>2, <2>3, <2>4, <2>5 DEF Shaped, RunTypeOK, RestStep
<1> QED
    BY <1>1, <1>2

\* The initial state is well shaped.
LEMMA InitShaped == Init => Shaped /\ StoreInit
<1> SUFFICES ASSUME Init PROVE Shaped /\ StoreInit
    OBVIOUS
<1>1. StoreInit /\ StoreTypeOK
    BY InitInv DEF Init, StoreInv
<1>2. Bus!BusTypeOK
  <2>1. MaxFence \in Nat
      BY StoreAssumption
  <2>2. 0 \in 0..MaxFence /\ "none" \in Bus!Places
      BY <2>1 DEF Bus!Places
  <2> QED
      BY <2>2 DEF Init, Bus!BusInit, Bus!BusTypeOK
<1>3. cursor \in Nat /\ executed \in [Steps -> Nat] /\ faults \in 0..MaxFaults
    BY RunAssumption DEF Init
<1>4. local \in [Processes -> Memory] /\ \A p \in Processes : Shape(local[p])
    BY IdleShape DEF Init
<1> QED
    BY <1>1, <1>2, <1>3, <1>4 DEF Shaped, RunTypeOK

\* The invariant the other proofs start from.
RunInv == Shaped /\ StoreInv /\ PlannerUndone

LEMMA RunInvInit == Init => RunInv
BY InitShaped, InitInv DEF RunInv, StoreInit, PlannerUndone, Open, RunOpen

LEMMA RunInvNext == RunInv /\ [Next]_vars => RunInv'
<1> SUFFICES ASSUME RunInv, [Next]_vars PROVE RunInv'
    OBVIOUS
<1>1. Shaped' /\ [StoreNext]_storeVars
    BY NextShaped DEF RunInv
<1>2. StoreInv' /\ PlannerUndone'
    BY <1>1, NextInv, NextKept DEF RunInv, StepKept
<1> QED
    BY <1>1, <1>2 DEF RunInv

LEMMA RunInvariance == Spec => []RunInv
BY RunInvInit, RunInvNext, PTL DEF Spec

\* Every process of the run keeps to its types.
THEOREM RunTypeCorrect == Spec => []RunTypeOK
<1>1. RunInv => RunTypeOK
    BY DEF RunInv, Shaped
<1> QED
    BY <1>1, RunInvariance, PTL

\* Workers, scanners and the API only use the transactions of the store, with
\* owners, fences and results it may be called with: the detailed system
\* implements the store under arbitrary clients.
THEOREM ImplementsStore == Spec => UsesStore
<1>1. Init => StoreInit
    BY InitShaped
<1>2. RunInv /\ [Next]_vars => [StoreNext]_storeVars
    BY NextShaped DEF RunInv
<1> QED
    BY <1>1, <1>2, RunInvariance, PTL DEF Spec, UsesStore, StoreSpec

-----------------------------------------------------------------------------
(***************************************************************************)
(* Whatever is redelivered, stalled, crashed or taken over, a step's       *)
(* business call begins at most once, after the steps it depends on have   *)
(* completed, and a completed step has the receipt of that one call.       *)
(*                                                                         *)
(* The argument: no two processes hold the same delivery token, the right  *)
(* to execute names the token of the process that goes on to execute, and  *)
(* receipts and completions follow the execution.                          *)
(***************************************************************************)

\* INCR never hands out a token twice: a process that took up a delivery has a
\* token of its own, and the counter has passed it.
TokensFresh ==
    /\ \A p \in Processes : local[p].tok <= bus[local[p].msg].token
    /\ \A p, q \in Processes :
         p # q /\ local[p].tok # 0 /\ local[p].msg = local[q].msg
             => local[p].tok # local[q].tok

\* What the store and the history say of a step.
StepHistory(s) ==
    /\ executed[s] \in {0, 1}
    /\ executed[s] = 1 => task[s].token # 0
    /\ task[s].token # 0 =>
         run.rev = 1 /\ \A d \in plan[s] : task[d].status = "completed"
    /\ task[s].receipt => executed[s] = 1
    /\ task[s].status = "completed" => task[s].receipt

\* What a process that is about to execute, or has executed, may rely on.
ExecutorKnows(l) ==
    /\ l.pc = "execute" => task[l.msg].token = l.tok /\ executed[l.msg] = 0
    /\ l.pc = "receipt" => executed[l.msg] = 1
    /\ l.pc \in {"settle", "finish"} /\ l.out = "ok" => task[l.msg].receipt

\* The inductive invariant.
ExecInv ==
    /\ TokensFresh
    /\ \A s \in Steps : StepHistory(s)
    /\ \A p \in Processes : ExecutorKnows(local[p])

-----------------------------------------------------------------------------
\* Dequeue hands out a token above all that are held; nothing else hands out
\* any.
LEMMA NextTokens ==
    ASSUME RunInv, TokensFresh, Next
    PROVE  TokensFresh'
<1>1. /\ Shaped /\ local \in [Processes -> Memory] /\ bus \in [Tasks -> [place : Bus!Places,
           sid : Nat, idle : BOOLEAN, lease : 0..MaxFence, token : 0..MaxFence]]
      /\ MaxFence \in Nat
    BY StoreAssumption DEF RunInv, Shaped, RunTypeOK, Bus!BusTypeOK
<1>2. /\ \A p \in Processes : local[p].tok \in Nat /\ local[p].msg \in Tasks
      /\ \A m \in Tasks : bus[m].token \in Nat
    BY <1>1 DEF Memory
<1>3. /\ \A m \in Tasks : bus'[m].token >= bus[m].token
      /\ \A m \in Tasks : bus'[m].token \in Nat
  <2>1. BusStep
      BY <1>1, NextRest DEF RestStep
  <2>2. Bus!BusTypeOK' /\ \A m \in Tasks : bus'[m].token >= bus[m].token
      BY <1>1, <2>1, BusStepType DEF Shaped, RunTypeOK
  <2> QED
      BY <1>1, <2>2 DEF Bus!BusTypeOK
<1>4. \A p \in Processes : local[p].tok <= bus'[local[p].msg].token
    BY <1>2, <1>3 DEF TokensFresh
<1>5. CASE UNCHANGED local
    BY <1>4, <1>5 DEF TokensFresh
<1>6. ASSUME NEW p \in Processes, Moves(p) PROVE TokensFresh'
  <2>1. \A q \in Processes : local'[q] = IF q = p THEN local'[p] ELSE local[q]
      BY <1>1, <1>6 DEF Moves
  <2>2. /\ local'[p].tok \in Nat /\ local'[p].msg \in Tasks
        /\ local'[p].tok = 0 \/ (local'[p].tok = local[p].tok /\ local'[p].msg = local[p].msg)
      BY <1>6 DEF Moves, Follows, Shape, Memory
  <2>3. \A q \in Processes : local'[q].tok <= bus'[local'[q].msg].token
      BY <1>2, <1>3, <1>4, <2>1, <2>2
  <2>4. ASSUME NEW q \in Processes, NEW r \in Processes, q # r, local'[q].tok # 0,
               local'[q].msg = local'[r].msg
        PROVE  local'[q].tok # local'[r].tok
      BY <2>1, <2>2, <2>4 DEF TokensFresh
  <2> QED
      BY <2>3, <2>4 DEF TokensFresh
<1>7. ASSUME NEW w \in Workers, Dequeue(w) PROVE TokensFresh'
  <2>1. PICK m \in Tasks :
          /\ Bus!Dequeue(m)
          /\ local' = [local EXCEPT ![w] = local'[w]]
          /\ local'[w].msg = m /\ local'[w].tok = bus[m].token + 1
      BY <1>1, <1>7, DequeueMoves
  <2>2. w \in Processes /\ bus'[m].token = bus[m].token + 1
      BY <1>1, <2>1 DEF Bus!Dequeue, Processes
  <2>3. \A q \in Processes : q # w => local'[q] = local[q]
      BY <1>1, <2>1
  <2>4. \A q \in Processes : local'[q].tok <= bus'[local'[q].msg].token
      BY <1>2, <1>4, <2>1, <2>2, <2>3
  <2>5. ASSUME NEW q \in Processes, q # w, local'[q].msg = m
        PROVE  local'[q].tok # local'[w].tok
    <3>1. local[q].tok <= bus[m].token
        BY <2>3, <2>5 DEF TokensFresh
    <3> QED
        BY <1>2, <2>1, <2>3, <2>5, <3>1
  <2>6. ASSUME NEW q \in Processes, NEW r \in Processes, q # r, local'[q].tok # 0,
               local'[q].msg = local'[r].msg
        PROVE  local'[q].tok # local'[r].tok
    <3>1. CASE q = w \/ r = w
        BY <2>1, <2>5, <2>6, <3>1
    <3>2. CASE q # w /\ r # w
        BY <2>3, <2>6, <3>2 DEF TokensFresh
    <3> QED
        BY <3>1, <3>2
  <2> QED
      BY <2>4, <2>6 DEF TokensFresh
<1> QED
    BY <1>1, <1>5, <1>6, <1>7, NextLocal

-----------------------------------------------------------------------------
\* What every transaction but the three around an execution leaves alone.
Quiet ==
    /\ \A s \in Steps : /\ task'[s].token = task[s].token
                        /\ task'[s].receipt = task[s].receipt
                        /\ task'[s].status = "completed" => task[s].status = "completed"
    /\ run.rev = 1 => run'.rev = 1 /\ plan' = plan

\* A record is replaced by one with the same token and receipt.
LEMMA RewriteQuiet ==
    ASSUME StoreInv, NEW t \in Tasks, NEW new,
           task' = [task EXCEPT ![t] = new],
           t \in Steps => /\ new.token = task[t].token /\ new.receipt = task[t].receipt
                          /\ new.status = "completed" => task[t].status = "completed",
           run'.rev = run.rev, plan' = plan
    PROVE  Quiet
<1>1. task \in [Tasks -> Task]
    BY DEF StoreInv, StoreTypeOK
<1>2. \A s \in Tasks : task'[s] = IF s = t THEN new ELSE task[s]
    BY <1>1
<1> QED
    BY <1>2, TaskBasics DEF Quiet

LEMMA MutateQuiet ==
    ASSUME StoreInv, NEW v, NEW t \in Tasks, NEW new, MutateTask(v, t, new),
           new.token = task[t].token, new.receipt = task[t].receipt,
           new.status = "completed" => task[t].status = "completed"
    PROVE  Quiet
<1>1. run'.rev = run.rev
    BY DEF StoreInv, StoreTypeOK, MutateTask, Commit
<1> QED
    BY <1>1, RewriteQuiet DEF MutateTask

LEMMA OtherOpQuiet ==
    ASSUME StoreInv, OtherOp \/ \E p \in Processes : CloseOp(p)
    PROVE  Quiet
<1>1. task \in [Tasks -> Task] /\ run \in [status : RunStatus, rev : {0, 1}, version : Nat]
    BY DEF StoreInv, StoreTypeOK
<1>2. ASSUME UNCHANGED task, run'.rev = run.rev, plan' = plan PROVE Quiet
    BY <1>2 DEF Quiet
<1>3. ASSUME NEW t \in Tasks, NEW w, NEW f, NEW r,
             \/ LeaseTask(run.version, t, w, f) \/ StartTask(run.version, t, w, f)
             \/ FailTask(run.version, t, w, f, r) \/ SkipTask(run.version, t)
             \/ ExpireQueuedTask(run.version, t) \/ ExpireUnstartedTask(run.version, t)
             \/ MarkCapacityWaiting(run.version, t, r)
      PROVE  Quiet
  <2>1. task[t] \in Task
      BY <1>1
  <2>2. PICK new :
          /\ MutateTask(run.version, t, new)
          /\ \/ new = [task[t] EXCEPT !.status = "leased", !.owner = w, !.fence = f, !.live = TRUE]
             \/ new = [task[t] EXCEPT !.status = "running"]
             \/ new = [task[t] EXCEPT !.status = "failed", !.reason = r]
             \/ new = [task[t] EXCEPT !.status = "skipped", !.reason = "dependency.failed"]
             \/ new = [task[t] EXCEPT !.status = "failed", !.reason = "queue.timeout"]
             \/ new = [task[t] EXCEPT !.reason = "run.deadline",
                         !.status = IF @ = "queued" THEN "failed" ELSE "skipped"]
             \/ new = [task[t] EXCEPT !.queueReason = r]
      BY <1>3 DEF LeaseTask, StartTask, FailTask, SkipTask, ExpireQueuedTask,
         ExpireUnstartedTask, MarkCapacityWaiting
  <2>3. /\ new.token = task[t].token /\ new.receipt = task[t].receipt
        /\ new.status = "completed" => task[t].status = "completed"
      BY <2>1, <2>2 DEF Task
  <2> QED
      BY <2>2, <2>3, MutateQuiet
<1>4. ASSUME NEW t \in Steps, QueueTask(run.version, t) PROVE Quiet
  <2> DEFINE new == [task[t] EXCEPT !.status = "queued"]
  <2>1. task' = [task EXCEPT ![t] = new] /\ run'.rev = run.rev /\ plan' = plan
      BY <1>1, <1>4 DEF QueueTask, Commit
  <2>2. /\ new.token = task[t].token /\ new.receipt = task[t].receipt
        /\ new.status # "completed" /\ t \in Tasks
      BY <1>1, TaskBasics DEF Task
  <2> QED
      BY <2>1, <2>2, RewriteQuiet
<1>5. CASE \E w, f, p : CompletePlanning(run.version, w, f, p)
  <2> DEFINE fresh == [NoTask EXCEPT !.status = "pending_dependency"]
  <2>1. run.rev = 0 /\ \A s \in Steps : task'[s] = fresh
      BY <1>5, TaskBasics DEF CompletePlanning
  <2>2. \A s \in Steps : task[s] = NoTask
      BY <2>1 DEF StoreInv, NothingBeforePlanning
  <2>3. /\ fresh.token = NoTask.token /\ fresh.receipt = NoTask.receipt
        /\ fresh.status # "completed"
      BY DEF NoTask
  <2> HIDE DEF fresh
  <2> QED
      BY <2>1, <2>2, <2>3 DEF Quiet
<1>6. CASE StartPlanning \/ ExpirePlanning
  <2>1. \A s \in Steps : task'[s] = task[s]
      BY <1>1, <1>6, TaskBasics DEF StartPlanning, ExpirePlanning
  <2>2. run'.rev = run.rev /\ plan' = plan
      BY <1>1, <1>6 DEF StartPlanning, ExpirePlanning, Commit
  <2> QED
      BY <2>1, <2>2 DEF Quiet
<1>7. CASE RecoverAdmission \/ \E p \in Processes : CloseOp(p)
    BY <1>1, <1>2, <1>7 DEF RecoverAdmission, Create, CloseOp, Transition, Commit
<1>8. CASE Cancel
  <2>1. run'.rev = run.rev /\ plan' = plan
      BY <1>1, <1>8 DEF Cancel, Commit
  <2>2. ASSUME NEW s \in Steps
        PROVE  /\ task'[s].token = task[s].token /\ task'[s].receipt = task[s].receipt
               /\ task'[s].status = "completed" => task[s].status = "completed"
      BY <1>1, <1>8, TaskBasics DEF Cancel, Task
  <2> QED
      BY <2>1, <2>2 DEF Quiet
<1>9. CASE TimePasses
  <2>1. CASE DeadlinePasses
      BY <1>2, <2>1 DEF DeadlinePasses
  <2>2. ASSUME NEW t \in Tasks, QueueWaitElapses(t) \/ LeaseElapses(t) PROVE Quiet
    <3>1. PICK new : /\ task' = [task EXCEPT ![t] = new] /\ UNCHANGED <<run, plan>>
                     /\ \/ new = [task[t] EXCEPT !.waited = TRUE]
                        \/ new = [task[t] EXCEPT !.live = FALSE]
        BY <2>2 DEF QueueWaitElapses, LeaseElapses
    <3>2. /\ new.token = task[t].token /\ new.receipt = task[t].receipt
          /\ new.status = task[t].status
        BY <1>1, <3>1 DEF Task
    <3> QED
        BY <3>1, <3>2, RewriteQuiet
  <2> QED
      BY <1>9, <2>1, <2>2 DEF TimePasses
<1>10. CASE UNCHANGED storeVars
    BY <1>2, <1>10 DEF storeVars
<1> QED
    BY <1>3, <1>4, <1>5, <1>6, <1>7, <1>8, <1>9, <1>10, TaskBasics DEF OtherOp, RecoveryOp

-----------------------------------------------------------------------------
\* Who gets near an execution, and how.
LEMMA NextExecutor ==
    ASSUME RunInv, Next, NEW p \in Processes, local'[p].pc \in ExecPCs,
           local'[p] # local[p]
    PROVE  \/ p \in Workers /\ \/ Claim(p) \/ Execute(p) \/ KeepReceipt(p) \/ Settle(p)
                               \/ Interrupt(p)
           \/ Stall(p)
<1>1. /\ Shaped /\ local \in [Processes -> Memory]
      /\ \A w \in Workers : w \in Processes
    BY DEF RunInv, Shaped, RunTypeOK, Processes
<1>2. ASSUME NEW q \in Processes, Moves(q) PROVE p = q
    BY <1>1, <1>2 DEF Moves
<1>3. ASSUME NEW q \in Processes, Moves(q), local[q].pc \notin ExecPCs \cup {"claim"}
      PROVE  FALSE
    BY <1>2, <1>3 DEF Moves, Follows
<1>4. ASSUME NEW q \in Processes, Abandon(q) PROVE FALSE
    BY <1>1, <1>4, AbandonMoves, IdleShape DEF Moves, ExecPCs
<1>5. ~UNCHANGED local
    OBVIOUS
<1>6. CASE \E w \in Workers : WorkerStep(w)
  <2>1. PICK w \in Workers : WorkerStep(w)
      BY <1>6
  <2>2. CASE Dequeue(w)
      BY <1>1, <2>2, DequeueMoves DEF ExecPCs
  <2>3. CASE AcquireLease(w) \/ Accept(w) \/ DeferDelivery(w) \/ AckDelivery(w)
    <3>1. Moves(w) /\ local[w].pc \in {"setnx", "delivered", "defer", "ack"}
        BY <1>1, <2>3, DeliveryMoves DEF AcquireLease, Accept, DeferDelivery, AckDelivery, At
    <3> QED
        BY <1>1, <1>3, <3>1 DEF ExecPCs
  <2>4. CASE CheckDelivery(w) \/ TakeLease(w) \/ Start(w)
    <3>1. Moves(w) /\ local[w].pc \in {"check", "lease", "start"}
        BY <1>1, <2>4, StepMoves DEF CheckDelivery, TakeLease, Start, At
    <3> QED
        BY <1>1, <1>3, <3>1 DEF ExecPCs
  <2>5. CASE Claim(w) \/ Execute(w) \/ KeepReceipt(w) \/ Settle(w)
    <3>1. p = w
        BY <1>1, <1>2, <2>5, StepMoves
    <3> QED
        BY <2>5, <3>1
  <2>6. CASE Finish(w)
    <3>1. CASE local' = [local EXCEPT ![w].pc = "ack", ![w].acked = "r_read"]
        BY <1>1, <3>1 DEF ExecPCs, Memory
    <3> QED
        BY <1>1, <1>4, <2>6, <3>1 DEF Finish
  <2>7. CASE \/ CheckPlanning(w) \/ LeasePlanning(w) \/ BeginPlanning(w) \/ Build(w)
             \/ CommitPlan(w) \/ FailPlanning(w) \/ CloseFailedPlanning(w)
    <3>1. Moves(w) /\ local[w].pc \in PlanPCs
        BY <1>1, <2>7, PlanningMoves DEF CheckPlanning, LeasePlanning, BeginPlanning, Build,
           CommitPlan, FailPlanning, CloseFailedPlanning, At, PlanPCs
    <3> QED
        BY <1>1, <1>3, <3>1 DEF ExecPCs, PlanPCs
  <2> QED
      BY <2>1, <2>2, <2>3, <2>4, <2>5, <2>6, <2>7 DEF WorkerStep
<1>7. ASSUME NEW q \in Processes, RecoverStep(q) \/ Scan(q) \/ Submit(q) PROVE FALSE
  <2>1. Moves(q)
      BY <1>1, <1>7, RecoverMoves, DispatchMoves DEF RecoverStep
  <2>2. local[q].pc \in {"idle"} \cup RecoveryPCs
      BY <1>7 DEF RecoverStep, Scan, Submit, RecoverStart, RecoverExpire, ReconcileRead,
         ReconcileTasks, ReconcileCommit, DispatchRead, DispatchEnqueue, DispatchAdvance, At,
         RecoveryPCs
  <2> QED
      BY <1>3, <2>1, <2>2 DEF ExecPCs, RecoveryPCs
<1>8. CASE Admit \/ CancelRun \/ TimeStep \/ Over
    BY <1>5, <1>8 DEF Admit, CancelRun, TimeStep, Deadline, StoreLeaseElapses, BusLeaseExpires,
       EntryIdles, Promote, QueueTimeout, Over, vars
<1>9. CASE FaultStep
  <2>1. CASE \E q \in Processes : Crash(q)
      BY <1>4, <2>1 DEF Crash
  <2>2. ASSUME NEW w \in Workers, Refuse(w) PROVE FALSE
    <3>1. Moves(w) /\ local[w].pc = "delivered"
        BY <1>1, <2>2, DeliveryMoves DEF Refuse, At
    <3> QED
        BY <1>1, <1>3, <3>1 DEF ExecPCs
  <2>3. ASSUME NEW w \in Workers, Stall(w) \/ Interrupt(w) PROVE p = w
      BY <1>1, <1>2, <2>3, FaultMoves
  <2> QED
      BY <1>9, <2>1, <2>2, <2>3 DEF FaultStep
<1> QED
    BY <1>6, <1>7, <1>8, <1>9 DEF Next, ApiStep, Processes

\* What a step does to the record of one step of the plan.
LEMMA NextRecord ==
    ASSUME RunInv, Next
    PROVE  /\ \A t \in Tasks : TaskKept(task[t], task'[t])
           /\ \/ Quiet
              \/ \E w \in Workers : GrantOp(w) \/ KeepOp(w) \/ CompleteOp(w)
<1>1. StoreStep /\ [StoreNext]_storeVars
    BY NextStore, StoreStepIsNext DEF RunInv
<1>2. StepKept
    BY <1>1, NextKept DEF RunInv
<1> QED
    BY <1>1, <1>2, OtherOpQuiet DEF StepKept, StoreStep, RunInv

-----------------------------------------------------------------------------
\* A process that executes is the only one with the right to.
LEMMA SoleExecutor ==
    ASSUME RunInv, ExecInv, NEW p \in Processes, NEW q \in Processes, p # q,
           local[p].pc = "execute", local[q].pc \in {"execute", "receipt"},
           local[p].msg = local[q].msg
    PROVE  FALSE
<1>1. local[p].tok \in Fences /\ local[q].pc = "execute"
    BY DEF RunInv, Shaped, Shape, DeliveryPCs, ExecInv, ExecutorKnows
<1>2. local[p].tok # 0 /\ local[p].tok = local[q].tok
    BY <1>1 DEF Fences, ExecInv, ExecutorKnows
<1> QED
    BY <1>2 DEF ExecInv, TokensFresh

\* Where the history of executions moves, and by how much.
LEMMA NextHistory ==
    ASSUME RunInv, ExecInv, Next
    PROVE  \/ UNCHANGED executed
           \/ \E w \in Workers :
                /\ Execute(w) /\ UNCHANGED <<run, task, plan>>
                /\ local[w].pc = "execute" /\ local[w].msg \in Steps
                /\ executed[local[w].msg] = 0
                /\ executed' = [executed EXCEPT ![local[w].msg] = 1]
<1>1. Shaped
    BY DEF RunInv
<1>2. executed' = executed \/ \E w \in Workers : Execute(w)
    BY <1>1, NextRest DEF RestStep
<1>3. ASSUME NEW w \in Workers, Execute(w)
      PROVE  /\ UNCHANGED <<run, task, plan>>
             /\ local[w].pc = "execute" /\ local[w].msg \in Steps
             /\ executed[local[w].msg] = 0
             /\ executed' = [executed EXCEPT ![local[w].msg] = 1]
  <2>1. w \in Processes /\ local[w].pc = "execute"
      BY <1>3 DEF Execute, At, Processes
  <2>2. local[w].msg \in Steps /\ executed[local[w].msg] = 0
      BY <2>1, DeliveryTypes, <1>1 DEF StepPCs, ExecInv, ExecutorKnows
  <2>3. executed' = [executed EXCEPT ![local[w].msg] = executed[local[w].msg] + 1]
      BY <1>3 DEF Execute
  <2> QED
      BY <1>3, <2>1, <2>2, <2>3 DEF Execute, StoreSame, storeVars
<1> QED
    BY <1>2, <1>3

\* The history of every step stays what it should be.
LEMMA HistoryStep ==
    ASSUME RunInv, ExecInv, Next, NEW s \in Steps
    PROVE  StepHistory(s)'
<1>1. /\ Shaped /\ StoreInv /\ StepHistory(s)
      /\ task \in [Tasks -> Task] /\ plan \in [Steps -> SUBSET Steps] /\ s \in Tasks
      /\ executed \in [Steps -> Nat]
    BY TaskBasics DEF RunInv, StoreInv, StoreTypeOK, ExecInv, Shaped, RunTypeOK
<1>2. \A t \in Tasks : TaskKept(task[t], task'[t])
    BY NextRecord
<1>3. ASSUME \A d \in plan[s] : task[d].status = "completed", plan' = plan
      PROVE  \A d \in plan'[s] : task'[d].status = "completed"
  <2>1. \A d \in plan[s] : d \in Tasks
      BY <1>1, TaskBasics
  <2> QED
      BY <1>2, <1>3, <2>1 DEF TaskKept, Finished
<1>4. CASE Quiet /\ UNCHANGED executed
    BY <1>1, <1>3, <1>4 DEF Quiet, StepHistory
<1>5. ASSUME NEW w \in Workers, Execute(w), UNCHANGED <<run, task, plan>>,
             local[w].pc = "execute", local[w].msg \in Steps,
             executed' = [executed EXCEPT ![local[w].msg] = 1]
      PROVE  StepHistory(s)'
  <2>1. w \in Processes /\ task[local[w].msg].token = local[w].tok /\ local[w].tok \in Fences
      BY <1>5, DeliveryTypes, <1>1 DEF Processes, ExecInv, ExecutorKnows, DeliveryPCs
  <2>2. task[local[w].msg].token # 0
      BY <2>1 DEF Fences
  <2>3. executed'[s] = IF s = local[w].msg THEN 1 ELSE executed[s]
      BY <1>1, <1>5
  <2> QED
      BY <1>1, <1>5, <2>2, <2>3 DEF StepHistory
<1>6. ASSUME NEW w \in Workers, GrantOp(w) \/ KeepOp(w) \/ CompleteOp(w)
      PROVE  StepHistory(s)'
  <2> DEFINE t == local[w].msg
             f == local[w].tok
  <2>1. /\ w \in Processes /\ local[w].pc \in {"claim", "receipt", "finish"}
        /\ executed' = executed /\ plan' = plan
      BY <1>6 DEF GrantOp, KeepOp, CompleteOp, Claim, KeepReceipt, Finish, At, Processes,
         RestSame, ClaimExecution, StoreReceipt, CompleteTask, MutateTask
  <2>2. t \in Steps /\ t \in Tasks /\ f \in Fences /\ task[t] \in Task
      BY <1>1, <2>1, DeliveryTypes DEF StepPCs, DeliveryPCs
  <2>3. f # 0 /\ Revision(t) = 1
      BY <2>2, TaskBasics DEF Fences, Revision
  <2>4. CASE GrantOp(w)
    <3> DEFINE new == [task[t] EXCEPT !.token = f]
    <3>1. /\ task' = [task EXCEPT ![t] = new] /\ UNCHANGED run
          /\ run.rev = 1 /\ task[t].status = "running" /\ task[t].token = 0
        BY <2>3, <2>4 DEF GrantOp, ClaimExecution, MayExecute
    <3>2. \A d \in plan[t] : task[d].status = "completed"
        BY <1>1, <2>2, <3>1 DEF StoreInv, QueuedAfterDependencies
    <3>3. /\ new.token = f /\ new.status = task[t].status /\ new.receipt = task[t].receipt
        BY <2>2 DEF Task
    <3>4. task'[s] = IF s = t THEN new ELSE task[s]
        BY <1>1, <3>1
    <3> QED
        BY <1>1, <1>3, <2>1, <2>3, <3>1, <3>2, <3>3, <3>4 DEF StepHistory
  <2>5. CASE KeepOp(w)
    <3> DEFINE new == [task[t] EXCEPT !.receipt = TRUE]
    <3>1. task' = [task EXCEPT ![t] = new] /\ UNCHANGED run
        BY <2>5 DEF KeepOp, StoreReceipt
    <3>2. executed[t] = 1
        BY <2>1, <2>5 DEF KeepOp, KeepReceipt, At, ExecInv, ExecutorKnows
    <3>3. new.token = task[t].token /\ new.status = task[t].status /\ new.receipt = TRUE
        BY <2>2 DEF Task
    <3>4. task'[s] = IF s = t THEN new ELSE task[s]
        BY <1>1, <3>1
    <3> QED
        BY <1>1, <1>3, <2>1, <3>1, <3>2, <3>3, <3>4 DEF StepHistory
  <2>6. CASE CompleteOp(w)
    <3> DEFINE new == [task[t] EXCEPT !.status = "completed"]
    <3>1. task' = [task EXCEPT ![t] = new] /\ run'.rev = run.rev
        BY <2>6 DEF CompleteOp, CompleteTask, MutateTask, Commit, RunInv, StoreInv, StoreTypeOK
    <3>2. task[t].receipt
        BY <2>1, <2>6 DEF CompleteOp, Finish, At, ExecInv, ExecutorKnows
    <3>3. new.token = task[t].token /\ new.receipt = task[t].receipt
        BY <2>2 DEF Task
    <3>4. task'[s] = IF s = t THEN new ELSE task[s]
        BY <1>1, <3>1
    <3> QED
        BY <1>1, <1>3, <2>1, <3>1, <3>2, <3>3, <3>4 DEF StepHistory
  <2> QED
      BY <1>6, <2>4, <2>5, <2>6
<1> QED
    BY <1>4, <1>5, <1>6, NextHistory, NextRecord

\* What a process knows stays true while it does nothing itself.
LEMMA KnowledgeStays ==
    ASSUME RunInv, ExecInv, Next, NEW p \in Processes,
           p \in Workers => ~Execute(p)
    PROVE  /\ local[p].pc = "execute" =>
                task'[local[p].msg].token = local[p].tok /\ executed'[local[p].msg] = 0
           /\ local[p].pc = "receipt" => executed'[local[p].msg] = 1
           /\ local[p].pc \in StepPCs /\ task[local[p].msg].receipt =>
                task'[local[p].msg].receipt
<1> DEFINE l == local[p]
<1>1. /\ Shape(l) /\ ExecutorKnows(l) /\ executed \in [Steps -> Nat]
    BY DEF RunInv, Shaped, RunTypeOK, ExecInv
<1>2. \A t \in Tasks : TaskKept(task[t], task'[t])
    BY NextRecord
<1>3. l.pc \in StepPCs => l.msg \in Steps /\ l.msg \in Tasks
    BY <1>1, TaskBasics DEF Shape
<1>4. l.pc = "execute" => l.tok # 0
    BY <1>1 DEF Shape, DeliveryPCs, Fences
<1>5. l.pc \in {"execute", "receipt"} => executed'[l.msg] = executed[l.msg]
  <2>1. SUFFICES ASSUME l.pc \in {"execute", "receipt"}
                 PROVE  executed'[l.msg] = executed[l.msg]
      OBVIOUS
  <2>2. CASE UNCHANGED executed
      BY <2>2
  <2>3. ASSUME NEW w \in Workers, Execute(w), local[w].pc = "execute",
               executed' = [executed EXCEPT ![local[w].msg] = 1]
        PROVE  executed'[l.msg] = executed[l.msg]
    <3>1. w # p /\ w \in Processes
        BY <2>3 DEF Processes
    <3>2. local[w].msg # l.msg
        BY <2>1, <2>3, <3>1, SoleExecutor
    <3> QED
        BY <1>1, <2>3, <3>2
  <2> QED
      BY <2>2, <2>3, NextHistory
<1> QED
    BY <1>1, <1>2, <1>3, <1>4, <1>5 DEF TaskKept, ExecutorKnows, StepPCs

\* Every process keeps knowing what it needs.
LEMMA ExecutorStep ==
    ASSUME RunInv, ExecInv, Next, NEW p \in Processes
    PROVE  ExecutorKnows(local[p])'
<1> DEFINE l == local[p]
           m == local'[p]
<1>1. /\ Shaped /\ Shape(l) /\ l \in Memory /\ local \in [Processes -> Memory]
      /\ ExecutorKnows(l) /\ executed \in [Steps -> Nat] /\ task \in [Tasks -> Task]
    BY DEF RunInv, Shaped, RunTypeOK, ExecInv, StoreInv, StoreTypeOK
<1>2. l.pc \in StepPCs => l.msg \in Steps /\ l.msg \in Tasks
    BY <1>1, TaskBasics DEF Shape
<1>3. CASE m.pc \notin ExecPCs
    BY <1>3 DEF ExecPCs, ExecutorKnows
<1>4. CASE m = l /\ (p \in Workers => ~Execute(p))
    BY <1>1, <1>4, KnowledgeStays DEF ExecutorKnows, StepPCs
<1>5. CASE p \in Workers /\ Claim(p)
  <2>1. CASE GrantOp(p)
    <3>1. /\ task' = [task EXCEPT ![l.msg] = [task[l.msg] EXCEPT !.token = l.tok]]
          /\ task[l.msg].token = 0 /\ l.pc = "claim" /\ executed' = executed
          /\ local' = [local EXCEPT ![p].pc = "execute"]
        BY <2>1 DEF GrantOp, ClaimExecution, Claim, At, RestSame, Goto
    <3>2. m.pc = "execute" /\ m.tok = l.tok /\ m.msg = l.msg
        BY <1>1, <3>1 DEF Memory
    <3>3. task'[l.msg].token = l.tok /\ executed[l.msg] = 0
      <4>1. l.msg \in Steps /\ l.msg \in Tasks /\ task[l.msg] \in Task
          BY <1>1, <1>2, <3>1 DEF StepPCs
      <4>2. StepHistory(l.msg)
          BY <4>1 DEF ExecInv
      <4> QED
          BY <1>1, <3>1, <4>1, <4>2 DEF StepHistory, Task
    <3> QED
        BY <3>1, <3>2, <3>3 DEF ExecutorKnows
  <2>2. CASE Resolve(p, ReceiptReply(p), "settle") /\ StoreSame
    <3>1. m.pc = "settle" /\ m.out = ReceiptReply(p) /\ m.msg = l.msg
        BY <1>1, <2>2 DEF Resolve, Memory
    <3>2. m.out = "ok" => task[l.msg].receipt
        BY <3>1 DEF ReceiptReply
    <3> QED
        BY <2>2, <3>1, <3>2 DEF ExecutorKnows, StoreSame, storeVars
  <2> QED
      BY <1>5, <2>1, <2>2 DEF Claim, GrantOp
<1>6. CASE p \in Workers /\ Execute(p)
  <2>1. executed'[l.msg] = 1 /\ l.pc = "execute"
    <3>1. l.pc = "execute" /\ l.msg \in Steps /\ executed[l.msg] = 0
        BY <1>1, <1>2, <1>6 DEF Execute, At, StepPCs, ExecutorKnows
    <3> QED
        BY <1>1, <1>6, <3>1 DEF Execute
  <2>2. CASE Resolve(p, "ok", "receipt")
    <3>1. m.pc = "receipt" /\ m.msg = l.msg
        BY <1>1, <2>2 DEF Resolve, Memory
    <3> QED
        BY <2>1, <3>1 DEF ExecutorKnows
  <2>3. ASSUME NEW r \in {"classified", "manual_review_required"}, Resolve(p, r, "settle")
        PROVE  ExecutorKnows(local[p])'
    <3>1. m.pc = "settle" /\ m.out = r
        BY <1>1, <2>3 DEF Resolve, Memory
    <3> QED
        BY <3>1 DEF ExecutorKnows
  <2> QED
      BY <1>6, <2>2, <2>3 DEF Execute
<1>7. CASE p \in Workers /\ KeepReceipt(p)
  <2>1. CASE StoreReceipt(l.msg, Owner(p), l.tok) /\ Goto(p, "settle")
    <3>1. l.msg \in Tasks /\ task[l.msg] \in Task
        BY <1>1, <1>2, <1>7 DEF KeepReceipt, At, StepPCs
    <3>2. task' = [task EXCEPT ![l.msg] = [task[l.msg] EXCEPT !.receipt = TRUE]]
        BY <2>1 DEF StoreReceipt
    <3>3. task'[l.msg].receipt
        BY <1>1, <3>1, <3>2 DEF Task
    <3>4. m.pc = "settle" /\ m.msg = l.msg
        BY <1>1, <2>1 DEF Goto, Memory
    <3> QED
        BY <3>3, <3>4 DEF ExecutorKnows
  <2>2. CASE Resolve(p, "manual_review_required", "settle")
    <3>1. m.pc = "settle" /\ m.out = "manual_review_required"
        BY <1>1, <2>2 DEF Resolve, Memory
    <3> QED
        BY <3>1 DEF ExecutorKnows
  <2> QED
      BY <1>7, <2>1, <2>2 DEF KeepReceipt
<1>8. CASE p \in Workers /\ Settle(p)
  <2>1. CASE Abandon(p)
      BY <1>1, <1>3, <2>1, AbandonMoves, IdleShape DEF ExecPCs
  <2> DEFINE out == IF pastDeadline /\ l.out # "classified" THEN "run.deadline" ELSE l.out
  <2>2. CASE Resolve(p, out, "finish") /\ StoreSame
    <3>1. m.pc = "finish" /\ m.out = out /\ m.msg = l.msg /\ l.pc = "settle"
        BY <1>1, <1>8, <2>2 DEF Resolve, Memory, Settle, At
    <3>2. out = "ok" => l.out = "ok"
        OBVIOUS
    <3>3. m.out = "ok" => task[l.msg].receipt
        BY <1>1, <3>1, <3>2 DEF ExecutorKnows
    <3> QED
        BY <2>2, <3>1, <3>3 DEF ExecutorKnows, StoreSame, storeVars
  <2> QED
      BY <1>8, <2>1, <2>2 DEF Settle
<1>9. CASE p \in Workers /\ Interrupt(p)
  <2>1. m.pc = "finish" /\ m.out = "manual_review_required"
      BY <1>1, <1>9 DEF Interrupt, Resolve, Memory
  <2> QED
      BY <2>1 DEF ExecutorKnows
<1>10. CASE Stall(p)
  <2>1. /\ m.pc = l.pc /\ m.out = l.out /\ m.msg = l.msg /\ m.tok = l.tok
        /\ UNCHANGED <<task, executed>>
      BY <1>1, <1>10 DEF Stall, Memory, StoreSame, storeVars
  <2> QED
      BY <1>1, <2>1 DEF ExecutorKnows
<1> QED
    BY <1>3, <1>4, <1>5, <1>6, <1>7, <1>8, <1>9, <1>10, NextExecutor

-----------------------------------------------------------------------------
LEMMA ExecInvInit == Init => ExecInv
<1> SUFFICES ASSUME Init PROVE ExecInv
    OBVIOUS
<1>1. \A p \in Processes : local[p] = Idle
    BY DEF Init
<1>2. Idle.msg = PlanningTaskID /\ Idle.tok = 0 /\ Idle.pc = "idle"
    BY DEF Idle
<1>3. TokensFresh
    BY <1>1, <1>2, TaskBasics DEF TokensFresh, Init, Bus!BusInit
<1>4. ASSUME NEW s \in Steps PROVE StepHistory(s)
  <2>1. executed[s] = 0 /\ task[s] = NoTask
      BY TaskBasics DEF Init, StoreInit
  <2>2. NoTask.token = 0 /\ ~NoTask.receipt /\ NoTask.status # "completed"
      BY DEF NoTask
  <2> QED
      BY <2>1, <2>2 DEF StepHistory
<1>5. \A p \in Processes : ExecutorKnows(local[p])
    BY <1>1, <1>2 DEF ExecutorKnows
<1> QED
    BY <1>3, <1>4, <1>5 DEF ExecInv

LEMMA ExecInvNext == RunInv /\ ExecInv /\ [Next]_vars => ExecInv'
<1> SUFFICES ASSUME RunInv, ExecInv, [Next]_vars PROVE ExecInv'
    OBVIOUS
<1>1. CASE UNCHANGED vars
    BY <1>1 DEF vars, ExecInv, TokensFresh, StepHistory, ExecutorKnows
<1>2. CASE Next
  <2>1. TokensFresh'
      BY <1>2, NextTokens DEF ExecInv
  <2>2. \A s \in Steps : StepHistory(s)'
      BY <1>2, HistoryStep
  <2>3. \A p \in Processes : ExecutorKnows(local[p])'
      BY <1>2, ExecutorStep
  <2> QED
      BY <2>1, <2>2, <2>3 DEF ExecInv
<1> QED
    BY <1>1, <1>2

LEMMA ExecInvariance == Spec => []ExecInv
BY ExecInvInit, ExecInvNext, RunInvariance, PTL DEF Spec

\* ProcessDelivery and executionReceipt: any number of workers, crashes,
\* stalls and redeliveries begin a step's business call at most once, and
\* only after the steps it depends on have completed.
THEOREM ExecutedOnce == Spec => []AtMostOnceExecution
<1>1. ExecInv => AtMostOnceExecution
  <2> SUFFICES ASSUME ExecInv, NEW s \in Steps
               PROVE  /\ executed[s] <= 1
                      /\ executed[s] = 1 => \A d \in plan[s] : task[d].status = "completed"
      BY DEF AtMostOnceExecution
  <2>1. StepHistory(s)
      BY DEF ExecInv
  <2>2. executed[s] <= 1
      BY <2>1 DEF StepHistory
  <2> QED
      BY <2>1, <2>2, Zenon DEF StepHistory
<1> QED
    BY <1>1, ExecInvariance, PTL

\* CompleteTask: a completed step was executed once and left its receipt.
THEOREM CompletedKeepsReceipt == Spec => []CompletedHasReceipt
<1>1. ExecInv => CompletedHasReceipt
    BY DEF ExecInv, StepHistory, CompletedHasReceipt
<1> QED
    BY <1>1, ExecInvariance, PTL

-----------------------------------------------------------------------------
(* A run keeps its contract: every step of the store, the bus and the      *)
(* processes is, under the refinement mapping of AgentRun, one decision of *)
(* RunContract or none.                                                    *)
(*                                                                         *)
(* The argument: rights are granted to unclaimed, open steps in the plan's *)
(* order, only claimed steps complete and only unclaimed ones are skipped, *)
(* and a reconciler that commits under the version it read commits the     *)
(* verdict on the outcomes as they still are.                              *)

\* What the store says of a step that no worker has had yet.
Unclaimed ==
    \A s \in Steps :
        /\ task[s].status \in {"absent", "pending_dependency", "queued"} => task[s].token = 0
        /\ run.rev = 1 => task[s].status # "absent"

\* What a reconciler knows: the version it read is not ahead, and while it is
\* the version of the run, the decision to close is right.
DeciderKnows(l) ==
    l.pc \in {"r_tasks", "r_commit"} =>
        /\ run.rev = 1 /\ l.ver <= run.version
        /\ l.pc = "r_commit" /\ l.dec.op = "close" /\ l.ver = run.version =>
             StepsIn(Finished) = Steps /\ l.dec.arg = Outcome

\* The inductive invariant, next to RunInv and ExecInv.
ContractInv == Unclaimed /\ \A p \in Processes : DeciderKnows(local[p])

-----------------------------------------------------------------------------
(* The version of the run.                                                 *)

\* The version only grows, a plan stays installed, and while the version is
\* the same so are the statuses and reasons of all tasks.
Versioned ==
    /\ run'.version >= run.version /\ run'.version \in Nat /\ run.version \in Nat
    /\ run.rev = 1 => run'.rev = 1
    /\ run'.version = run.version =>
         /\ run' = run
         /\ \A t \in Tasks : task'[t].status = task[t].status /\ task'[t].reason = task[t].reason

LEMMA CommitVersioned ==
    ASSUME StoreInv, NEW s, NEW k, Commit(s, k)
    PROVE  Versioned
<1>1. run \in [status : RunStatus, rev : {0, 1}, version : Nat]
    BY DEF StoreInv, StoreTypeOK
<1>2. run' = [run EXCEPT !.status = s, !.version = run.version + 1]
    BY DEF Commit
<1>3. run'.version = run.version + 1 /\ run'.rev = run.rev
    BY <1>1, <1>2
<1> QED
    BY <1>1, <1>3 DEF Versioned

LEMMA StoreVersioned ==
    ASSUME StoreInv, [StoreNext]_storeVars
    PROVE  Versioned
<1>1. /\ run \in [status : RunStatus, rev : {0, 1}, version : Nat]
      /\ task \in [Tasks -> Task]
    BY DEF StoreInv, StoreTypeOK
<1>2. \A v, t, new : MutateTask(v, t, new) => Versioned
    BY CommitVersioned DEF MutateTask
<1>3. ASSUME UNCHANGED run,
             \A t \in Tasks : task'[t].status = task[t].status /\ task'[t].reason = task[t].reason
      PROVE  Versioned
    BY <1>1, <1>3 DEF Versioned
<1>4. ASSUME NEW t \in Tasks, NEW new, UNCHANGED run, task' = [task EXCEPT ![t] = new],
             new.status = task[t].status, new.reason = task[t].reason
      PROVE  Versioned
    BY <1>1, <1>3, <1>4
<1>5. ASSUME NEW t \in Tasks, NEW w, NEW f,
             \/ ClaimExecution(t, w, f) \/ StoreReceipt(t, w, f)
             \/ QueueWaitElapses(t) \/ LeaseElapses(t)
      PROVE  Versioned
  <2>1. PICK new :
          /\ task' = [task EXCEPT ![t] = new] /\ UNCHANGED run
          /\ \/ new = [task[t] EXCEPT !.token = f] \/ new = [task[t] EXCEPT !.receipt = TRUE]
             \/ new = [task[t] EXCEPT !.waited = TRUE] \/ new = [task[t] EXCEPT !.live = FALSE]
      BY <1>5 DEF ClaimExecution, StoreReceipt, QueueWaitElapses, LeaseElapses
  <2>2. new.status = task[t].status /\ new.reason = task[t].reason
      BY <1>1, <2>1 DEF Task
  <2> QED
      BY <1>4, <2>1, <2>2
<1>6. ASSUME NEW w, NEW f, NEW p, CompletePlanning(run.version, w, f, p)
      PROVE  Versioned
  <2>1. run' = [run EXCEPT !.rev = 1, !.version = run.version + 1]
      BY <1>6 DEF CompletePlanning
  <2>2. run'.version = run.version + 1 /\ run'.rev = 1
      BY <1>1, <2>1
  <2> QED
      BY <1>1, <2>2 DEF Versioned
<1>7. CASE WorkerOp
  <2>1. ASSUME NEW t, NEW w, NEW f, NEW r,
               \/ LeaseTask(run.version, t, w, f) \/ StartTask(run.version, t, w, f)
               \/ FailTask(run.version, t, w, f, r) \/ CompleteTask(run.version, t, w, f)
        PROVE  Versioned
      BY <2>1, <1>2 DEF LeaseTask, StartTask, FailTask, CompleteTask
  <2>2. PICK t \in Tasks, w \in Owners, f \in Fences :
          \/ LeaseTask(run.version, t, w, f) \/ StartTask(run.version, t, w, f)
          \/ \E r : FailTask(run.version, t, w, f, r)
          \/ CompleteTask(run.version, t, w, f)
          \/ ClaimExecution(t, w, f) \/ StoreReceipt(t, w, f)
          \/ \E p : CompletePlanning(run.version, w, f, p)
      BY <1>7, Zenon DEF WorkerOp
  <2>3. CASE \/ LeaseTask(run.version, t, w, f) \/ StartTask(run.version, t, w, f)
             \/ \E r : FailTask(run.version, t, w, f, r)
             \/ CompleteTask(run.version, t, w, f)
      BY <2>1, <2>3, Zenon
  <2>4. CASE ClaimExecution(t, w, f) \/ StoreReceipt(t, w, f)
      BY <1>5, <2>4, Zenon
  <2>5. CASE \E p : CompletePlanning(run.version, w, f, p)
      BY <1>6, <2>5, Zenon
  <2> QED
      BY <2>2, <2>3, <2>4, <2>5, Zenon
<1>8. CASE ReconcileOp
  <2>1. ASSUME NEW t, NEW c,
               \/ SkipTask(run.version, t) \/ ExpireQueuedTask(run.version, t)
               \/ ExpireUnstartedTask(run.version, t) \/ MarkCapacityWaiting(run.version, t, c)
        PROVE  Versioned
      BY <2>1, <1>2 DEF SkipTask, ExpireQueuedTask, ExpireUnstartedTask, MarkCapacityWaiting
  <2>2. \A t, s : QueueTask(run.version, t) \/ Transition(run.version, s) => Versioned
      BY CommitVersioned DEF QueueTask, Transition
  <2>3. RecoverAdmission \/ StartPlanning \/ ExpirePlanning \/ Cancel => Versioned
    <3>1. SUFFICES ASSUME RecoverAdmission \/ StartPlanning \/ ExpirePlanning \/ Cancel
                   PROVE  Versioned
        OBVIOUS
    <3>2. PICK s, k : Commit(s, k)
        BY <3>1, Zenon DEF RecoverAdmission, Create, StartPlanning, ExpirePlanning, Cancel
    <3> QED
        BY <3>2, CommitVersioned
  <2> QED
      BY <1>8, <2>1, <2>2, <2>3 DEF ReconcileOp
<1>9. CASE TimePasses
  <2>1. CASE DeadlinePasses
      BY <1>3, <2>1 DEF DeadlinePasses
  <2> QED
      BY <1>5, <1>9, <2>1 DEF TimePasses
<1>10. CASE UNCHANGED storeVars
    BY <1>3, <1>10 DEF storeVars
<1> QED
    BY <1>7, <1>8, <1>9, <1>10 DEF StoreNext

-----------------------------------------------------------------------------
(* Unclaimed steps.                                                        *)

\* A step's record is replaced by one that is unclaimed only if it was.
LEMMA RewriteUnclaimed ==
    ASSUME StoreInv, Unclaimed, NEW t \in Tasks, NEW new, task' = [task EXCEPT ![t] = new],
           run'.rev = run.rev, new.status # "absent",
           t \in Steps /\ new.status \in {"pending_dependency", "queued"} =>
             task[t].status \in {"pending_dependency", "queued"} /\ new.token = task[t].token
    PROVE  Unclaimed'
<1>1. task \in [Tasks -> Task]
    BY DEF StoreInv, StoreTypeOK
<1>2. \A s \in Tasks : task'[s] = IF s = t THEN new ELSE task[s]
    BY <1>1
<1> QED
    BY <1>2, TaskBasics DEF Unclaimed

LEMMA NextUnclaimed ==
    ASSUME StoreInv, Unclaimed, [StoreNext]_storeVars
    PROVE  Unclaimed'
<1>1. /\ run \in [status : RunStatus, rev : {0, 1}, version : Nat]
      /\ task \in [Tasks -> Task]
    BY DEF StoreInv, StoreTypeOK
<1>2. ASSUME NEW t \in Tasks, NEW w, NEW f, NEW r,
             \/ LeaseTask(run.version, t, w, f) \/ StartTask(run.version, t, w, f)
             \/ FailTask(run.version, t, w, f, r) \/ CompleteTask(run.version, t, w, f)
             \/ SkipTask(run.version, t)
             \/ ExpireQueuedTask(run.version, t) \/ ExpireUnstartedTask(run.version, t)
             \/ MarkCapacityWaiting(run.version, t, r)
      PROVE  Unclaimed'
  <2>1. PICK new :
          /\ MutateTask(run.version, t, new)
          /\ \/ new = [task[t] EXCEPT !.status = "leased", !.owner = w, !.fence = f, !.live = TRUE]
             \/ new = [task[t] EXCEPT !.status = "running"]
             \/ new = [task[t] EXCEPT !.status = "failed", !.reason = r]
             \/ new = [task[t] EXCEPT !.status = "completed"]
             \/ new = [task[t] EXCEPT !.status = "skipped", !.reason = "dependency.failed"]
             \/ new = [task[t] EXCEPT !.status = "failed", !.reason = "queue.timeout"]
             \/ new = [task[t] EXCEPT !.reason = "run.deadline",
                         !.status = IF @ = "queued" THEN "failed" ELSE "skipped"]
             \/ task[t].status = "queued" /\ new = [task[t] EXCEPT !.queueReason = r]
      BY <1>2 DEF LeaseTask, StartTask, FailTask, CompleteTask, SkipTask, ExpireQueuedTask,
         ExpireUnstartedTask, MarkCapacityWaiting
  <2>2. /\ new.status # "absent" /\ new.token = task[t].token
        /\ new.status \in {"pending_dependency", "queued"} => task[t].status = "queued"
      BY <1>1, <2>1 DEF Task
  <2>3. task' = [task EXCEPT ![t] = new] /\ run'.rev = run.rev
      BY <1>1, <2>1 DEF MutateTask, Commit
  <2> QED
      BY <2>2, <2>3, RewriteUnclaimed
<1>3. ASSUME NEW t \in Tasks, NEW w, NEW f,
             \/ ClaimExecution(t, w, f) \/ StoreReceipt(t, w, f)
             \/ QueueWaitElapses(t) \/ LeaseElapses(t)
      PROVE  Unclaimed'
  <2>1. PICK new :
          /\ task' = [task EXCEPT ![t] = new] /\ UNCHANGED run
          /\ \/ task[t].status = "running" /\ new = [task[t] EXCEPT !.token = f]
             \/ task[t].status = "running" /\ new = [task[t] EXCEPT !.receipt = TRUE]
             \/ new = [task[t] EXCEPT !.waited = TRUE]
             \/ new = [task[t] EXCEPT !.live = FALSE]
          /\ task[t].status \in {"queued", "leased", "running"}
      BY <1>3 DEF ClaimExecution, StoreReceipt, QueueWaitElapses, LeaseElapses, MayExecute
  <2>2. /\ new.status = task[t].status
        /\ task[t].status \in {"pending_dependency", "queued"} => new.token = task[t].token
      BY <1>1, <2>1 DEF Task
  <2> QED
      BY <2>1, <2>2, RewriteUnclaimed
<1>4. ASSUME NEW t \in Steps, QueueTask(run.version, t) PROVE Unclaimed'
  <2> DEFINE new == [task[t] EXCEPT !.status = "queued"]
  <2>1. /\ task' = [task EXCEPT ![t] = new] /\ run'.rev = run.rev
        /\ task[t].status = "pending_dependency"
      BY <1>1, <1>4 DEF QueueTask, Commit
  <2>2. new.status = "queued" /\ new.token = task[t].token /\ t \in Tasks
      BY <1>1, TaskBasics DEF Task
  <2> QED
      BY <2>1, <2>2, RewriteUnclaimed
<1>5. CASE \E w, f, p : CompletePlanning(run.version, w, f, p)
  <2> DEFINE fresh == [NoTask EXCEPT !.status = "pending_dependency"]
  <2>1. \A s \in Steps : task'[s] = fresh
      BY <1>5, TaskBasics DEF CompletePlanning
  <2>2. fresh.token = 0 /\ fresh.status = "pending_dependency"
      BY DEF NoTask
  <2> HIDE DEF fresh
  <2> QED
      BY <2>1, <2>2 DEF Unclaimed
<1>6. CASE StartPlanning \/ ExpirePlanning
  <2>1. \A s \in Steps : task'[s] = task[s]
      BY <1>1, <1>6, TaskBasics DEF StartPlanning, ExpirePlanning
  <2>2. run'.rev = run.rev
      BY <1>1, <1>6 DEF StartPlanning, ExpirePlanning, Commit
  <2> QED
      BY <2>1, <2>2 DEF Unclaimed
<1>7. CASE RecoverAdmission \/ \E s \in ReconcileOutcomes : Transition(run.version, s)
  <2>1. UNCHANGED task /\ run'.rev = run.rev
      BY <1>1, <1>7 DEF RecoverAdmission, Create, Transition, Commit
  <2> QED
      BY <2>1 DEF Unclaimed
<1>8. CASE Cancel
  <2>1. run'.rev = run.rev
      BY <1>1, <1>8 DEF Cancel, Commit
  <2>2. ASSUME NEW s \in Steps
        PROVE  /\ task'[s].token = task[s].token
               /\ task'[s].status \in {"absent", "pending_dependency", "queued"} =>
                    task[s].status = "absent" /\ task'[s].status = "absent"
      BY <1>1, <1>8, TaskBasics DEF Cancel, Unfinished, Finished, Task, TaskStatus
  <2> QED
      BY <2>1, <2>2 DEF Unclaimed
<1>9. CASE UNCHANGED <<run, task>>
    BY <1>9 DEF Unclaimed
<1>10. CASE WorkerOp
    BY <1>2, <1>3, <1>5, <1>10 DEF WorkerOp
<1>11. CASE ReconcileOp
    BY <1>2, <1>4, <1>6, <1>7, <1>8, <1>11, TaskBasics DEF ReconcileOp
<1>12. CASE TimePasses
    BY <1>3, <1>9, <1>12 DEF TimePasses, DeadlinePasses
<1> QED
    BY <1>9, <1>10, <1>11, <1>12 DEF StoreNext, storeVars

-----------------------------------------------------------------------------
(* Decisions to close.                                                     *)

\* The outcome is a matter of statuses and reasons.
LEMMA OutcomeStays ==
    ASSUME \A t \in Tasks : task'[t].status = task[t].status /\ task'[t].reason = task[t].reason
    PROVE  Outcome' = Outcome /\ StepsIn(Finished)' = StepsIn(Finished)
<1>1. \A s \in Steps : task'[s].status = task[s].status /\ task'[s].reason = task[s].reason
    BY TaskBasics
<1>2. /\ StepsIn({"failed"})' = StepsIn({"failed"})
      /\ StepsIn({"completed"})' = StepsIn({"completed"})
      /\ StepsIn({"failed", "skipped", "cancelled"})' = StepsIn({"failed", "skipped", "cancelled"})
      /\ StepsIn(Finished)' = StepsIn(Finished)
    BY <1>1 DEF StepsIn, Finished
<1>3. (\E s \in StepsIn({"failed"}) : task[s].reason = "manual_review_required")' =
      (\E s \in StepsIn({"failed"}) : task[s].reason = "manual_review_required")
    BY <1>1 DEF StepsIn
<1> QED
    BY <1>2, <1>3 DEF Outcome

\* Only ReconcilePlan's own reads make a process a decider.
LEMMA DeciderMover ==
    ASSUME Shaped, Next, NEW p \in Processes, local'[p] # local[p],
           local'[p].pc \in {"r_tasks", "r_commit"}
    PROVE  ReconcileRead(p) \/ ReconcileTasks(p)
<1>1. /\ local \in [Processes -> Memory] /\ \A w \in Workers : w \in Processes
      /\ local[p] \in Memory /\ \A q \in Services : q \in Processes
    BY DEF Shaped, RunTypeOK, Processes
<1>2. ASSUME Dequeue(p), p \in Workers PROVE FALSE
    BY <1>2, DequeueMoves
<1>3. ASSUME Moves(p) PROVE local[p].pc \in {"r_read", "r_tasks"}
    BY <1>3 DEF Moves, Follows
<1>4. ASSUME p \in Workers, WorkerStep(p) \/ Interrupt(p) \/ Refuse(p) \/ Stall(p) PROVE FALSE
  <2>1. Moves(p)
      BY <1>2, <1>4, DeliveryMoves, StepMoves, PlanningMoves, FaultMoves, <1>1 DEF WorkerStep
  <2>2. local[p].pc \notin {"idle"} \cup DeliveryPCs
      BY <1>3, <2>1 DEF DeliveryPCs
  <2>3. ~WorkerStep(p)
      BY <2>2 DEF WorkerStep, DeliveryPCs, At, Dequeue, AcquireLease, Accept, DeferDelivery, AckDelivery,
         CheckDelivery, TakeLease, Start, Claim, Execute, KeepReceipt, Settle, Finish,
         CheckPlanning, LeasePlanning, BeginPlanning, Build, CommitPlan, FailPlanning,
         CloseFailedPlanning
  <2>4. ~(Interrupt(p) \/ Refuse(p) \/ Stall(p))
      BY <2>2 DEF DeliveryPCs, At, Interrupt, Refuse, Stall
  <2> QED
      BY <1>4, <2>3, <2>4
<1>5. ASSUME \/ RecoverStart(p) \/ RecoverExpire(p) \/ ReconcileCommit(p) \/ Scan(p)
             \/ DispatchRead(p) \/ DispatchEnqueue(p) \/ DispatchAdvance(p) \/ Submit(p)
      PROVE  FALSE
  <2>1. Moves(p)
      BY <1>5, RecoverMoves, DispatchMoves
  <2>2. local[p].pc \in {"r_read", "r_tasks"}
      BY <1>3, <2>1
  <2> QED
      BY <1>5, <2>2 DEF At, RecoverStart, RecoverExpire, ReconcileCommit, Scan, Submit,
         DispatchRead, DispatchEnqueue, DispatchAdvance
<1>6. ~Crash(p)
    BY AbandonMoves, IdleShape DEF Crash
<1> QED
    BY <1>4, <1>5, <1>6, NextMover DEF RecoverStep

\* A reconciler keeps knowing what it needs.
LEMMA DeciderStep ==
    ASSUME RunInv, ContractInv, Next, NEW p \in Processes
    PROVE  DeciderKnows(local[p])'
<1> DEFINE l == local[p]
           m == local'[p]
<1>1. /\ Shaped /\ l \in Memory /\ l.ver \in Nat /\ local \in [Processes -> Memory]
      /\ DeciderKnows(l) /\ run.version \in Nat
    BY DEF RunInv, Shaped, RunTypeOK, ContractInv, StoreTypeOK, Memory
<1>2. Versioned
    BY NextShaped, StoreVersioned DEF RunInv
<1>3. run'.version = run.version => Outcome' = Outcome /\ StepsIn(Finished)' = StepsIn(Finished)
    BY <1>2, OutcomeStays DEF Versioned
<1>4. CASE m.pc \notin {"r_tasks", "r_commit"}
    BY <1>4 DEF DeciderKnows
<1>5. CASE m = l /\ l.pc \in {"r_tasks", "r_commit"}
  <2>1. run'.rev = 1 /\ l.ver <= run'.version
      BY <1>1, <1>2, <1>5 DEF DeciderKnows, Versioned
  <2>2. l.ver = run'.version => run'.version = run.version
      BY <1>1, <1>2, <1>5 DEF DeciderKnows, Versioned
  <2> QED
      BY <1>1, <1>3, <1>5, <2>1, <2>2 DEF DeciderKnows
<1>6. CASE m # l /\ m.pc \in {"r_tasks", "r_commit"}
  <2>1. CASE ReconcileRead(p)
    <3>1. ~Return(p) /\ ~Goto(p, "d_read")
      <4>1. ~Return(p)
          BY <1>1, <1>6, ReturnMoves, IdleShape DEF Memory
      <4> QED
          BY <1>1, <1>6, <4>1 DEF Goto, Memory
    <3>2. /\ run.rev = 1 /\ UNCHANGED run
          /\ local' = [local EXCEPT ![p].pc = "r_tasks", ![p].ver = run.version]
        BY <2>1, <3>1 DEF ReconcileRead, StoreSame, storeVars
    <3>3. m.pc = "r_tasks" /\ m.ver = run.version
        BY <1>1, <3>2 DEF Memory
    <3> QED
        BY <1>1, <3>2, <3>3 DEF DeciderKnows
  <2>2. CASE ReconcileTasks(p)
    <3>1. PICK d \in Decisions :
            local' = [local EXCEPT ![p].dec = d,
                                   ![p].ver = IF d = NoDecision THEN 0 ELSE @,
                                   ![p].pc = IF d = NoDecision THEN "d_read" ELSE "r_commit"]
        BY <2>2 DEF ReconcileTasks
    <3>2. d # NoDecision /\ m.pc = "r_commit" /\ m.dec = d /\ m.ver = l.ver
        BY <1>1, <1>6, <3>1 DEF Memory
    <3>3. UNCHANGED run /\ run'.rev = 1 /\ l.ver <= run'.version
        BY <1>1, <2>2 DEF ReconcileTasks, At, DeciderKnows, StoreSame, storeVars
    <3>4. d.op = "close" => StepsIn(Finished) = Steps /\ d.arg = Outcome
        BY <3>1 DEF Decisions, Decide, NoDecision
    <3> QED
        BY <1>3, <3>2, <3>3, <3>4 DEF DeciderKnows
  <2> QED
      BY <1>1, <1>6, <2>1, <2>2, DeciderMover
<1> QED
    BY <1>4, <1>5, <1>6

-----------------------------------------------------------------------------
LEMMA ContractInvInit == Init => ContractInv
<1> SUFFICES ASSUME Init PROVE ContractInv
    OBVIOUS
<1>1. \A s \in Steps : task[s] = NoTask /\ NoTask.token = 0
    BY TaskBasics DEF Init, StoreInit, NoTask
<1>2. run.rev = 0
    BY DEF Init, StoreInit
<1>3. \A p \in Processes : local[p].pc = "idle"
    BY IdleShape DEF Init
<1> QED
    BY <1>1, <1>2, <1>3 DEF ContractInv, Unclaimed, DeciderKnows

LEMMA ContractInvNext == RunInv /\ ContractInv /\ [Next]_vars => ContractInv'
<1> SUFFICES ASSUME RunInv, ContractInv, [Next]_vars PROVE ContractInv'
    OBVIOUS
<1>1. CASE UNCHANGED vars
    BY <1>1 DEF vars, ContractInv, Unclaimed, DeciderKnows, StepsIn, Outcome
<1>2. CASE Next
  <2>1. Unclaimed'
      BY <1>2, NextShaped, NextUnclaimed DEF RunInv, ContractInv
  <2>2. \A p \in Processes : DeciderKnows(local[p])'
      BY <1>2, DeciderStep
  <2> QED
      BY <2>1, <2>2 DEF ContractInv
<1> QED
    BY <1>1, <1>2

LEMMA ContractInvariance == Spec => [](RunInv /\ ExecInv /\ ContractInv)
BY ContractInvInit, ContractInvNext, RunInvariance, ExecInvariance, PTL DEF Spec

-----------------------------------------------------------------------------
(* The contract's view of the run.                                         *)

ViewStatus == IF Terminal THEN run.status ELSE "open"
Granted == {s \in Steps : task[s].token # 0}

\* What the record r says was decided of its step.
Judge(r) ==
    CASE r.status \notin Finished -> "open"
      [] r.status = "failed" /\ r.reason = "manual_review_required" -> "review"
      [] OTHER -> r.status

Results == [s \in Steps |-> Judge(task[s])]

ContractStep == Contract!ContractNext \/ UNCHANGED Contract!contractVars

\* The refinement mapping in these terms.
LEMMA ViewOutcome ==
    /\ [s \in Steps |-> StepOutcome(s)] = Results
    /\ [s \in Steps |-> StepOutcome(s)]' = Results'
BY DEF StepOutcome, Results, Judge

LEMMA SameView ==
    ASSUME ViewStatus' = ViewStatus, (run'.rev = 1) = (run.rev = 1), plan' = plan,
           Granted' = Granted, Results' = Results
    PROVE  ContractStep
BY ViewOutcome DEF ContractStep, Contract!contractVars, ViewStatus, Granted

\* A step's record is replaced.
LEMMA RewriteView ==
    ASSUME StoreInv, NEW t \in Tasks, NEW new, task' = [task EXCEPT ![t] = new]
    PROVE  /\ t \notin Steps => Granted' = Granted /\ Results' = Results
           /\ new.token = task[t].token => Granted' = Granted
           /\ Judge(new) = Judge(task[t]) => Results' = Results
           /\ t \in Steps => Results' = [Results EXCEPT ![t] = Judge(new)]
<1>1. /\ task \in [Tasks -> Task]
      /\ \A s \in Steps : task'[s] = IF s = t THEN new ELSE task[s]
    BY TaskBasics DEF StoreInv, StoreTypeOK
<1>2. t \notin Steps => Granted' = Granted /\ Results' = Results
    BY <1>1 DEF Granted, Results
<1>3. new.token = task[t].token => Granted' = Granted
    BY <1>1 DEF Granted
<1>4. Judge(new) = Judge(task[t]) => Results' = Results
    BY <1>1 DEF Results
<1>5. t \in Steps => Results' = [Results EXCEPT ![t] = Judge(new)]
  <2>1. ASSUME NEW F, NEW G, F = [s \in Steps |-> Judge(task[s])],
               G = [s \in Steps |-> Judge(task'[s])], t \in Steps
        PROVE  G = [F EXCEPT ![t] = Judge(new)]
    <3> DEFINE j(s) == Judge(task[s])
               k(s) == Judge(task'[s])
    <3>1. k(t) = Judge(new) /\ \A s \in Steps : s # t => k(s) = j(s)
        BY <1>1, <2>1
    <3>2. F = [s \in Steps |-> j(s)] /\ G = [s \in Steps |-> k(s)]
        BY <2>1
    <3> HIDE DEF j, k
    <3> QED
        BY <2>1, <3>1, <3>2
  <2> QED
      BY <2>1 DEF Results
<1> QED
    BY <1>2, <1>3, <1>4, <1>5

\* mutateTask leaves the step open or decides its outcome.
LEMMA MutateView ==
    ASSUME StoreInv, NEW t \in Tasks, NEW new, MutateTask(run.version, t, new),
           task[t].status \notin Finished, new.token = task[t].token,
           new.status \in TaskStatus \ {"cancelled"},
           new.status = "completed" => task[t].token # 0,
           new.status = "skipped" => task[t].token = 0
    PROVE  ContractStep
<1>1. /\ run \in [status : RunStatus, rev : {0, 1}, version : Nat]
      /\ task' = [task EXCEPT ![t] = new] /\ plan' = plan
      /\ Open /\ (t \in Steps => run.rev = 1)
      /\ run' = [run EXCEPT !.status = run.status, !.version = run.version + 1]
    BY TaskBasics DEF MutateTask, Commit, Revision, StoreInv, StoreTypeOK
<1>2. run'.status = run.status /\ run'.rev = run.rev
    BY <1>1
<1>3. ViewStatus' = ViewStatus /\ ViewStatus = "open" /\ Granted' = Granted
  <2>1. run.status \notin RunTerminal
      BY <1>1 DEF Open, RunOpen, RunTerminal
  <2> QED
      BY <1>1, <1>2, <2>1, RewriteView DEF ViewStatus, Terminal
<1>4. CASE t \notin Steps \/ new.status \notin Finished
  <2>1. new.status \notin Finished => Judge(new) = "open" /\ Judge(task[t]) = "open"
      BY <1>4 DEF Judge, Finished
  <2>2. Results' = Results
      BY <1>1, <1>4, <2>1, RewriteView
  <2> QED
      BY <1>1, <1>2, <1>3, <2>2, SameView
<1>5. CASE t \in Steps /\ new.status \in Finished
  <2> DEFINE o == Judge(new)
  <2>1. o \in Contract!Outcomes \ {"cancelled"}
      BY <1>5 DEF Judge, Finished, Contract!Outcomes
  <2>2. Results[t] = "open"
      BY <1>5 DEF Results, Judge, Finished
  <2>3. Results' = [Results EXCEPT ![t] = o]
      BY <1>1, <1>5, RewriteView
  <2>4. (o = "completed" => t \in Granted) /\ (o = "skipped" => t \notin Granted)
      BY <1>5 DEF Judge, Granted
  <2>5. Contract!Decide(t, o)
    <3> HIDE DEF o
    <3> QED
        BY <1>1, <1>2, <1>3, <1>5, <2>2, <2>3, <2>4, ViewOutcome
           DEF Contract!Decide, ViewStatus, Granted
  <2> QED
      BY <1>5, <2>1, <2>5 DEF ContractStep, Contract!ContractNext
<1> QED
    BY <1>4, <1>5

\* The transactions on one task that go through mutateTask.
LEMMA TaskOpView ==
    ASSUME StoreInv, Unclaimed, NEW t \in Tasks, NEW w, NEW f, NEW r,
           \/ LeaseTask(run.version, t, w, f) \/ StartTask(run.version, t, w, f)
           \/ FailTask(run.version, t, w, f, r)
           \/ CompleteTask(run.version, t, w, f) /\ task[t].token # 0
           \/ MarkCapacityWaiting(run.version, t, r)
           \/ t \in Steps /\ \/ SkipTask(run.version, t) \/ ExpireQueuedTask(run.version, t)
                             \/ ExpireUnstartedTask(run.version, t)
    PROVE  ContractStep
<1>1. task[t] \in Task
    BY DEF StoreInv, StoreTypeOK
<1>2. t \in Steps /\ task[t].status \in {"queued", "pending_dependency"} => task[t].token = 0
    BY DEF Unclaimed
<1>3. PICK new :
        /\ MutateTask(run.version, t, new)
        /\ \/ new = [task[t] EXCEPT !.status = "leased", !.owner = w, !.fence = f, !.live = TRUE]
           \/ new = [task[t] EXCEPT !.status = "running"]
           \/ new = [task[t] EXCEPT !.status = "failed", !.reason = r]
           \/ new = [task[t] EXCEPT !.status = "completed"] /\ task[t].token # 0
           \/ task[t].status = "queued" /\ new = [task[t] EXCEPT !.queueReason = r]
           \/ /\ t \in Steps /\ task[t].status = "pending_dependency"
              /\ new = [task[t] EXCEPT !.status = "skipped", !.reason = "dependency.failed"]
           \/ new = [task[t] EXCEPT !.status = "failed", !.reason = "queue.timeout"]
           \/ /\ t \in Steps
              /\ new = [task[t] EXCEPT !.reason = "run.deadline",
                          !.status = IF @ = "queued" THEN "failed" ELSE "skipped"]
              /\ task[t].status \in {"queued", "pending_dependency"}
        /\ task[t].status \in {"pending_dependency", "queued", "leased", "running"}
    BY DEF LeaseTask, Leasable, StartTask, FailTask, CompleteTask, SkipTask, ExpireQueuedTask,
       ExpireUnstartedTask, MarkCapacityWaiting
<1>4. /\ new.token = task[t].token /\ new.status \in TaskStatus \ {"cancelled"}
      /\ new.status = "completed" => task[t].token # 0
      /\ new.status = "skipped" => task[t].token = 0
    BY <1>1, <1>2, <1>3 DEF Task, TaskStatus, Finished
<1>5. task[t].status \notin Finished
    BY <1>3 DEF Finished
<1> QED
    BY <1>3, <1>4, <1>5, MutateView

\* What a claim, a receipt and the passing of time do to one task.
LEMMA TouchView ==
    ASSUME StoreInv, Unclaimed, NEW t \in Tasks, NEW w, NEW f,
           \/ StoreReceipt(t, w, f) \/ QueueWaitElapses(t) \/ LeaseElapses(t)
           \/ t \in Steps /\ ClaimExecution(t, w, f) /\ f # 0
    PROVE  ContractStep
<1>1. /\ run \in [status : RunStatus, rev : {0, 1}, version : Nat]
      /\ task \in [Tasks -> Task] /\ plan \in [Steps -> SUBSET Steps]
    BY DEF StoreInv, StoreTypeOK
<1>2. UNCHANGED <<run, plan>> /\ ViewStatus' = ViewStatus
    BY DEF StoreReceipt, QueueWaitElapses, LeaseElapses, ClaimExecution, ViewStatus, Terminal
<1>3. CASE StoreReceipt(t, w, f) \/ QueueWaitElapses(t) \/ LeaseElapses(t)
  <2>1. PICK new :
          /\ task' = [task EXCEPT ![t] = new]
          /\ \/ new = [task[t] EXCEPT !.receipt = TRUE] \/ new = [task[t] EXCEPT !.waited = TRUE]
             \/ new = [task[t] EXCEPT !.live = FALSE]
      BY <1>3 DEF StoreReceipt, QueueWaitElapses, LeaseElapses
  <2>2. new.token = task[t].token /\ new.status = task[t].status /\ new.reason = task[t].reason
      BY <1>1, <2>1 DEF Task
  <2>3. Granted' = Granted /\ Results' = Results
      BY <2>1, <2>2, RewriteView DEF Judge
  <2> QED
      BY <1>2, <2>3, SameView
<1>4. CASE t \in Steps /\ ClaimExecution(t, w, f) /\ f # 0
  <2> DEFINE new == [task[t] EXCEPT !.token = f]
  <2>1. /\ task' = [task EXCEPT ![t] = new] /\ Open /\ task[t].token = 0
        /\ task[t].status = "running" /\ run.rev = 1
      BY <1>4, TaskBasics DEF ClaimExecution, MayExecute, Revision
  <2>2. new.token = f /\ new.status = task[t].status /\ new.reason = task[t].reason
      BY <1>1 DEF Task
  <2>3. \A s \in Steps : task'[s] = IF s = t THEN new ELSE task[s]
      BY <1>1, <2>1, TaskBasics
  <2> HIDE DEF new
  <2>4. Results' = Results
      BY <2>1, <2>2, RewriteView DEF Judge
  <2>5. Granted' = Granted \cup {t} /\ t \notin Granted
      BY <1>4, <2>1, <2>2, <2>3 DEF Granted
  <2>6. Results[t] = "open"
      BY <1>4, <2>1 DEF Results, Judge, Finished
  <2>7. \A d \in plan[t] : Results[d] = "completed"
    <3>1. \A d \in plan[t] : d \in Steps /\ task[d].status = "completed"
        BY <1>1, <1>4, <2>1 DEF StoreInv, QueuedAfterDependencies
    <3> QED
        BY <3>1 DEF Results, Judge, Finished
  <2>8. ViewStatus = "open"
      BY <2>1 DEF ViewStatus, Terminal, Open, RunOpen, RunTerminal
  <2>9. Contract!Grant(t)
      BY <1>2, <2>1, <2>4, <2>5, <2>6, <2>7, <2>8, ViewOutcome
         DEF Contract!Grant, ViewStatus, Granted
  <2> QED
      BY <1>4, <2>9 DEF ContractStep, Contract!ContractNext
<1> QED
    BY <1>3, <1>4

\* Planning, admission, QueueTask and Cancel.
LEMMA RunOpView ==
    ASSUME StoreInv, Unclaimed,
           \/ RecoverAdmission \/ StartPlanning \/ ExpirePlanning \/ Cancel \/ DeadlinePasses
           \/ \E t \in Steps : QueueTask(run.version, t)
           \/ \E w, f : \E p \in Plans : CompletePlanning(run.version, w, f, p)
    PROVE  ContractStep
<1>1. /\ run \in [status : RunStatus, rev : {0, 1}, version : Nat]
      /\ task \in [Tasks -> Task]
      /\ run.rev = 0 => \A s \in Steps : task[s] = NoTask
    BY DEF StoreInv, StoreTypeOK, NothingBeforePlanning
<1>2. ASSUME NEW s, NEW k, Commit(s, k)
      PROVE  run'.status = s /\ run'.rev = run.rev
    BY <1>1, <1>2 DEF Commit
<1>3. ASSUME \A s \in Steps : task'[s] = task[s] PROVE Granted' = Granted /\ Results' = Results
  <2>1. Granted' = Granted
      BY <1>3 DEF Granted
  <2>2. Results' = Results
      BY <1>3 DEF Results
  <2> QED
      BY <2>1, <2>2
<1>4. NoTask.token = 0 /\ NoTask.status = "absent" /\ Judge(NoTask) = "open"
    BY DEF NoTask, Judge, Finished
\* The run fails before it has a plan.
<1>5. ASSUME run.rev = 0, run'.rev = 0, ~Terminal, run'.status = "failed", plan' = plan,
             \A s \in Steps : task'[s] = task[s]
      PROVE  ContractStep
  <2>1. ViewStatus = "open" /\ ViewStatus' = "failed"
      BY <1>5 DEF ViewStatus, Terminal, RunTerminal
  <2>2. Contract!GiveUp
      BY <1>3, <1>5, <2>1, ViewOutcome DEF Contract!GiveUp, ViewStatus, Granted
  <2> QED
      BY <2>2 DEF ContractStep, Contract!ContractNext
<1>6. ASSUME run'.rev = run.rev, ~Terminal, run'.status \notin RunTerminal, plan' = plan,
             Granted' = Granted, Results' = Results
      PROVE  ContractStep
  <2>1. ViewStatus' = ViewStatus
      BY <1>6 DEF ViewStatus, Terminal
  <2> QED
      BY <1>6, <2>1, SameView
<1>7. CASE RecoverAdmission
  <2>1. /\ run.status = "absent" /\ plan' = plan /\ \A s \in Steps : task'[s] = task[s]
        /\ run'.status \in {"accepted", "failed"} /\ run'.rev = run.rev
      BY <1>2, <1>7 DEF RecoverAdmission, Create
  <2>2. run.rev = 0 /\ ~Terminal
      BY <2>1 DEF StoreInv, NothingBeforePlanning, Terminal, RunTerminal
  <2> QED
      BY <1>3, <1>5, <1>6, <2>1, <2>2 DEF RunTerminal
<1>8. CASE StartPlanning
  <2>1. /\ run.status = "accepted" /\ plan' = plan /\ \A s \in Steps : task'[s] = task[s]
        /\ run'.status = "planning" /\ run'.rev = run.rev
      BY <1>1, <1>2, <1>8, TaskBasics DEF StartPlanning
  <2> QED
      BY <1>3, <1>6, <2>1 DEF Terminal, RunTerminal
<1>9. CASE ExpirePlanning
  <2>1. /\ run.status \in {"accepted", "planning"} /\ run.rev = 0 /\ plan' = plan
        /\ \A s \in Steps : task'[s] = task[s]
      BY <1>1, <1>9, TaskBasics DEF ExpirePlanning
  <2>2. run'.status = "failed" /\ run'.rev = run.rev
      BY <1>2, <1>9 DEF ExpirePlanning
  <2> QED
      BY <1>5, <2>1, <2>2 DEF Terminal, RunTerminal
<1>10. CASE DeadlinePasses
  <2>1. ViewStatus' = ViewStatus /\ UNCHANGED <<run, task, plan>>
      BY <1>10 DEF DeadlinePasses, ViewStatus, Terminal
  <2> QED
      BY <1>3, <2>1, SameView
<1>11. CASE \E t \in Steps : QueueTask(run.version, t)
  <2>1. PICK t \in Steps : QueueTask(run.version, t)
      BY <1>11
  <2> DEFINE new == [task[t] EXCEPT !.status = "queued"]
  <2>2. /\ task' = [task EXCEPT ![t] = new] /\ task[t].status = "pending_dependency"
        /\ Open /\ plan' = plan /\ run'.status = "running" /\ run'.rev = run.rev
      BY <1>1, <1>2, <2>1 DEF QueueTask
  <2>3. new.token = task[t].token /\ new.status = "queued" /\ t \in Tasks
      BY <1>1, TaskBasics DEF Task
  <2> HIDE DEF new
  <2>4. Granted' = Granted /\ Results' = Results
      BY <2>2, <2>3, RewriteView DEF Judge, Finished
  <2> QED
      BY <1>6, <2>2, <2>4 DEF Open, RunOpen, Terminal, RunTerminal
<1>12. CASE \E w, f : \E p \in Plans : CompletePlanning(run.version, w, f, p)
  <2> DEFINE fresh == [NoTask EXCEPT !.status = "pending_dependency"]
  <2>1. /\ run.rev = 0 /\ run.status = "planning" /\ plan' \in Plans
        /\ \A s \in Steps : task'[s] = fresh
        /\ run' = [run EXCEPT !.rev = 1, !.version = run.version + 1]
      BY <1>12, TaskBasics DEF CompletePlanning
  <2>2. fresh.token = 0 /\ fresh.status = "pending_dependency"
      BY DEF NoTask
  <2> HIDE DEF fresh
  <2>3. Judge(fresh) = "open"
      BY <2>2 DEF Judge, Finished
  <2>4. Granted' = Granted
      BY <1>1, <1>4, <2>1, <2>2 DEF Granted
  <2>5. Results' = Results
    <3>1. \A s \in Steps : Judge(task'[s]) = Judge(task[s])
        BY <1>1, <1>4, <2>1, <2>3
    <3> QED
        BY <3>1 DEF Results
  <2>6. run'.rev = 1 /\ run'.status = "planning"
      BY <1>1, <2>1
  <2>7. ViewStatus = "open" /\ ViewStatus' = "open"
      BY <2>1, <2>6 DEF ViewStatus, Terminal, RunTerminal
  <2>8. plan' \in [Steps -> SUBSET Steps]
      BY <2>1, StoreAssumption
  <2>9. Contract!FixPlan
      BY <2>1, <2>4, <2>5, <2>6, <2>7, <2>8, ViewOutcome
         DEF Contract!FixPlan, ViewStatus, Granted
  <2> QED
      BY <2>9 DEF ContractStep, Contract!ContractNext
<1>13. CASE Cancel
  <2>1. Open /\ plan' = plan /\ run'.status = "cancelled" /\ run'.rev = run.rev
      BY <1>2, <1>13 DEF Cancel
  <2>2. ViewStatus = "open" /\ ViewStatus' = "cancelled"
      BY <2>1 DEF ViewStatus, Terminal, RunTerminal, Open, RunOpen
  <2>3. ASSUME NEW s \in Steps
        PROVE  /\ task'[s].token = task[s].token
               /\ Judge(task'[s]) = IF run.rev = 1 /\ Judge(task[s]) = "open"
                                    THEN "cancelled" ELSE Judge(task[s])
    <3>1. s \in Tasks /\ task[s] \in Task
        BY <1>1, TaskBasics
    <3>2. CASE s \in Unfinished
      <4>1. /\ task'[s].status = "cancelled" /\ task'[s].token = task[s].token
            /\ task[s].status \notin Finished \cup {"absent"}
          BY <1>13, <3>1, <3>2 DEF Cancel, Task, Unfinished
      <4>2. run.rev = 1
          BY <1>1, <1>4, <4>1
      <4> QED
          BY <4>1, <4>2 DEF Judge, Finished
    <3>3. CASE s \notin Unfinished
      <4>1. task'[s] = task[s] /\ task[s].status \in Finished \cup {"absent"}
          BY <1>13, <3>1, <3>3 DEF Cancel, Unfinished
      <4>2. run.rev = 1 => task[s].status # "absent"
          BY DEF Unclaimed
      <4> QED
          BY <4>1, <4>2 DEF Judge, Finished
    <3> QED
        BY <3>2, <3>3
  <2>4. Granted' = Granted
      BY <2>3 DEF Granted
  <2>5. Results' = [s \in Steps |-> IF run.rev = 1 /\ Results[s] = "open"
                                    THEN "cancelled" ELSE Results[s]]
      BY <2>3 DEF Results
  <2>6. Contract!Stop
      BY <2>1, <2>2, <2>4, <2>5, ViewOutcome DEF Contract!Stop, ViewStatus, Granted
  <2> QED
      BY <2>6 DEF ContractStep, Contract!ContractNext
<1> QED
    BY <1>7, <1>8, <1>9, <1>10, <1>11, <1>12, <1>13

\* What the outcomes add up to is what the contract asks for.
LEMMA OutcomeIsVerdict ==
    ASSUME StepsIn(Finished) = Steps
    PROVE  Outcome = Contract!Verdict /\ \A s \in Steps : Results[s] # "open"
<1>1. \A s \in Steps : task[s].status \in Finished
    BY DEF StepsIn
<1>2. \A s \in Steps : Results[s] = Judge(task[s])
    BY DEF Results
<1> DEFINE With(O) == {s \in Steps : Results[s] \in O}
           failed == StepsIn({"failed"})
           bad == StepsIn({"failed", "skipped", "cancelled"})
<1>3. With({"completed"}) = StepsIn({"completed"})
    BY <1>1, <1>2 DEF StepsIn, Judge, Finished
<1>4. With({"review"}) # {} <=> \E s \in failed : task[s].reason = "manual_review_required"
    BY <1>1, <1>2 DEF StepsIn, Judge, Finished
<1>5. bad = {} <=> StepsIn({"completed"}) = Steps
    BY <1>1 DEF StepsIn, Finished
<1>6. (\E s \in failed : task[s].reason = "manual_review_required") => bad # {}
    BY DEF StepsIn
<1>7. Contract!Verdict =
        CASE With({"review"}) # {} -> "blocked"
          [] With({"completed"}) = Steps -> "completed"
          [] OTHER -> IF With({"completed"}) # {} THEN "partial" ELSE "failed"
    BY ViewOutcome DEF Contract!Verdict
<1>8. Outcome =
        CASE \E s \in failed : task[s].reason = "manual_review_required" -> "blocked"
          [] bad = {} -> "completed"
          [] OTHER -> IF StepsIn({"completed"}) # {} THEN "partial" ELSE "failed"
    BY DEF Outcome
<1>9. \A s \in Steps : Results[s] # "open"
    BY <1>1, <1>2 DEF Judge, Finished
<1> HIDE DEF With, failed, bad
<1> QED
    BY <1>3, <1>4, <1>5, <1>6, <1>7, <1>8, <1>9

\* ReconcilePlan commits the status it decided.
LEMMA CloseView ==
    ASSUME RunInv, ContractInv, NEW p \in Processes, CloseOp(p)
    PROVE  ContractStep
<1> DEFINE d == local[p].dec
<1>1. /\ run \in [status : RunStatus, rev : {0, 1}, version : Nat]
      /\ DeciderKnows(local[p])
    BY DEF RunInv, StoreInv, StoreTypeOK, ContractInv
<1>2. /\ local[p].ver = run.version /\ Open /\ UNCHANGED <<task, plan>>
      /\ run' = [run EXCEPT !.status = d.arg, !.version = run.version + 1]
      /\ d.arg \in RunTerminal
    BY DEF CloseOp, Transition, Commit, ReconcileOutcomes, RunTerminal
<1>3. run.rev = 1 /\ StepsIn(Finished) = Steps /\ d.arg = Outcome
    BY <1>1, <1>2 DEF CloseOp, At, DeciderKnows
<1>4. run'.status = d.arg /\ run'.rev = run.rev
    BY <1>1, <1>2
<1>5. ViewStatus = "open" /\ ViewStatus' = d.arg
    BY <1>2, <1>4 DEF ViewStatus, Terminal, Open, RunOpen, RunTerminal
<1>6. Granted' = Granted /\ Results' = Results
  <2>1. Granted' = Granted
      BY <1>2 DEF Granted
  <2>2. Results' = Results
      BY <1>2 DEF Results
  <2> QED
      BY <2>1, <2>2
<1>7. d.arg = Contract!Verdict /\ \A s \in Steps : Results[s] # "open"
    BY <1>3, OutcomeIsVerdict
<1>8. Contract!Close
    BY <1>2, <1>3, <1>4, <1>5, <1>6, <1>7, ViewOutcome DEF Contract!Close, ViewStatus, Granted
<1> QED
    BY <1>8 DEF ContractStep, Contract!ContractNext

\* Every step of the system is a step of the contract or none.
LEMMA NextContract ==
    ASSUME RunInv, ExecInv, ContractInv, [Next]_vars
    PROVE  ContractStep
<1>1. StoreInv /\ Shaped /\ Unclaimed
    BY DEF RunInv, ContractInv
<1>2. CASE UNCHANGED storeVars
  <2>1. UNCHANGED <<run, task, plan>>
      BY <1>2 DEF storeVars
  <2>2. Granted' = Granted /\ Results' = Results /\ ViewStatus' = ViewStatus
      BY <2>1 DEF Granted, Results, ViewStatus, Terminal
  <2> QED
      BY <2>1, <2>2, SameView
<1>3. CASE OtherOp
  <2>1. ASSUME NEW t \in Tasks, NEW w, NEW f,
               \/ LeaseTask(run.version, t, w, f) \/ StartTask(run.version, t, w, f)
               \/ \E r : FailTask(run.version, t, w, f, r)
        PROVE  ContractStep
      BY <1>1, <2>1, TaskOpView
  <2>2. ASSUME NEW t \in Steps, \/ SkipTask(run.version, t) \/ ExpireQueuedTask(run.version, t)
                                \/ ExpireUnstartedTask(run.version, t)
        PROVE  ContractStep
      BY <1>1, <2>2, TaskOpView, TaskBasics
  <2>3. ASSUME NEW t \in Tasks, NEW c, MarkCapacityWaiting(run.version, t, c)
        PROVE  ContractStep
      BY <1>1, <2>3, TaskOpView
  <2>4. ASSUME NEW t \in Tasks, QueueWaitElapses(t) \/ LeaseElapses(t)
        PROVE  ContractStep
      BY <1>1, <2>4, TouchView
  <2>5. CASE \/ RecoverAdmission \/ StartPlanning \/ ExpirePlanning \/ Cancel \/ DeadlinePasses
             \/ \E t \in Steps : QueueTask(run.version, t)
             \/ \E w, f : \E p \in Plans : CompletePlanning(run.version, w, f, p)
      BY <1>1, <2>5, RunOpView
  <2>6. CASE RecoveryOp
      BY <2>2, <2>3, <2>5, <2>6, Zenon DEF RecoveryOp
  <2>7. CASE TimePasses
      BY <2>4, <2>5, <2>7, Zenon DEF TimePasses
  <2>8. ASSUME NEW t \in Tasks, NEW w \in Owners, NEW f \in Fences,
               \/ LeaseTask(run.version, t, w, f)
               \/ StartTask(run.version, t, w, f)
               \/ \E r \in FailReasons(t) : FailTask(run.version, t, w, f, r)
               \/ t = PlanningTaskID /\ \E p \in Plans : CompletePlanning(run.version, w, f, p)
        PROVE  ContractStep
      BY <2>1, <2>5, <2>8, Zenon
  <2> QED
      BY <1>2, <1>3, <2>6, <2>7, <2>8, Zenon DEF OtherOp
<1>4. ASSUME NEW w \in Workers, GrantOp(w) \/ KeepOp(w) \/ CompleteOp(w)
      PROVE  ContractStep
  <2> DEFINE t == local[w].msg
             f == local[w].tok
  <2>1. local[w].pc \in {"claim", "receipt", "finish"} /\ w \in Processes
      BY <1>4 DEF GrantOp, KeepOp, CompleteOp, Claim, KeepReceipt, Finish, At, Processes
  <2>2. t \in Steps /\ t \in Tasks /\ f \in Fences
      BY <1>1, <2>1, DeliveryTypes DEF StepPCs, DeliveryPCs
  <2>3. f # 0
      BY <2>2 DEF Fences
  <2>4. CASE GrantOp(w)
      BY <1>1, <2>2, <2>3, <2>4, TouchView DEF GrantOp
  <2>5. CASE KeepOp(w)
      BY <1>1, <2>2, <2>5, TouchView DEF KeepOp
  <2>6. CASE CompleteOp(w)
    <3>1. ExecutorKnows(local[w]) /\ StepHistory(t)
        BY <2>1, <2>2 DEF ExecInv
    <3>2. task[t].receipt
        BY <2>6, <3>1 DEF CompleteOp, Finish, At, ExecutorKnows
    <3>3. task[t].token # 0
        BY <3>1, <3>2 DEF StepHistory
    <3> QED
        BY <1>1, <2>2, <2>6, <3>3, TaskOpView DEF CompleteOp
  <2> QED
      BY <1>4, <2>4, <2>5, <2>6
<1>5. ASSUME NEW p \in Processes, CloseOp(p) PROVE ContractStep
    BY <1>5, CloseView
<1>6. CASE Next
  <2>1. StoreStep
      BY <1>1, <1>6, NextStore
  <2> QED
      BY <1>3, <1>4, <1>5, <2>1, Zenon DEF StoreStep
<1> QED
    BY <1>2, <1>6 DEF vars, storeVars

\* ProcessDelivery, executionReceipt, ReconcilePlan, Cancel and the recovery of
\* planning together: whatever the interleaving, crashes and redeliveries,
\* rights are granted once and in the plan's order, outcomes are decided once,
\* and the final status is the one the outcomes of the steps add up to.
THEOREM RunKeepsContract == Spec => KeepsContract
<1>1. Init => Contract!ContractInit
  <2> SUFFICES ASSUME Init PROVE Contract!ContractInit
      OBVIOUS
  <2>1. /\ run.status = "absent" /\ run.rev = 0 /\ plan = NoPlan
        /\ \A s \in Steps : task[s] = NoTask
      BY TaskBasics DEF Init, StoreInit
  <2>2. NoTask.token = 0 /\ NoTask.status = "absent"
      BY DEF NoTask
  <2>3. Results = [s \in Steps |-> "open"]
      BY <2>1, <2>2 DEF Results, Judge, Finished
  <2>4. Granted = {}
      BY <2>1, <2>2 DEF Granted
  <2> QED
      BY <2>1, <2>3, <2>4, ViewOutcome
         DEF Contract!ContractInit, NoPlan, Granted, Terminal, RunTerminal
<1>2. RunInv /\ ExecInv /\ ContractInv /\ [Next]_vars
        => [Contract!ContractNext]_(Contract!contractVars)
    BY NextContract DEF ContractStep
<1> QED
    BY <1>1, <1>2, ContractInvariance, PTL DEF Spec, KeepsContract, Contract!ContractSpec

-----------------------------------------------------------------------------
(***************************************************************************)
(* No task of an open run is lost between the store's outbox, the dispatch *)
(* cursor and the bus, and no delivery is acknowledged before its task is  *)
(* settled.                                                                *)
(*                                                                         *)
(* The argument: a task that waits for or is with a worker is an entry of  *)
(* the outbox; every entry up to the cursor, and up to where a dispatching *)
(* process is, has reached the bus; and who is about to acknowledge a      *)
(* delivery knows that its task has ended, also across RecoverRun.         *)
(***************************************************************************)
Waiting(t) == task[t].status \in {"queued", "leased", "running"}
Overdue(t) == task[t].status = "queued" /\ task[t].waited
Settled(t) == Terminal \/ task[t].status \in Finished

\* A waiting task has an entry in the outbox.
Outboxed ==
    ~Terminal => \A t \in Tasks : Waiting(t) => \E i \in 1..Len(outbox) : outbox[i] = t

\* A plan runs only once it is installed, and then its planning is over.
Planned ==
    /\ run.status = "running" => run.rev = 1
    /\ run.rev = 1 => task[PlanningTaskID].status \in Finished

\* The first n entries of the outbox have reached the bus.
Sent(n) == n <= Len(outbox) /\ \A i \in 1..n : bus[outbox[i]].place # "none"

\* DispatchPending: the entries it read are those that follow its position.
DispatcherKnows(l) ==
    ~Terminal /\ l.pc \in {"d_enq", "d_adv"} =>
        /\ Sent(l.pos)
        /\ l.pos + Len(l.todo) <= Len(outbox)
        /\ \A j \in 1..Len(l.todo) : l.todo[j] = outbox[l.pos + j]
        /\ l.pc = "d_adv" => bus[Head(l.todo)].place # "none"

\* Who acknowledges, or will after RecoverRun, knows how the task ended.
AckerKnows(l) ==
    /\ l.pc \in {"ack", "p_expire"} => Settled(l.msg)
    /\ l.then = "ack" => Settled(l.msg) \/ Overdue(l.msg)
    /\ l.then = "ack" /\ l.pc \in {"r_read", "r_tasks", "r_commit"} /\ l.msg = PlanningTaskID
         => Settled(l.msg)
    /\ l.then = "ack" /\ l.pc \in {"d_read", "d_enq", "d_adv"} => Settled(l.msg)

\* The inductive invariant.
DispatchInv ==
    /\ Outboxed /\ Planned
    /\ ~Terminal => Sent(cursor)
    /\ \A t \in Tasks : bus[t].place = "acked" => Settled(t)
    /\ \A p \in Processes : DispatcherKnows(local[p]) /\ AckerKnows(local[p])

-----------------------------------------------------------------------------
(* What the transactions of the store do to waiting tasks and the outbox.  *)

\* One transaction: who waits afterwards waited before or was just appended,
\* and who has waited too long still does or has ended.
Shift ==
    /\ \A t \in Tasks : Overdue(t) =>
         \/ task'[t].status = "queued" /\ task'[t].waited
         \/ task'[t].status \in Finished \/ Terminal'
    /\ \/ Terminal'
       \/ outbox' = outbox /\ \A t \in Tasks : Waiting(t)' => Waiting(t)
       \/ \E u \in Tasks : /\ outbox' = Append(outbox, u)
                           /\ \A t \in Tasks \ {u} : Waiting(t)' => Waiting(t)
    /\ run'.status = "running" => run'.rev = 1 \/ (run.status = "running" /\ run'.rev = run.rev)
    /\ run'.rev = 1 => run.rev = 1 \/ task'[PlanningTaskID].status \in Finished

\* A record is replaced, status and outbox stay.
LEMMA RewriteShift ==
    ASSUME StoreInv, NEW t \in Tasks, NEW new, task' = [task EXCEPT ![t] = new],
           run'.rev = run.rev, run'.status = run.status, outbox' = outbox,
           new.status \in {"queued", "leased", "running"} => Waiting(t),
           Overdue(t) => new.status \in Finished \/ (new.status = "queued" /\ new.waited)
    PROVE  Shift
<1>1. task \in [Tasks -> Task]
    BY DEF StoreInv, StoreTypeOK
<1>2. \A u \in Tasks : task'[u] = IF u = t THEN new ELSE task[u]
    BY <1>1
<1>3. \A u \in Tasks : Waiting(u)' => Waiting(u)
    BY <1>2 DEF Waiting
<1>4. \A u \in Tasks : Overdue(u) => \/ task'[u].status = "queued" /\ task'[u].waited
                                     \/ task'[u].status \in Finished
    BY <1>2 DEF Overdue
<1> QED
    BY <1>3, <1>4 DEF Shift

LEMMA MutateShift ==
    ASSUME StoreInv, NEW v, NEW t \in Tasks, NEW new, MutateTask(v, t, new),
           new.status \in {"queued", "leased", "running"} => Waiting(t),
           Overdue(t) => new.status \in Finished \/ (new.status = "queued" /\ new.waited)
    PROVE  Shift
<1>1. run'.rev = run.rev /\ run'.status = run.status
    BY DEF StoreInv, StoreTypeOK, MutateTask, Commit
<1> QED
    BY <1>1, RewriteShift DEF MutateTask

\* The holder of a lease, and the reconciler, on one task.
LEMMA TaskOpShift ==
    ASSUME StoreInv, NEW t \in Tasks, NEW w, NEW f, NEW r,
           \/ LeaseTask(run.version, t, w, f) \/ StartTask(run.version, t, w, f)
           \/ CompleteTask(run.version, t, w, f) \/ FailTask(run.version, t, w, f, r)
           \/ SkipTask(run.version, t) \/ ExpireQueuedTask(run.version, t)
           \/ ExpireUnstartedTask(run.version, t) \/ MarkCapacityWaiting(run.version, t, r)
    PROVE  Shift
<1>1. task[t] \in Task
    BY DEF StoreInv, StoreTypeOK
<1>2. CASE LeaseTask(run.version, t, w, f)
  <2> DEFINE new == [task[t] EXCEPT !.status = "leased", !.owner = w, !.fence = f, !.live = TRUE]
  <2>1. Leasable(t) /\ MutateTask(run.version, t, new)
      BY <1>2 DEF LeaseTask
  <2>2. Waiting(t) /\ ~Overdue(t)
      BY <2>1 DEF Leasable, Waiting, Overdue
  <2> QED
      BY <2>1, <2>2, MutateShift
<1>3. CASE StartTask(run.version, t, w, f)
  <2> DEFINE new == [task[t] EXCEPT !.status = "running"]
  <2>1. task[t].status = "leased" /\ MutateTask(run.version, t, new)
      BY <1>3 DEF StartTask
  <2>2. Waiting(t) /\ ~Overdue(t)
      BY <2>1 DEF Waiting, Overdue
  <2> QED
      BY <2>1, <2>2, MutateShift
<1>4. CASE \/ CompleteTask(run.version, t, w, f) \/ FailTask(run.version, t, w, f, r)
           \/ SkipTask(run.version, t) \/ ExpireQueuedTask(run.version, t)
           \/ ExpireUnstartedTask(run.version, t)
  <2>1. PICK new :
          /\ MutateTask(run.version, t, new)
          /\ \/ new = [task[t] EXCEPT !.status = "completed"]
             \/ new = [task[t] EXCEPT !.status = "failed", !.reason = r]
             \/ new = [task[t] EXCEPT !.status = "skipped", !.reason = "dependency.failed"]
             \/ new = [task[t] EXCEPT !.status = "failed", !.reason = "queue.timeout"]
             \/ new = [task[t] EXCEPT !.reason = "run.deadline",
                         !.status = IF @ = "queued" THEN "failed" ELSE "skipped"]
      BY <1>4 DEF CompleteTask, FailTask, SkipTask, ExpireQueuedTask, ExpireUnstartedTask
  <2>2. new.status \in {"completed", "failed", "skipped"}
      BY <1>1, <2>1 DEF Task
  <2> QED
      BY <2>1, <2>2, MutateShift DEF Finished
<1>5. CASE MarkCapacityWaiting(run.version, t, r)
  <2> DEFINE new == [task[t] EXCEPT !.queueReason = r]
  <2>1. task[t].status = "queued" /\ MutateTask(run.version, t, new)
      BY <1>5 DEF MarkCapacityWaiting
  <2>2. new.status = task[t].status /\ new.waited = task[t].waited
      BY <1>1 DEF Task
  <2> HIDE DEF new
  <2> QED
      BY <2>1, <2>2, MutateShift DEF Waiting, Overdue
<1> QED
    BY <1>2, <1>3, <1>4, <1>5

\* The execution right, the receipt and the clocks on one task.
LEMMA TouchShift ==
    ASSUME StoreInv, NEW t \in Tasks, NEW w, NEW f,
           \/ ClaimExecution(t, w, f) \/ StoreReceipt(t, w, f)
           \/ QueueWaitElapses(t) \/ LeaseElapses(t)
    PROVE  Shift
<1>1. task[t] \in Task
    BY DEF StoreInv, StoreTypeOK
<1>2. PICK new :
        /\ task' = [task EXCEPT ![t] = new] /\ UNCHANGED <<run, outbox>>
        /\ Waiting(t)
        /\ \/ new = [task[t] EXCEPT !.token = f] \/ new = [task[t] EXCEPT !.receipt = TRUE]
           \/ new = [task[t] EXCEPT !.waited = TRUE] \/ new = [task[t] EXCEPT !.live = FALSE]
    BY DEF ClaimExecution, StoreReceipt, QueueWaitElapses, LeaseElapses, MayExecute, Waiting
<1>3. new.status = task[t].status /\ (task[t].waited => new.waited)
    BY <1>1, <1>2 DEF Task
<1> QED
    BY <1>2, <1>3, RewriteShift DEF Overdue

\* The transactions on the run as a whole, and on the outbox.
LEMMA RunOpShift ==
    ASSUME StoreInv,
           \/ RecoverAdmission \/ StartPlanning \/ ExpirePlanning \/ Cancel
           \/ \E o \in ReconcileOutcomes : Transition(run.version, o)
           \/ \E t \in Steps : QueueTask(run.version, t)
           \/ \E w, f, p : CompletePlanning(run.version, w, f, p)
    PROVE  Shift
<1>1. /\ task \in [Tasks -> Task]
      /\ run \in [status : RunStatus, rev : {0, 1}, version : Nat]
    BY DEF StoreInv, StoreTypeOK
<1>2. ASSUME run'.status \in RunTerminal, run'.rev = run.rev PROVE Shift
    BY <1>2 DEF Shift, Terminal, RunTerminal
<1>3. CASE RecoverAdmission
  <2>1. /\ UNCHANGED <<task, outbox>> /\ run'.rev = run.rev
        /\ run'.status \in {"accepted", "failed"}
      BY <1>1, <1>3 DEF RecoverAdmission, Create, Commit
  <2> QED
      BY <2>1 DEF Shift, Waiting, Overdue
<1>4. CASE StartPlanning
  <2> DEFINE new == [NoTask EXCEPT !.status = "queued"]
  <2>1. /\ run.status = "accepted" /\ task' = [task EXCEPT ![PlanningTaskID] = new]
        /\ outbox' = Append(outbox, PlanningTaskID)
        /\ run'.rev = run.rev /\ run'.status = "planning"
      BY <1>1, <1>4 DEF StartPlanning, Commit
  <2>2. task[PlanningTaskID].status = "absent"
      BY <2>1, TaskBasics DEF StoreInv, NothingBeforePlanning
  <2>3. \A t \in Tasks \ {PlanningTaskID} : task'[t] = task[t]
      BY <1>1, <2>1
  <2> HIDE DEF new
  <2> QED
      BY <2>1, <2>2, <2>3, TaskBasics DEF Shift, Waiting, Overdue
<1>5. CASE ExpirePlanning
    BY <1>1, <1>2, <1>5 DEF ExpirePlanning, Commit, RunTerminal
<1>6. CASE Cancel
    BY <1>1, <1>2, <1>6 DEF Cancel, Commit, RunTerminal
<1>7. CASE \E o \in ReconcileOutcomes : Transition(run.version, o)
    BY <1>1, <1>2, <1>7 DEF Transition, Commit, RunTerminal, ReconcileOutcomes
<1>8. ASSUME NEW t \in Steps, QueueTask(run.version, t) PROVE Shift
  <2>1. /\ run.rev = 1 /\ task[t].status = "pending_dependency" /\ t \in Tasks
        /\ task' = [task EXCEPT ![t] = [task[t] EXCEPT !.status = "queued"]]
        /\ outbox' = Append(outbox, t) /\ run'.rev = run.rev
      BY <1>1, <1>8, TaskBasics DEF QueueTask, Commit
  <2>2. \A u \in Tasks \ {t} : task'[u] = task[u]
      BY <1>1, <2>1
  <2> QED
      BY <2>1, <2>2 DEF Shift, Waiting, Overdue
<1>9. CASE \E w, f, p : CompletePlanning(run.version, w, f, p)
  <2> DEFINE done == [task[PlanningTaskID] EXCEPT !.status = "completed"]
             fresh == [NoTask EXCEPT !.status = "pending_dependency"]
  <2>1. /\ run.rev = 0 /\ run'.rev = 1 /\ task[PlanningTaskID].status = "running"
        /\ \A u \in Tasks : task'[u] = IF u = PlanningTaskID THEN done ELSE fresh
        /\ outbox' = outbox
      BY <1>1, <1>9 DEF CompletePlanning
  <2>2. \A u \in Tasks \ {PlanningTaskID} : task[u].status = "absent"
      BY <2>1, TaskBasics DEF StoreInv, NothingBeforePlanning, Tasks
  <2>3. done.status = "completed" /\ fresh.status = "pending_dependency"
      BY <1>1, TaskBasics DEF Task
  <2> HIDE DEF done, fresh
  <2> QED
      BY <2>1, <2>2, <2>3, TaskBasics DEF Shift, Waiting, Overdue, Finished
<1> QED
    BY <1>3, <1>4, <1>5, <1>6, <1>7, <1>8, <1>9

LEMMA StoreShift ==
    ASSUME StoreInv, [StoreNext]_storeVars
    PROVE  Shift
<1>1. CASE WorkerOp
  <2>1. PICK t \in Tasks, w \in Owners, f \in Fences :
          \/ LeaseTask(run.version, t, w, f)
          \/ StartTask(run.version, t, w, f)
          \/ \E r \in FailReasons(t) : FailTask(run.version, t, w, f, r)
          \/ t \in Steps /\ CompleteTask(run.version, t, w, f)
          \/ t \in Steps /\ ClaimExecution(t, w, f)
          \/ t \in Steps /\ StoreReceipt(t, w, f)
          \/ t = PlanningTaskID /\ \E p \in Plans : CompletePlanning(run.version, w, f, p)
      BY <1>1 DEF WorkerOp
  <2> QED
      BY <2>1, TaskOpShift, TouchShift, RunOpShift
<1>2. CASE ReconcileOp
  <2>1. CASE \E t \in Steps : \/ SkipTask(run.version, t) \/ ExpireQueuedTask(run.version, t)
                              \/ ExpireUnstartedTask(run.version, t)
      BY <2>1, TaskOpShift, TaskBasics
  <2>2. CASE \E t \in Tasks, c \in CapacityReasons : MarkCapacityWaiting(run.version, t, c)
      BY <2>2, TaskOpShift
  <2> QED
      BY <1>2, <2>1, <2>2, RunOpShift DEF ReconcileOp
<1>3. CASE TimePasses
  <2>1. CASE DeadlinePasses
      BY <2>1 DEF DeadlinePasses, Shift, Waiting, Overdue
  <2> QED
      BY <1>3, <2>1, TouchShift DEF TimePasses
<1>4. CASE UNCHANGED storeVars
    BY <1>4 DEF storeVars, Shift, Waiting, Overdue
<1> QED
    BY <1>1, <1>2, <1>3, <1>4 DEF StoreNext

\* What holds of waiting, overdue and settled tasks across any step.
LEMMA StoreKeeps ==
    ASSUME RunInv, [StoreNext]_storeVars
    PROVE  /\ Terminal => Terminal'
           /\ \A t \in Tasks : Settled(t) => Settled(t)'
           /\ \A t \in Tasks : Overdue(t) => Overdue(t)' \/ Settled(t)'
           /\ ~Terminal' => /\ Len(outbox') >= Len(outbox)
                            /\ \A i \in 1..Len(outbox) : outbox'[i] = outbox[i]
           /\ Outboxed => Outboxed'
           /\ Planned => Planned'
<1>1. /\ Shift /\ StoreInv /\ StoreInv' /\ outbox \in Seq(Tasks) /\ PlanningTaskID \in Tasks
      /\ run.rev \in {0, 1} /\ run'.rev \in {0, 1}
    BY StoreShift, NextInv, TaskBasics DEF RunInv, StoreInv, StoreTypeOK
<1>2. Terminal => Terminal'
    BY TerminalStep DEF RunInv, storeVars, Terminal
<1>3. \A t \in Tasks : task[t].status \in Finished => task'[t].status \in Finished
    BY NextKept DEF RunInv, StepKept, TaskKept
<1>4. \A t \in Tasks : Settled(t) => Settled(t)'
    BY <1>2, <1>3 DEF Settled
<1>5. \A t \in Tasks : Overdue(t) => Overdue(t)' \/ Settled(t)'
    BY <1>1 DEF Shift, Overdue, Settled
<1>6. ASSUME NEW u \in Tasks, outbox' = Append(outbox, u)
      PROVE  /\ Len(outbox) \in Nat /\ Len(outbox') = Len(outbox) + 1
             /\ outbox'[Len(outbox) + 1] = u
             /\ \A i \in 1..Len(outbox) : outbox'[i] = outbox[i]
    BY <1>1, <1>6, AppendProperties, LenProperties
<1>7. Len(outbox) \in Nat
    BY <1>1, LenProperties
<1>8. ~Terminal' => /\ Len(outbox') >= Len(outbox)
                    /\ \A i \in 1..Len(outbox) : outbox'[i] = outbox[i]
    BY <1>1, <1>6, <1>7 DEF Shift
<1>9. ASSUME Outboxed, ~Terminal', NEW t \in Tasks, Waiting(t)'
      PROVE  \E i \in 1..Len(outbox') : outbox'[i] = t
  <2>1. CASE Waiting(t)
    <3>1. PICK i \in 1..Len(outbox) : outbox[i] = t
        BY <1>2, <1>9, <2>1 DEF Outboxed
    <3>2. Len(outbox') >= Len(outbox) /\ outbox'[i] = t /\ Len(outbox') \in Nat
        BY <1>1, <1>8, <1>9, <3>1, LenProperties DEF StoreInv, StoreTypeOK
    <3> QED
        BY <1>7, <3>1, <3>2
  <2>2. CASE ~Waiting(t)
    <3>1. outbox' = Append(outbox, t)
        BY <1>1, <1>9, <2>2 DEF Shift
    <3> QED
        BY <1>6, <3>1
  <2> QED
      BY <2>1, <2>2
<1>10. Planned => Planned'
    BY <1>1, <1>3 DEF Shift, Planned
<1> QED
    BY <1>2, <1>4, <1>5, <1>8, <1>9, <1>10 DEF Outboxed

\* What reached the bus stays known to it, and only an Ack takes it off.
LEMMA BusKeeps ==
    ASSUME Bus!BusTypeOK, BusStep, NEW t \in Tasks
    PROVE  /\ bus[t].place # "none" => bus'[t].place # "none"
           /\ bus'[t].place = "acked" =>
                bus[t].place = "acked" \/ \E w \in Workers : At(w, "ack") /\ local[w].msg = t
<1> DEFINE Entry == [place : Bus!Places, sid : Nat, idle : BOOLEAN,
                     lease : 0..MaxFence, token : 0..MaxFence]
<1>1. bus \in [Tasks -> Entry] /\ bus[t] \in Entry
    BY DEF Bus!BusTypeOK
<1>2. ASSUME NEW m \in Tasks, NEW new, bus' = [bus EXCEPT ![m] = new],
             new.place # "none" \/ new.place = bus[m].place,
             new.place = "acked" =>
               bus[m].place = "acked" \/ \E w \in Workers : At(w, "ack") /\ local[w].msg = m
      PROVE  /\ bus[t].place # "none" => bus'[t].place # "none"
             /\ bus'[t].place = "acked" =>
                  bus[t].place = "acked" \/ \E w \in Workers : At(w, "ack") /\ local[w].msg = t
  <2>1. bus'[t] = IF t = m THEN new ELSE bus[t]
      BY <1>1, <1>2
  <2> QED
      BY <1>2, <2>1
<1>3. CASE UNCHANGED bus
    BY <1>3
<1>4. ASSUME NEW m \in Tasks, Bus!Enqueue(m) \/ Bus!PromoteDue(m)
      PROVE  bus' = bus \/ \E new : bus' = [bus EXCEPT ![m] = new] /\ new.place = "stream"
  <2>1. bus[m] \in Entry
      BY <1>1
  <2>2. Bus!Added(bus[m]).place = "stream"
      BY <2>1 DEF Bus!Added
  <2> HIDE DEF Entry
  <2> QED
      BY <1>1, <1>4, <2>2 DEF Bus!Enqueue, Bus!PromoteDue
<1>5. ASSUME NEW m \in Tasks, Bus!Dequeue(m)
      PROVE  \E new : bus' = [bus EXCEPT ![m] = new] /\ new.place = "pending"
  <2> DEFINE tok == bus[m].token + 1
             new == [bus[m] EXCEPT !.place = "pending", !.idle = FALSE, !.token = tok]
  <2>1. bus' = [bus EXCEPT ![m] = new]
      BY <1>5 DEF Bus!Dequeue
  <2> HIDE DEF tok
  <2>2. new.place = "pending"
      BY <1>1
  <2> QED
      BY <2>1, <2>2
<1>6. ASSUME NEW m \in Tasks, NEW k,
             Bus!LeaseExpires(m) \/ Bus!EntryIdles(m) \/ Bus!SetLease(m, k)
      PROVE  \E new : bus' = [bus EXCEPT ![m] = new] /\ new.place = bus[m].place
  <2>1. PICK new : /\ bus' = [bus EXCEPT ![m] = new]
                   /\ \/ new = [bus[m] EXCEPT !.lease = 0]
                      \/ new = [bus[m] EXCEPT !.idle = TRUE]
                      \/ new = [bus[m] EXCEPT !.lease = k]
      BY <1>6 DEF Bus!LeaseExpires, Bus!EntryIdles, Bus!SetLease
  <2>2. new.place = bus[m].place
      BY <1>1, <2>1
  <2> QED
      BY <2>1, <2>2
<1>7. ASSUME NEW m \in Tasks, NEW i, NEW k, Bus!Defer(m, i, k)
      PROVE  \E new : bus' = [bus EXCEPT ![m] = new] /\ new.place = "delay"
  <2> DEFINE new == [bus[m] EXCEPT !.place = "delay", !.lease = 0]
  <2>1. bus' = [bus EXCEPT ![m] = new] /\ new.place = "delay"
      BY <1>1, <1>7 DEF Bus!Defer
  <2> QED
      BY <2>1
<1>8. ASSUME NEW m \in Tasks, NEW i, NEW k, Bus!Ack(m, i, k)
      PROVE  \E new : bus' = [bus EXCEPT ![m] = new] /\ new.place = "acked"
  <2> DEFINE new == [bus[m] EXCEPT !.place = "acked", !.lease = 0]
  <2>1. bus' = [bus EXCEPT ![m] = new] /\ new.place = "acked"
      BY <1>1, <1>8 DEF Bus!Ack
  <2> QED
      BY <2>1
<1>9. ASSUME NEW m \in Tasks,
             \/ Bus!Enqueue(m) \/ Bus!PromoteDue(m) \/ Bus!Dequeue(m)
             \/ Bus!LeaseExpires(m) \/ Bus!EntryIdles(m)
             \/ \E k \in Fences : Bus!SetLease(m, k)
             \/ \E i, k : Bus!Defer(m, i, k)
      PROVE  \/ UNCHANGED bus
             \/ \E new : /\ bus' = [bus EXCEPT ![m] = new]
                         /\ new.place = bus[m].place \/ new.place \in {"stream", "pending", "delay"}
    BY <1>4, <1>5, <1>6, <1>7, <1>9
<1>10. ASSUME NEW m \in Tasks, NEW w \in Workers, m = local[w].msg, AckOp(w)
       PROVE  \E new : bus' = [bus EXCEPT ![m] = new] /\ new.place = "acked" /\ At(w, "ack")
    BY <1>8, <1>10 DEF AckOp
<1>11. CASE \E m \in Tasks : \/ Bus!Enqueue(m) \/ Bus!PromoteDue(m) \/ Bus!Dequeue(m)
                             \/ Bus!LeaseExpires(m) \/ Bus!EntryIdles(m)
                             \/ \E k \in Fences : Bus!SetLease(m, k)
                             \/ \E i, k : Bus!Defer(m, i, k)
    BY <1>2, <1>9, <1>11
<1>12. CASE \E m \in Tasks, w \in Workers : m = local[w].msg /\ AckOp(w)
    BY <1>2, <1>10, <1>12
<1> QED
    BY <1>3, <1>11, <1>12 DEF BusStep

-----------------------------------------------------------------------------
(* The processes.                                                          *)

\* What a step leaves true of the outbox, the bus and of ended tasks.
Lasting ==
    /\ Terminal => Terminal'
    /\ \A t \in Tasks : Settled(t) => Settled(t)'
    /\ \A t \in Tasks : Overdue(t) => Overdue(t)' \/ Settled(t)'
    /\ ~Terminal' => /\ Len(outbox') >= Len(outbox)
                     /\ \A i \in 1..Len(outbox) : outbox'[i] = outbox[i]
    /\ \A t \in Tasks : bus[t].place # "none" => bus'[t].place # "none"
    /\ Len(outbox) \in Nat /\ Len(outbox') \in Nat /\ outbox \in Seq(Tasks)

LEMMA NextLasts ==
    ASSUME RunInv, Next
    PROVE  Lasting /\ [StoreNext]_storeVars
<1>1. [StoreNext]_storeVars /\ BusStep /\ Bus!BusTypeOK
    BY NextShaped, NextRest DEF RunInv, RestStep, Shaped, RunTypeOK
<1>2. StoreInv' /\ StoreInv
    BY <1>1, NextInv DEF RunInv
<1> QED
    BY <1>1, <1>2, StoreKeeps, BusKeeps, LenProperties DEF Lasting, StoreInv, StoreTypeOK

\* Sent, of the outbox and the bus after the step.
SentAfter(n) == n <= Len(outbox') /\ \A i \in 1..n : bus'[outbox'[i]].place # "none"

\* What was sent stays sent while the run is not over.
LEMMA SentStays ==
    ASSUME Lasting, ~Terminal', NEW n \in Nat, Sent(n)
    PROVE  SentAfter(n)
<1>1. \A i \in 1..n : i \in 1..Len(outbox) /\ outbox[i] \in Tasks
    BY DEF Lasting, Sent
<1> QED
    BY <1>1 DEF Lasting, Sent, SentAfter

\* What DispatchPending knows of the entries it has read stays true.
LEMMA KnownStays ==
    ASSUME Lasting, ~Terminal', NEW l, Shape(l), DispatcherKnows(l), l.pc \in {"d_enq", "d_adv"}
    PROVE  /\ l.pos \in Nat /\ l.todo \in Seq(Tasks) /\ l.todo # <<>> /\ Len(l.todo) \in Nat
           /\ SentAfter(l.pos)
           /\ l.pos + Len(l.todo) <= Len(outbox') /\ Len(outbox') \in Nat
           /\ \A j \in 1..Len(l.todo) : l.todo[j] = outbox'[l.pos + j]
           /\ Head(l.todo) \in Tasks /\ Head(l.todo) = l.todo[1] /\ 1 \in 1..Len(l.todo)
           /\ l.pc = "d_adv" => bus'[Head(l.todo)].place # "none"
<1>1. /\ l.pos \in Nat /\ l.todo \in Seq(Tasks) /\ l.todo # <<>> /\ Len(l.todo) \in Nat
    BY LenProperties DEF Shape, Memory
<1>2. /\ Sent(l.pos) /\ l.pos + Len(l.todo) <= Len(outbox)
      /\ \A j \in 1..Len(l.todo) : l.todo[j] = outbox[l.pos + j]
      /\ l.pc = "d_adv" => bus[Head(l.todo)].place # "none"
    BY DEF DispatcherKnows, Lasting
<1>3. SentAfter(l.pos)
    BY <1>1, <1>2, SentStays
<1>4. /\ Len(outbox) \in Nat /\ Len(outbox') \in Nat /\ Len(outbox') >= Len(outbox)
      /\ \A i \in 1..Len(outbox) : outbox'[i] = outbox[i]
    BY DEF Lasting
<1>5. \A j \in 1..Len(l.todo) : l.pos + j \in 1..Len(outbox)
    BY <1>1, <1>2, <1>4
<1>6. \A j \in 1..Len(l.todo) : l.todo[j] = outbox'[l.pos + j]
    BY <1>2, <1>4, <1>5
<1>7. l.pos + Len(l.todo) <= Len(outbox')
    BY <1>1, <1>2, <1>4
<1>8. Head(l.todo) \in Tasks /\ Head(l.todo) = l.todo[1] /\ 1 \in 1..Len(l.todo)
  <2>1. Len(l.todo) # 0
      BY <1>1, EmptySeq
  <2> QED
      BY <1>1, <2>1, HeadTailProperties
<1>9. l.pc = "d_adv" => bus'[Head(l.todo)].place # "none"
    BY <1>2, <1>8 DEF Lasting
<1> QED
    BY <1>1, <1>3, <1>4, <1>6, <1>7, <1>8, <1>9

\* A process that dispatches after its step dispatched before it or has just
\* read the outbox.
LEMMA DispatchMover ==
    ASSUME Shaped, Next, NEW p \in Processes, local'[p] # local[p],
           local'[p].pc \in {"d_enq", "d_adv"}
    PROVE  DispatchRead(p) \/ DispatchEnqueue(p) \/ DispatchAdvance(p)
<1>1. /\ local \in [Processes -> Memory] /\ \A w \in Workers : w \in Processes
      /\ local[p] \in Memory /\ \A q \in Services : q \in Processes
    BY DEF Shaped, RunTypeOK, Processes
<1>2. ASSUME Dequeue(p), p \in Workers PROVE FALSE
    BY <1>2, DequeueMoves
<1>3. ASSUME Moves(p) PROVE local[p].pc \in {"d_read", "d_enq", "d_adv"}
    BY <1>3 DEF Moves, Follows
<1>5. ASSUME p \in Workers, WorkerStep(p) \/ Interrupt(p) \/ Refuse(p) \/ Stall(p) PROVE FALSE
  <2>1. Moves(p)
      BY <1>2, <1>5, DeliveryMoves, StepMoves, PlanningMoves, FaultMoves, <1>1 DEF WorkerStep
  <2>2. local[p].pc \in {"d_read", "d_enq", "d_adv"}
      BY <1>3, <2>1
  <2>3. local[p].pc \notin {"idle"} \cup DeliveryPCs
      BY <2>2 DEF DeliveryPCs
  <2>4. ~WorkerStep(p)
      BY <2>3 DEF WorkerStep, DeliveryPCs, At, Dequeue, AcquireLease, Accept, DeferDelivery, AckDelivery,
         CheckDelivery, TakeLease, Start, Claim, Execute, KeepReceipt, Settle, Finish,
         CheckPlanning, LeasePlanning, BeginPlanning, Build, CommitPlan, FailPlanning,
         CloseFailedPlanning
  <2>5. ~(Interrupt(p) \/ Refuse(p) \/ Stall(p))
      BY <2>3 DEF DeliveryPCs, At, Interrupt, Refuse, Stall
  <2> QED
      BY <1>5, <2>4, <2>5
<1>6. ASSUME \/ RecoverStart(p) \/ RecoverExpire(p) \/ ReconcileRead(p) \/ ReconcileTasks(p)
             \/ ReconcileCommit(p) \/ Scan(p) \/ Submit(p)
      PROVE  FALSE
  <2>1. Moves(p)
      BY <1>6, RecoverMoves, DispatchMoves
  <2>2. local[p].pc \in {"d_read", "d_enq", "d_adv"}
      BY <1>3, <2>1
  <2> QED
      BY <1>6, <2>2 DEF At, RecoverStart, RecoverExpire, ReconcileRead, ReconcileTasks,
         ReconcileCommit, Scan, Submit
<1>7. ~Crash(p)
    BY AbandonMoves, IdleShape DEF Crash
<1> QED
    BY <1>5, <1>6, <1>7, NextMover DEF RecoverStep

\* Leaving DispatchPending is not going on with it.
LEMMA DispatchGoesOn ==
    ASSUME Shaped, NEW p \in Processes, local'[p].pc \in {"d_enq", "d_adv"}
    PROVE  ~Abandon(p) /\ ~Return(p)
<1>1. ~Abandon(p)
    BY AbandonMoves, IdleShape
<1>2. ASSUME NEW l \in Memory
      PROVE  [l EXCEPT !.pc = "ack", !.then = "idle", !.ver = 0, !.dec = NoDecision,
                       !.todo = <<>>, !.pos = 0].pc = "ack"
    BY DEF Memory
<1>3. ~Return(p)
  <2>1. local[p] \in Memory
      BY DEF Shaped, RunTypeOK
  <2> QED
      BY <1>2, <2>1, ReturnMoves, IdleShape
<1> QED
    BY <1>1, <1>3

\* DispatchPending keeps what it knows of the entries it has read.
LEMMA DispatcherStep ==
    ASSUME RunInv, DispatchInv, Next, NEW p \in Processes
    PROVE  DispatcherKnows(local[p])'
<1> DEFINE l == local[p]
           m == local'[p]
<1>1. /\ Shaped /\ Shape(l) /\ l \in Memory /\ local \in [Processes -> Memory]
      /\ DispatcherKnows(l) /\ cursor \in Nat
      /\ bus \in [Tasks -> [place : Bus!Places, sid : Nat, idle : BOOLEAN,
                            lease : 0..MaxFence, token : 0..MaxFence]]
    BY DEF RunInv, Shaped, RunTypeOK, DispatchInv, Bus!BusTypeOK
<1>2. Lasting
    BY NextLasts
<1>3. SUFFICES ASSUME ~Terminal', m.pc \in {"d_enq", "d_adv"}
               PROVE  /\ SentAfter(m.pos)
                      /\ m.pos + Len(m.todo) <= Len(outbox')
                      /\ \A j \in 1..Len(m.todo) : m.todo[j] = outbox'[m.pos + j]
                      /\ m.pc = "d_adv" => bus'[Head(m.todo)].place # "none"
    BY DEF DispatcherKnows, Terminal, Sent, SentAfter
<1>4. ~Terminal
    BY <1>2, <1>3 DEF Lasting
\* The entries l knows, after the step.
<1>5. ASSUME l.pc \in {"d_enq", "d_adv"}
      PROVE  /\ l.pos \in Nat /\ l.todo \in Seq(Tasks) /\ l.todo # <<>> /\ Len(l.todo) \in Nat
             /\ SentAfter(l.pos)
             /\ l.pos + Len(l.todo) <= Len(outbox') /\ Len(outbox') \in Nat
             /\ \A j \in 1..Len(l.todo) : l.todo[j] = outbox'[l.pos + j]
             /\ Head(l.todo) \in Tasks /\ Head(l.todo) = l.todo[1] /\ 1 \in 1..Len(l.todo)
             /\ l.pc = "d_adv" => bus'[Head(l.todo)].place # "none"
    BY <1>1, <1>2, <1>3, <1>5, KnownStays
<1>6. CASE m = l
    BY <1>3, <1>5, <1>6
<1>7. CASE DispatchRead(p)
  <2> DEFINE entries == SubSeq(outbox, cursor + 1, Len(outbox))
  <2>1. /\ local' = [local EXCEPT ![p].pc = "d_enq", ![p].todo = entries, ![p].pos = cursor]
        /\ entries # <<>> /\ UNCHANGED <<outbox, bus>>
    <3>1. ~Abandon(p) /\ ~Return(p)
        BY <1>1, <1>3, DispatchGoesOn
    <3> QED
        BY <1>7, <3>1 DEF DispatchRead, StoreSame, BusSame, storeVars
  <2>2. entries \in Seq(Tasks) /\ outbox \in Seq(Tasks) /\ Len(outbox) \in Nat
      BY <1>1, <1>2, EntriesType DEF Lasting
  <2>3. cursor <= Len(outbox) /\ SentAfter(cursor)
      BY <1>1, <1>2, <1>3, <1>4, SentStays DEF DispatchInv, Sent
  <2>4. /\ Len(entries) = Len(outbox) - cursor
        /\ \A j \in 1..(Len(outbox) - cursor) : entries[j] = outbox[cursor + j]
    <3>1. cursor + 1 \in 1..(Len(outbox) + 1) /\ Len(outbox) \in 0..Len(outbox)
        BY <1>1, <2>2, <2>3
    <3>2. /\ Len(entries) = IF cursor + 1 <= Len(outbox) THEN Len(outbox) - (cursor + 1) + 1 ELSE 0
          /\ \A j \in 1..Len(entries) : entries[j] = outbox[cursor + 1 + j - 1]
        BY <1>1, <2>2, <3>1, SubSeqProperties
    <3>3. Len(entries) = Len(outbox) - cursor
        BY <1>1, <2>2, <2>3, <3>2
    <3>4. \A j \in 1..(Len(outbox) - cursor) : cursor + 1 + j - 1 = cursor + j
        BY <1>1, <2>2, <2>3
    <3> HIDE DEF entries
    <3> QED
        BY <3>2, <3>3, <3>4
  <2> HIDE DEF entries
  <2>5. m.pc = "d_enq" /\ m.todo = entries /\ m.pos = cursor
      BY <1>1, <2>1 DEF Memory
  <2>6. cursor + Len(entries) = Len(outbox)
      BY <1>1, <2>2, <2>4
  <2>7. Len(outbox) <= Len(outbox)
      BY <2>2
  <2> QED
      BY <2>1, <2>3, <2>4, <2>5, <2>6, <2>7
<1>8. CASE DispatchEnqueue(p)
  <2>1. /\ l.pc = "d_enq"
        /\ local' = [local EXCEPT ![p].pc = "d_adv"]
        /\ Bus!Enqueue(Head(l.todo))
      BY <1>8 DEF DispatchEnqueue, At, Goto
  <2>2. m.pc = "d_adv" /\ m.todo = l.todo /\ m.pos = l.pos
      BY <1>1, <2>1 DEF Memory
  <2>3. bus'[Head(l.todo)].place # "none"
    <3>1. Head(l.todo) \in Tasks
        BY <1>5, <2>1
    <3>2. Bus!Added(bus[Head(l.todo)]).place = "stream"
        BY <1>1, <3>1 DEF Bus!Added
    <3> QED
        BY <1>1, <2>1, <3>1, <3>2 DEF Bus!Enqueue
  <2> QED
      BY <1>5, <2>1, <2>2, <2>3
<1>9. CASE DispatchAdvance(p)
  <2> DEFINE rest == Tail(l.todo)
             pos == l.pos + 1
  <2>1. /\ local' = [local EXCEPT ![p].pc = "d_enq", ![p].todo = rest, ![p].pos = pos]
        /\ l.pc = "d_adv"
    <3>1. ~Abandon(p) /\ ~Return(p)
        BY <1>1, <1>3, DispatchGoesOn
    <3> QED
        BY <1>9, <3>1 DEF DispatchAdvance, At
  <2>2. /\ rest \in Seq(Tasks) /\ Len(rest) = Len(l.todo) - 1
        /\ \A j \in 1..Len(rest) : rest[j] = l.todo[j + 1]
      BY <1>5, <2>1, HeadTailProperties
  <2>3. pos \in Nat /\ pos + Len(rest) = l.pos + Len(l.todo)
    <3> DEFINE n == Len(l.todo)
               i == l.pos
    <3>1. n \in Nat /\ i \in Nat /\ Len(rest) = n - 1
        BY <1>5, <2>1, <2>2
    <3> HIDE DEF n, i, rest
    <3>2. pos = i + 1
        BY DEF i
    <3> HIDE DEF pos
    <3>3. pos \in Nat /\ pos + Len(rest) = i + n
        BY <3>1, <3>2
    <3> QED
        BY <3>3 DEF i, n
  <2>4. \A j \in 1..Len(rest) : j + 1 \in 1..Len(l.todo) /\ l.pos + (j + 1) = pos + j
      BY <1>5, <2>1, <2>2
  <2>5. \A j \in 1..Len(rest) : rest[j] = outbox'[pos + j]
    <3> HIDE DEF rest, pos
    <3>1. ASSUME NEW j \in 1..Len(rest) PROVE rest[j] = outbox'[pos + j]
      <4>1. rest[j] = l.todo[j + 1] /\ j + 1 \in 1..Len(l.todo)
          BY <2>2, <2>4
      <4>2. l.todo[j + 1] = outbox'[l.pos + (j + 1)]
          BY <1>5, <2>1, <4>1
      <4> QED
          BY <2>4, <4>1, <4>2
    <3> QED
        BY <3>1
  <2>6. SentAfter(pos)
    <3>1. pos <= Len(outbox') /\ outbox'[pos] = Head(l.todo) /\ bus'[Head(l.todo)].place # "none"
        BY <1>5, <2>1
    <3>2. \A i \in 1..pos : i \in 1..l.pos \/ i = pos
        BY <1>5, <2>1
    <3> HIDE DEF pos
    <3> QED
        BY <1>5, <2>1, <3>1, <3>2 DEF SentAfter
  <2> HIDE DEF rest, pos
  <2>8. m.pc = "d_enq" /\ m.todo = rest /\ m.pos = pos
      BY <1>1, <2>1 DEF Memory
  <2>9. pos + Len(rest) <= Len(outbox')
      BY <1>5, <2>1, <2>3
  <2> QED
      BY <2>5, <2>6, <2>8, <2>9
<1> QED
    BY <1>1, <1>3, <1>6, <1>7, <1>8, <1>9, DispatchMover

-----------------------------------------------------------------------------
(* Who acknowledges.                                                       *)

\* Settled, Overdue and AckerKnows, of the run after the step.
SettledAfter(t) == Terminal' \/ task'[t].status \in Finished
OverdueAfter(t) == task'[t].status = "queued" /\ task'[t].waited

AckerAfter(m) ==
    /\ m.pc \in {"ack", "p_expire"} => SettledAfter(m.msg)
    /\ m.then = "ack" => SettledAfter(m.msg) \/ OverdueAfter(m.msg)
    /\ m.then = "ack" /\ m.pc \in {"r_read", "r_tasks", "r_commit"} /\ m.msg = PlanningTaskID
         => SettledAfter(m.msg)
    /\ m.then = "ack" /\ m.pc \in {"d_read", "d_enq", "d_adv"} => SettledAfter(m.msg)

\* What held of the task of an acknowledging process still holds.
LEMMA AckerStays ==
    ASSUME Lasting, NEW t \in Tasks
    PROVE  /\ Settled(t) => SettledAfter(t)
           /\ Settled(t) \/ Overdue(t) => SettledAfter(t) \/ OverdueAfter(t)
BY DEF Lasting, Settled, Overdue, SettledAfter, OverdueAfter

\* Neither about to acknowledge nor recovering for an acknowledgement.
LEMMA NoAcker ==
    \A m : Shape(m) /\ m.pc \notin {"ack", "p_expire"} /\ (m.pc \in RecoveryPCs => m.then # "ack")
             => AckerAfter(m)
BY DEF Shape, AckerAfter

\* A queued task that has waited too long is that of a planned run, or the
\* planning request of a run that can be expired.
LEMMA OverdueTask ==
    ASSUME StoreInv, Planned, NEW t \in Tasks, Overdue(t), ~Terminal
    PROVE  /\ run.status \notin {"absent", "accepted"}
           /\ t = PlanningTaskID => CanExpirePlanning
           /\ t # PlanningTaskID => t \in Steps /\ run.rev = 1
<1>1. run.status \in RunStatus /\ run.rev \in {0, 1} /\ NoTask.status = "absent"
    BY TaskBasics DEF StoreInv, StoreTypeOK
<1>2. t # PlanningTaskID => t \in Steps
    BY DEF Tasks
<1>3. t # PlanningTaskID => run.rev = 1
    BY <1>1, <1>2 DEF StoreInv, NothingBeforePlanning, Overdue
<1>4. t = PlanningTaskID => run.rev = 0 /\ PlanningExpiry # ""
    BY <1>1 DEF Planned, Overdue, Finished, PlanningExpiry
<1>5. run.status \notin {"absent", "accepted"}
    BY <1>1, <1>2 DEF StoreInv, NothingBeforePlanning, Overdue
<1>6. t = PlanningTaskID => run.status = "planning"
  <2>1. ASSUME t = PlanningTaskID PROVE run.status # "running"
    <3>1. run.rev = 0
        BY <1>4, <2>1
    <3>2. run.status = "running" => run.rev = 1
        BY DEF Planned
    <3> QED
        BY <3>1, <3>2
  <2> QED
      BY <1>1, <1>5, <2>1 DEF RunStatus, RunOpen, Terminal
<1> QED
    BY <1>2, <1>3, <1>4, <1>5, <1>6 DEF CanExpirePlanning

\* A worker acknowledges what ended, or recovers first what waited too long.
LEMMA WorkerAcks ==
    ASSUME RunInv, DispatchInv, Lasting, NEW w \in Workers, local'[w] # local[w],
           WorkerStep(w) \/ Stall(w) \/ Interrupt(w) \/ Refuse(w)
    PROVE  AckerAfter(local'[w])
<1> DEFINE l == local[w]
           m == local'[w]
<1>1. /\ w \in Processes /\ Shaped /\ Shape(l) /\ l \in Memory /\ local \in [Processes -> Memory]
      /\ AckerKnows(l) /\ l.msg \in Tasks /\ PlanningTaskID \in Tasks
      /\ task \in [Tasks -> Task] /\ run.rev \in {0, 1}
    BY TaskBasics DEF RunInv, Shaped, RunTypeOK, DispatchInv, Memory, Processes, StoreTypeOK
<1>2. AckerAfter(Idle)
    BY IdleShape, NoAcker DEF RecoveryPCs
<1>3. ASSUME NEW t \in Tasks, NEW new, task' = [task EXCEPT ![t] = new], new.status \in Finished
      PROVE  SettledAfter(t)
    BY <1>1, <1>3 DEF SettledAfter
<1>4. CASE Dequeue(w)
  <2>1. m.pc = "setnx" /\ Shape(m)
      BY <1>1, <1>4, DequeueMoves
  <2> QED
      BY <2>1, NoAcker DEF RecoveryPCs
<1>5. ASSUME Moves(w) PROVE Shape(m)
    BY <1>5 DEF Moves, Follows
<1>6. CASE \/ AcquireLease(w) \/ Accept(w) \/ DeferDelivery(w) \/ Start(w) \/ Claim(w)
           \/ Execute(w) \/ KeepReceipt(w) \/ Settle(w) \/ BeginPlanning(w) \/ Build(w)
           \/ Interrupt(w)
  <2>1. Shape(m)
      BY <1>1, <1>5, <1>6, DeliveryMoves, StepMoves, PlanningMoves, FaultMoves
  <2>2. m = Idle \/ m.pc \in DeliveryPCs \ {"ack", "p_expire"}
      BY <1>1, <1>6, AbandonMoves DEF Memory, DeliveryPCs, AcquireLease, Accept, DeferDelivery, Start,
         Claim, Execute, KeepReceipt, Settle, BeginPlanning, Build, Interrupt, CallStore, Goto,
         Resolve
  <2>3. m.pc \in DeliveryPCs => m.pc \notin RecoveryPCs
      BY DEF DeliveryPCs, RecoveryPCs
  <2> QED
      BY <1>2, <2>1, <2>2, <2>3, NoAcker
<1>7. CASE Stall(w)
  <2>1. m.pc = l.pc /\ m.then = l.then /\ m.msg = l.msg
      BY <1>1, <1>7 DEF Stall, Memory
  <2> QED
      BY <1>1, <2>1, AckerStays DEF AckerKnows, AckerAfter
<1>8. CASE AckDelivery(w)
  <2>1. CASE Abandon(w)
      BY <1>1, <1>2, <2>1, AbandonMoves
  <2>2. CASE l.acked # "idle" /\ local' = [local EXCEPT ![w] = [Idle EXCEPT !.pc = l.acked]]
    <3>1. m.then = "idle" /\ m.pc \notin {"ack", "p_expire"}
        BY <1>1, <2>2, IdleShape DEF Memory
    <3>2. Shape(m)
        BY <1>1, <1>5, <1>8, DeliveryMoves
    <3> QED
        BY <3>1, <3>2, NoAcker
  <2> QED
      BY <1>8, <2>1, <2>2 DEF AckDelivery
\* The delivery l has goes on, to pc, or is forgotten.
<1>9. ASSUME NEW pc, Shape(m), m.pc = pc, m.msg = l.msg, pc \in {"ack", "p_expire"} => SettledAfter(l.msg),
             pc \in DeliveryPCs
      PROVE  AckerAfter(m)
  <2>1. m.then # "ack"
      BY <1>9 DEF Shape, DeliveryPCs, RecoveryPCs
  <2>2. pc \notin {"r_read", "r_tasks", "r_commit", "d_read", "d_enq", "d_adv"}
      BY <1>9 DEF DeliveryPCs
  <2> QED
      BY <1>9, <2>1 DEF AckerAfter
<1>10. CASE Refuse(w)
  <2>1. Shape(m)
      BY <1>1, <1>5, <1>10, DeliveryMoves
  <2>2. m.msg = l.msg /\ \/ m.pc = "ack" /\ Terminal
                         \/ m.pc = "defer"
      BY <1>1, <1>10 DEF Refuse, Goto, Memory
  <2>3. Terminal => SettledAfter(l.msg)
      BY DEF Lasting, SettledAfter
  <2> QED
      BY <1>9, <2>1, <2>2, <2>3 DEF DeliveryPCs
<1>11. CASE CheckDelivery(w)
  <2>1. Shape(m)
      BY <1>1, <1>5, <1>11, StepMoves
  <2>2. m.msg = l.msg /\ \/ m.pc = "ack" /\ Settled(l.msg)
                         \/ m.pc = "lease"
      BY <1>1, <1>11 DEF CheckDelivery, Goto, Memory, Settled, Finished
  <2> QED
      BY <1>1, <1>9, <2>1, <2>2, AckerStays DEF DeliveryPCs
<1>12. ASSUME NEW v, QueueWaitExpired(w, v) PROVE AckerAfter(m)
  <2>1. m.pc = "r_start" /\ m.msg = l.msg
      BY <1>1, <1>12 DEF QueueWaitExpired, Memory
  <2>2. OverdueAfter(l.msg)
      BY <1>12 DEF QueueWaitExpired, StoreSame, storeVars, OverdueAfter
  <2> QED
      BY <2>1, <2>2 DEF AckerAfter
<1>13. CASE TakeLease(w) \/ LeasePlanning(w)
  <2>1. CASE Abandon(w)
      BY <1>1, <1>2, <2>1, AbandonMoves
  <2>2. Shape(m)
      BY <1>1, <1>5, <1>13, StepMoves, PlanningMoves
  <2>3. CASE Goto(w, "start")
    <3>1. m.pc = "start" /\ m.msg = l.msg
        BY <1>1, <2>3 DEF Goto, Memory
    <3> QED
        BY <1>9, <2>2, <3>1 DEF DeliveryPCs
  <2>4. CASE local' = [local EXCEPT ![w].pc = "p_start", ![w].ver = @ + 1]
    <3>1. m.pc = "p_start" /\ m.msg = l.msg
        BY <1>1, <2>4 DEF Memory
    <3> QED
        BY <1>9, <2>2, <3>1 DEF DeliveryPCs
  <2> QED
      BY <1>12, <1>13, <2>1, <2>3, <2>4 DEF TakeLease, LeasePlanning, CallStore
<1>14. CASE Finish(w)
  <2>1. CASE Abandon(w)
      BY <1>1, <1>2, <2>1, AbandonMoves
  <2>2. CASE FinishOp(w) /\ local' = [local EXCEPT ![w].pc = "ack", ![w].acked = "r_read"]
    <3>1. m.pc = "ack" /\ m.msg = l.msg /\ Shape(m)
        BY <1>1, <1>5, <1>14, <2>2, StepMoves DEF Memory
    <3>2. SettledAfter(l.msg)
      <4>1. PICK new : /\ task' = [task EXCEPT ![l.msg] = new]
                       /\ \/ new = [task[l.msg] EXCEPT !.status = "completed"]
                          \/ new = [task[l.msg] EXCEPT !.status = "failed", !.reason = l.out]
          BY <2>2 DEF FinishOp, CompleteTask, FailTask, MutateTask
      <4>2. new.status \in Finished
          BY <1>1, <4>1 DEF Task, Finished
      <4> QED
          BY <1>1, <1>3, <4>1, <4>2
    <3> QED
        BY <1>9, <3>1, <3>2 DEF DeliveryPCs
  <2> QED
      BY <1>14, <2>1, <2>2 DEF Finish
<1>15. CASE CheckPlanning(w)
  <2>1. CASE Abandon(w)
      BY <1>1, <1>2, <2>1, AbandonMoves
  <2>2. Shape(m)
      BY <1>1, <1>5, <1>15, PlanningMoves
  <2>3. CASE /\ run.rev > 0 \/ Terminal
             /\ local' = [local EXCEPT ![w].pc = "ack",
                                       ![w].acked = IF Terminal THEN "idle" ELSE "r_start"]
    <3>1. m.pc = "ack" /\ m.msg = l.msg /\ l.msg = PlanningTaskID
        BY <1>1, <1>15, <2>3 DEF CheckPlanning, At, Shape, PlanPCs, Memory
    <3>2. Settled(l.msg)
        BY <1>1, <2>3, <3>1 DEF DispatchInv, Planned, Settled
    <3> QED
        BY <1>1, <1>9, <2>2, <3>1, <3>2, AckerStays DEF DeliveryPCs
  <2>4. CASE local' = [local EXCEPT ![w].pc = "p_lease", ![w].ver = run.version]
    <3>1. m.pc = "p_lease" /\ m.msg = l.msg
        BY <1>1, <2>4 DEF Memory
    <3> QED
        BY <1>9, <2>2, <3>1 DEF DeliveryPCs
  <2> QED
      BY <1>15, <2>1, <2>3, <2>4 DEF CheckPlanning
<1>16. CASE CommitPlan(w)
  <2>1. CASE Abandon(w)
      BY <1>1, <1>2, <2>1, AbandonMoves
  <2>2. CASE /\ \E p : CompletePlanning(run.version, Owner(w), l.tok, p)
             /\ local' = [local EXCEPT ![w].pc = "ack", ![w].acked = "r_start"]
    <3>1. m.pc = "ack" /\ m.msg = l.msg /\ l.msg = PlanningTaskID /\ Shape(m)
        BY <1>1, <1>5, <1>16, <2>2, PlanningMoves DEF CommitPlan, At, Shape, PlanPCs, Memory
    <3>2. task'[PlanningTaskID].status = "completed"
      <4>1. task[PlanningTaskID] \in Task
          BY <1>1
      <4>2. task'[PlanningTaskID] = [task[PlanningTaskID] EXCEPT !.status = "completed"]
          BY <1>1, <2>2 DEF CompletePlanning
      <4> QED
          BY <4>1, <4>2 DEF Task
    <3> QED
        BY <1>9, <3>1, <3>2 DEF DeliveryPCs, SettledAfter, Finished
  <2> QED
      BY <1>16, <2>1, <2>2 DEF CommitPlan
<1>17. CASE FailPlanning(w)
  <2>1. CASE Abandon(w)
      BY <1>1, <1>2, <2>1, AbandonMoves
  <2>2. Shape(m)
      BY <1>1, <1>5, <1>17, PlanningMoves
  <2>3. CASE Terminal /\ Goto(w, "ack")
    <3>1. m.pc = "ack" /\ m.msg = l.msg /\ SettledAfter(l.msg)
        BY <1>1, <2>3 DEF Goto, Memory, Lasting, SettledAfter
    <3> QED
        BY <1>9, <2>2, <3>1 DEF DeliveryPCs
  <2>4. CASE /\ FailTask(run.version, PlanningTaskID, Owner(w), l.tok, "planner.failed")
             /\ Goto(w, "p_expire")
    <3>1. m.pc = "p_expire" /\ m.msg = l.msg /\ l.msg = PlanningTaskID
        BY <1>1, <1>17, <2>4 DEF FailPlanning, Goto, At, Shape, PlanPCs, Memory
    <3>2. task'[PlanningTaskID].status = "failed"
        BY <1>1, <2>4 DEF FailTask, MutateTask, Task
    <3> QED
        BY <1>9, <2>2, <3>1, <3>2 DEF DeliveryPCs, SettledAfter, Finished
  <2> QED
      BY <1>17, <2>1, <2>3, <2>4 DEF FailPlanning
<1>18. CASE CloseFailedPlanning(w)
  <2>1. l.pc = "p_expire" /\ m.pc = "ack" /\ m.msg = l.msg /\ Shape(m)
      BY <1>1, <1>5, <1>18, PlanningMoves DEF CloseFailedPlanning, CallStore, At, Goto, Memory
  <2>2. SettledAfter(l.msg)
      BY <1>1, <2>1, AckerStays DEF AckerKnows
  <2> QED
      BY <1>9, <2>1, <2>2 DEF DeliveryPCs
<1> QED
    BY <1>4, <1>6, <1>7, <1>8, <1>10, <1>11, <1>13, <1>14, <1>15, <1>16, <1>17, <1>18 DEF WorkerStep

\* RecoverRun before an Ack returns only when the task that waited too long,
\* the planning request or a step, has been ended.
LEMMA RecoveryAcks ==
    ASSUME RunInv, DispatchInv, Lasting, NEW p \in Processes, local'[p] # local[p],
           RecoverStep(p) \/ Scan(p) \/ Submit(p) \/ Crash(p)
    PROVE  AckerAfter(local'[p])
<1> DEFINE l == local[p]
           m == local'[p]
           t == local[p].msg
<1>1. /\ Shaped /\ Shape(l) /\ l \in Memory /\ local \in [Processes -> Memory]
      /\ AckerKnows(l) /\ t \in Tasks /\ PlanningTaskID \in Tasks /\ StoreInv /\ Planned
      /\ l.then \in {"idle", "ack"} /\ Steps \subseteq Tasks
    BY TaskBasics DEF RunInv, Shaped, RunTypeOK, DispatchInv, Memory
<1>2. AckerAfter(Idle)
    BY IdleShape, NoAcker DEF RecoveryPCs
<1>3. /\ Settled(t) => SettledAfter(t)
      /\ Settled(t) \/ Overdue(t) => SettledAfter(t) \/ OverdueAfter(t)
    BY <1>1, AckerStays
\* l goes on recovering at pc, with what a later place has to know.
<1>4. ASSUME NEW pc, m.pc = pc, m.msg = t, m.then = l.then, pc \in RecoveryPCs,
             l.then = "ack" /\ pc \in {"r_read", "r_tasks", "r_commit"} /\ t = PlanningTaskID
               => SettledAfter(t),
             l.then = "ack" /\ pc \in {"d_read", "d_enq", "d_adv"} => SettledAfter(t)
      PROVE  AckerAfter(m)
  <2>1. m.then = "ack" => SettledAfter(t) \/ OverdueAfter(t)
      BY <1>1, <1>3, <1>4 DEF AckerKnows
  <2>2. m.pc \notin {"ack", "p_expire"}
      BY <1>4 DEF RecoveryPCs
  <2> QED
      BY <1>4, <2>1, <2>2 DEF AckerAfter
\* The recovery returns.
<1>5. ASSUME Return(p), l.then = "ack" => SettledAfter(t)
      PROVE  AckerAfter(m)
  <2>1. CASE m = Idle
      BY <1>2, <2>1
  <2>2. CASE /\ l.then = "ack"
             /\ m = [l EXCEPT !.pc = "ack", !.then = "idle", !.ver = 0, !.dec = NoDecision,
                              !.todo = <<>>, !.pos = 0]
    <3>1. m.pc = "ack" /\ m.then = "idle" /\ m.msg = t
        BY <1>1, <2>2 DEF Memory
    <3> QED
        BY <1>5, <2>2, <3>1 DEF AckerAfter
  <2> QED
      BY <1>1, <1>5, <2>1, <2>2, ReturnMoves
<1>6. CASE Abandon(p) \/ Crash(p)
    BY <1>1, <1>2, <1>6, AbandonMoves DEF Crash
<1>7. CASE Scan(p) \/ Submit(p)
  <2>1. l.then # "ack" /\ m.then = l.then /\ m.pc \notin {"ack", "p_expire"} /\ Shape(m)
    <3>1. l.pc = "idle"
        BY <1>7 DEF Scan, Submit, At
    <3>2. l.then # "ack"
        BY <1>1, <3>1 DEF Shape, RecoveryPCs
    <3>3. Shape(m)
        BY <1>1, <1>7, RecoverMoves, DispatchMoves DEF Moves, Follows
    <3>4. m.then = l.then /\ m.pc \notin {"ack", "p_expire"}
        BY <1>1, <1>7 DEF Scan, Submit, Goto, Memory
    <3> QED
        BY <3>2, <3>3, <3>4
  <2> QED
      BY <2>1, NoAcker
<1>8. ASSUME NEW pc, Goto(p, pc) PROVE m.pc = pc /\ m.msg = t /\ m.then = l.then
    BY <1>1, <1>8 DEF Goto, Memory
<1>9. CASE RecoverStart(p)
  <2>1. Goto(p, "r_expire")
      BY <1>9 DEF RecoverStart, CallStore
  <2> QED
      BY <1>4, <1>8, <2>1 DEF RecoveryPCs
<1>10. CASE RecoverExpire(p)
  <2>1. /\ Goto(p, "r_read") /\ l.pc = "r_expire"
        /\ ExpirePlanning \/ ~CanExpirePlanning
      BY <1>10 DEF RecoverExpire, CallStore, At
  <2>2. CASE l.then = "ack" /\ t = PlanningTaskID /\ ~Settled(t)
    <3>1. Overdue(t) /\ ~Terminal
        BY <1>1, <2>2 DEF AckerKnows, Settled
    <3>2. ExpirePlanning
        BY <1>1, <2>1, <2>2, <3>1, OverdueTask
    <3>3. run'.status = "failed"
        BY <1>1, <3>2 DEF ExpirePlanning, Commit, StoreInv, StoreTypeOK
    <3>4. SettledAfter(t)
        BY <3>3 DEF SettledAfter, Terminal, RunTerminal
    <3> QED
        BY <1>4, <1>8, <2>1, <3>4 DEF RecoveryPCs
  <2>3. CASE ~(l.then = "ack" /\ t = PlanningTaskID /\ ~Settled(t))
      BY <1>3, <1>4, <1>8, <2>1, <2>3 DEF RecoveryPCs
  <2> QED
      BY <2>2, <2>3
<1>11. CASE ReconcileRead(p)
  <2>1. l.pc = "r_read"
      BY <1>11 DEF ReconcileRead, At
  <2>2. l.then = "ack" => Settled(t) \/ (Overdue(t) /\ ~Terminal /\ t # PlanningTaskID)
      BY <1>1, <2>1 DEF AckerKnows, Settled
  <2>3. CASE (Terminal \/ run.status \in {"absent", "accepted"}) /\ Return(p)
    <3>1. l.then = "ack" => Settled(t)
        BY <1>1, <2>2, <2>3, OverdueTask
    <3> QED
        BY <1>3, <1>5, <2>3, <3>1
  <2>4. CASE run.rev = 0 /\ Goto(p, "d_read")
    <3>1. l.then = "ack" => Settled(t)
        BY <1>1, <2>2, <2>4, OverdueTask
    <3> QED
        BY <1>3, <1>4, <1>8, <2>4, <3>1 DEF RecoveryPCs
  <2>5. CASE local' = [local EXCEPT ![p].pc = "r_tasks", ![p].ver = run.version]
    <3>1. m.pc = "r_tasks" /\ m.msg = t /\ m.then = l.then
        BY <1>1, <2>5 DEF Memory
    <3>2. l.then = "ack" /\ t = PlanningTaskID => Settled(t)
        BY <2>2
    <3> QED
        BY <1>3, <1>4, <3>1, <3>2 DEF RecoveryPCs
  <2> QED
      BY <1>11, <2>3, <2>4, <2>5 DEF ReconcileRead
<1>12. CASE ReconcileTasks(p)
  <2>1. PICK d \in Decisions :
          local' = [local EXCEPT ![p].dec = d,
                                 ![p].ver = IF d = NoDecision THEN 0 ELSE @,
                                 ![p].pc = IF d = NoDecision THEN "d_read" ELSE "r_commit"]
      BY <1>12 DEF ReconcileTasks
  <2> DEFINE pc == IF d = NoDecision THEN "d_read" ELSE "r_commit"
  <2>2. m.pc = pc /\ m.msg = t /\ m.then = l.then
    <3> DEFINE ver == IF d = NoDecision THEN 0 ELSE l.ver
    <3>1. local' = [local EXCEPT ![p] = [l EXCEPT !.dec = d, !.ver = ver, !.pc = pc]]
        BY <2>1
    <3> HIDE DEF ver, pc
    <3> QED
        BY <1>1, <3>1 DEF Memory
  <2>3. l.pc = "r_tasks"
      BY <1>12 DEF ReconcileTasks, At
  <2>4. l.then = "ack" => Settled(t) \/ (Overdue(t) /\ ~Terminal /\ t # PlanningTaskID)
      BY <1>1, <2>3 DEF AckerKnows, Settled
  <2>5. ASSUME d = NoDecision, Overdue(t), t # PlanningTaskID PROVE FALSE
    <3>1. t \in StepsIn({"queued"}) /\ task[t].waited /\ t \in StepsIn({"queued", "pending_dependency"})
        BY <1>1, <2>5 DEF Overdue, StepsIn, Tasks
    <3>2. NoDecision \notin Decide("expire", StepsIn({"queued", "pending_dependency"}))
        BY DEF NoDecision, Decide
    <3>3. NoDecision \notin Decide("timeout", {s \in StepsIn({"queued"}) : task[s].waited})
        BY DEF NoDecision, Decide
    <3> QED
        BY <2>5, <3>1, <3>2, <3>3 DEF Decisions
  <2>6. CASE d = NoDecision
    <3>1. l.then = "ack" => SettledAfter(t)
        BY <1>3, <2>4, <2>5, <2>6
    <3> QED
        BY <1>4, <2>2, <2>6, <3>1 DEF RecoveryPCs
  <2>7. CASE d # NoDecision
      BY <1>3, <1>4, <2>2, <2>4, <2>7 DEF RecoveryPCs
  <2> QED
      BY <2>6, <2>7
<1>13. CASE ReconcileCommit(p)
  <2>1. l.pc = "r_commit"
      BY <1>13 DEF ReconcileCommit, At
  <2>2. CASE DecidedOp(l.ver, l.dec) /\ l.dec.op = "close" /\ Return(p)
    <3>1. Transition(l.ver, l.dec.arg) /\ l.dec \in Decision
        BY <1>1, <2>2 DEF DecidedOp, Memory
    <3>2. l.dec.arg \in ReconcileOutcomes
        BY <2>2, <3>1 DEF Decision, NoDecision
    <3>3. run'.status = l.dec.arg
        BY <1>1, <3>1 DEF Transition, Commit, StoreInv, StoreTypeOK
    <3>4. SettledAfter(t)
        BY <3>2, <3>3 DEF SettledAfter, Terminal, RunTerminal, ReconcileOutcomes
    <3> QED
        BY <1>5, <2>2, <3>4
  <2>3. CASE local' = [local EXCEPT ![p].pc = "r_read", ![p].dec = NoDecision, ![p].ver = 0]
    <3>1. m.pc = "r_read" /\ m.msg = t /\ m.then = l.then
        BY <1>1, <2>3 DEF Memory
    <3>2. l.then = "ack" /\ t = PlanningTaskID => Settled(t)
        BY <1>1, <2>1 DEF AckerKnows
    <3> QED
        BY <1>3, <1>4, <3>1, <3>2 DEF RecoveryPCs
  <2> QED
      BY <1>13, <2>2, <2>3 DEF ReconcileCommit
<1>14. CASE DispatchRead(p) \/ DispatchEnqueue(p) \/ DispatchAdvance(p)
  <2>1. l.pc \in {"d_read", "d_enq", "d_adv"}
      BY <1>14 DEF DispatchRead, DispatchEnqueue, DispatchAdvance, At
  <2>2. l.then = "ack" => SettledAfter(t)
      BY <1>1, <1>3, <2>1 DEF AckerKnows
  <2>3. CASE Return(p)
      BY <1>5, <2>2, <2>3
  <2>4. CASE Goto(p, "d_adv")
      BY <1>4, <1>8, <2>2, <2>4 DEF RecoveryPCs
  <2>5. ASSUME NEW todo, NEW pos,
               local' = [local EXCEPT ![p] = [l EXCEPT !.pc = "d_enq", !.todo = todo, !.pos = pos]]
        PROVE  AckerAfter(m)
    <3>1. m.pc = "d_enq" /\ m.msg = t /\ m.then = l.then
        BY <1>1, <2>5 DEF Memory
    <3> QED
        BY <1>4, <2>2, <3>1 DEF RecoveryPCs
  <2>6. CASE local' = [local EXCEPT ![p].pc = "d_enq",
                                    ![p].todo = SubSeq(outbox, cursor + 1, Len(outbox)),
                                    ![p].pos = cursor]
      BY <2>5, <2>6
  <2>7. CASE local' = [local EXCEPT ![p].pc = "d_enq", ![p].todo = Tail(@), ![p].pos = @ + 1]
    <3>1. local' = [local EXCEPT ![p] = [l EXCEPT !.pc = "d_enq", !.todo = Tail(l.todo),
                                                 !.pos = l.pos + 1]]
        BY <2>7
    <3> QED
        BY <2>5, <3>1
  <2>8. CASE DispatchRead(p)
      BY <1>6, <2>3, <2>6, <2>8 DEF DispatchRead
  <2>9. CASE DispatchEnqueue(p)
      BY <2>4, <2>9 DEF DispatchEnqueue
  <2>10. CASE DispatchAdvance(p)
      BY <1>6, <2>3, <2>7, <2>10 DEF DispatchAdvance
  <2> QED
      BY <1>14, <2>8, <2>9, <2>10
<1> QED
    BY <1>6, <1>7, <1>9, <1>10, <1>11, <1>12, <1>13, <1>14 DEF RecoverStep

\* Every process that acknowledges, or will, knows how the task ended.
LEMMA AckerStep ==
    ASSUME RunInv, DispatchInv, Next, NEW p \in Processes
    PROVE  AckerKnows(local[p])'
<1>1. AckerAfter(local'[p]) => AckerKnows(local[p])'
    BY DEF AckerAfter, AckerKnows, SettledAfter, OverdueAfter, Settled, Overdue, Terminal
<1>2. Lasting /\ Shaped
    BY NextLasts DEF RunInv
<1>3. CASE local'[p] = local[p]
  <2>1. AckerKnows(local[p]) /\ local[p].msg \in Tasks
      BY <1>2 DEF DispatchInv, Shaped, RunTypeOK, Memory
  <2>2. AckerAfter(local[p])
      BY <1>2, <2>1, AckerStays DEF AckerKnows, AckerAfter
  <2> QED
      BY <1>1, <1>3, <2>2
<1>4. CASE local'[p] # local[p]
    BY <1>1, <1>2, <1>4, NextMover, WorkerAcks, RecoveryAcks
<1> QED
    BY <1>3, <1>4

\* Only advanceDispatchCursor moves the cursor.
LEMMA NextCursor ==
    ASSUME Next
    PROVE  cursor' = cursor \/ \E p \in Processes : DispatchAdvance(p)
<1>1. ASSUME NEW w \in Workers, WorkerStep(w) \/ Stall(w) \/ Interrupt(w) \/ Refuse(w)
      PROVE  cursor' = cursor
    BY <1>1 DEF RestSame, WorkerStep, Dequeue, AcquireLease, Accept, DeferDelivery, AckDelivery,
       CheckDelivery, TakeLease, QueueWaitExpired, CallStore, Start, Claim, Execute, KeepReceipt,
       Settle, Finish, CheckPlanning, LeasePlanning, BeginPlanning, Build, CommitPlan,
       FailPlanning, CloseFailedPlanning, Stall, Interrupt, Refuse
<1>2. ASSUME NEW p \in Processes, RecoverStep(p) \/ Scan(p) \/ Submit(p) \/ Crash(p)
      PROVE  cursor' = cursor \/ DispatchAdvance(p)
    BY <1>2 DEF RestSame, RecoverStep, RecoverStart, RecoverExpire, CallStore, ReconcileRead,
       ReconcileTasks, ReconcileCommit, DispatchRead, DispatchEnqueue, Scan, Submit, Crash
<1>3. CASE Admit \/ CancelRun \/ TimeStep \/ Over
    BY <1>3 DEF RestSame, Admit, CancelRun, TimeStep, Deadline, StoreLeaseElapses,
       BusLeaseExpires, EntryIdles, Promote, QueueTimeout, Over, vars
<1> QED
    BY <1>1, <1>2, <1>3 DEF Next, ApiStep, FaultStep, Processes

\* The cursor only moves to the entry that was just enqueued.
LEMMA CursorStep ==
    ASSUME RunInv, DispatchInv, Next
    PROVE  ~Terminal' => SentAfter(cursor')
<1> SUFFICES ASSUME ~Terminal' PROVE SentAfter(cursor')
    OBVIOUS
<1>1. Lasting /\ Shaped /\ ~Terminal /\ cursor \in Nat /\ RestStep
    BY NextLasts, NextRest DEF RunInv, Shaped, RunTypeOK, Lasting
<1>2. CASE cursor' = cursor
    BY <1>1, <1>2, SentStays DEF DispatchInv
<1>3. ASSUME NEW p \in Processes, DispatchAdvance(p) PROVE SentAfter(cursor')
  <2> DEFINE l == local[p]
             pos == l.pos + 1
  <2>1. cursor' = pos /\ l.pc = "d_adv" /\ Shape(l) /\ DispatcherKnows(l)
      BY <1>1, <1>3 DEF DispatchAdvance, At, Shaped, DispatchInv
  <2>2. /\ l.pos \in Nat /\ SentAfter(l.pos) /\ l.pos + Len(l.todo) <= Len(outbox')
        /\ Len(l.todo) \in Nat /\ Len(outbox') \in Nat /\ 1 \in 1..Len(l.todo)
        /\ outbox'[pos] = Head(l.todo) /\ bus'[Head(l.todo)].place # "none"
      BY <1>1, <2>1, KnownStays
  <2>3. pos <= Len(outbox')
      BY <2>2
  <2>4. \A i \in 1..pos : i \in 1..l.pos \/ i = pos
      BY <2>2
  <2> HIDE DEF pos
  <2>5. SentAfter(pos)
      BY <2>2, <2>3, <2>4 DEF SentAfter
  <2> QED
      BY <2>1, <2>5
<1>4. cursor' = cursor \/ \E p \in Processes : DispatchAdvance(p)
    BY NextCursor
<1> QED
    BY <1>2, <1>3, <1>4

\* The invariant is inductive.
LEMMA DispatchInvInit == Init => DispatchInv
<1> SUFFICES ASSUME Init PROVE DispatchInv
    OBVIOUS
<1>1. /\ \A t \in Tasks : task[t].status = "absent"
      /\ run.status = "absent" /\ run.rev = 0 /\ outbox = <<>> /\ cursor = 0
      /\ \A t \in Tasks : bus[t].place = "none"
      /\ \A p \in Processes : local[p] = Idle
    BY TaskBasics DEF Init, StoreInit, Bus!BusInit
<1>2. Outboxed /\ Planned
    BY <1>1 DEF Outboxed, Planned, Waiting
<1>3. Sent(cursor)
    BY <1>1 DEF Sent
<1>4. \A p \in Processes : DispatcherKnows(local[p]) /\ AckerKnows(local[p])
    BY <1>1, IdleShape DEF DispatcherKnows, AckerKnows
<1>5. \A t \in Tasks : bus[t].place # "acked"
    BY <1>1
<1> QED
    BY <1>2, <1>3, <1>4, <1>5 DEF DispatchInv

LEMMA DispatchInvNext == RunInv /\ DispatchInv /\ [Next]_vars => DispatchInv'
<1> SUFFICES ASSUME RunInv, DispatchInv, [Next]_vars PROVE DispatchInv'
    OBVIOUS
<1>1. CASE UNCHANGED vars
    BY <1>1 DEF vars, DispatchInv, Outboxed, Planned, Waiting, Sent, Settled, Overdue, Terminal,
       DispatcherKnows, AckerKnows
<1>2. CASE Next
  <2>1. Lasting /\ [StoreNext]_storeVars /\ BusStep /\ Bus!BusTypeOK
      BY <1>2, NextLasts, NextRest DEF RunInv, RestStep, Shaped, RunTypeOK
  <2>2. Outboxed' /\ Planned'
      BY <2>1, StoreKeeps DEF DispatchInv
  <2>3. (~Terminal => Sent(cursor))'
    <3>1. ~Terminal' => SentAfter(cursor')
        BY <1>2, CursorStep
    <3> QED
        BY <3>1 DEF Sent, SentAfter, Terminal
  <2>4. ASSUME NEW t \in Tasks, bus'[t].place = "acked" PROVE Settled(t)'
    <3>1. Settled(t) => Settled(t)'
        BY <2>1 DEF Lasting
    <3>2. CASE bus[t].place = "acked"
        BY <3>1, <3>2 DEF DispatchInv
    <3>3. ASSUME NEW w \in Workers, At(w, "ack"), local[w].msg = t PROVE Settled(t)
        BY <3>3 DEF DispatchInv, AckerKnows, At, Processes
    <3> QED
        BY <2>1, <2>4, <3>1, <3>2, <3>3, BusKeeps
  <2>5. \A p \in Processes : (DispatcherKnows(local[p]) /\ AckerKnows(local[p]))'
      BY <1>2, DispatcherStep, AckerStep
  <2> QED
      BY <2>2, <2>3, <2>4, <2>5 DEF DispatchInv
<1> QED
    BY <1>1, <1>2

LEMMA DispatchInvariance == Spec => [](RunInv /\ DispatchInv)
BY RunInvInit, RunInvNext, DispatchInvInit, DispatchInvNext, PTL DEF Spec

\* QueueTask to Ack: whatever crashes between the commit, Enqueue, the cursor
\* and the Ack, a task of an open run that waits for or is with a worker is
\* in the undispatched outbox or still on the bus.
THEOREM NothingLost == Spec => []NoLostTask
<1>1. RunInv /\ DispatchInv => NoLostTask
  <2> SUFFICES ASSUME RunInv, DispatchInv, Open, NEW t \in Tasks, Waiting(t),
                      ~\E i \in 1..Len(outbox) : i > cursor /\ outbox[i] = t
               PROVE  bus[t].place \in {"stream", "pending", "delay"}
      BY DEF NoLostTask, Waiting
  <2>1. ~Terminal /\ cursor \in Nat /\ outbox \in Seq(Tasks)
      BY DEF Open, RunOpen, Terminal, RunTerminal, RunInv, Shaped, RunTypeOK, StoreTypeOK
  <2>2. PICK i \in 1..Len(outbox) : outbox[i] = t
      BY <2>1 DEF DispatchInv, Outboxed
  <2>3. Len(outbox) \in Nat
      BY <2>1, LenProperties
  <2>4. i \in 1..cursor
      BY <2>1, <2>2, <2>3
  <2>5. bus[t].place # "none"
      BY <2>1, <2>2, <2>4 DEF DispatchInv, Sent
  <2>6. bus[t].place # "acked"
      BY <2>1 DEF DispatchInv, Settled, Waiting, Finished
  <2>7. bus[t].place \in Bus!Places
      BY DEF RunInv, Shaped, RunTypeOK, Bus!BusTypeOK
  <2> QED
      BY <2>5, <2>6, <2>7 DEF Bus!Places
<1> QED
    BY <1>1, DispatchInvariance, PTL
=============================================================================
