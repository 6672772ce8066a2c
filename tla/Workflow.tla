------------------------------ MODULE Workflow ------------------------------
(***************************************************************************)
(* One workflow instance.  Runners (the background worker, the drain of    *)
(* the start request) lease queued step records, execute them and advance  *)
(* the graph; reviewers decide the review tasks that human.review steps    *)
(* open and then drain the graph themselves; an operator controls the      *)
(* instance.  Every access to the database is a step of its own: none of   *)
(* these operations runs in a transaction or under a lock.                 *)
(***************************************************************************)
EXTENDS Naturals, Sequences, FiniteSets, SequencesExt

CONSTANTS Actors,      \* processes and requests
          Setups,      \* workflow definitions, each with who works on the instance
          BatchSize

VARIABLES setup,      \* the setup of this instance, which never changes
          inst,       \* state of the WorkflowInstance
          recs,       \* WorkflowStepRecords, in the order of their ids
          tasks,      \* HumanReviewTasks
          actor,      \* what every runner and reviewer is doing
          retrying,   \* manualRetryStep is between its two writes
          controls, aborts

vars == <<setup, inst, recs, tasks, actor, retrying, controls, aborts>>

\* The definition: its steps with next_step_ids and depends_on, the human.review
\* steps with approved_route and rejected_route, the steps whose executor may
\* find no route, and the compensation.rollback steps.
Steps == setup.steps
NextOf == setup.next
DependsOn == setup.dependsOn
Reviews == DOMAIN setup.approved
Approved == setup.approved
Rejected == setup.rejected
Decisions == setup.decisions
Rollbacks == setup.rollbacks
Runners == setup.runners
Reviewers == setup.reviewers

SetupOK(d) ==
    /\ d.start \in d.steps
    /\ d.next \in [d.steps -> Seq(d.steps)] /\ d.dependsOn \in [d.steps -> SUBSET d.steps]
    /\ DOMAIN d.approved = DOMAIN d.rejected /\ DOMAIN d.approved \subseteq d.steps
    /\ Range(d.approved) \cup Range(d.rejected) \subseteq d.steps
    /\ d.decisions \subseteq d.steps /\ d.rollbacks \subseteq d.steps
    /\ d.runners \cup d.reviewers \subseteq Actors /\ d.runners \cap d.reviewers = {}
    \* The actions the operator uses, and bounds.
    /\ d.controls \subseteq {"pause", "resume", "cancel", "retry_step", "trigger_compensation"}
    /\ d.maxRecords \in Nat /\ d.maxControls \in Nat /\ d.maxAborts \in Nat

ASSUME WorkflowAssumption == (\A d \in Setups : SetupOK(d)) /\ BatchSize \in Nat \ {0}

States == {"running", "waiting", "suspended", "succeeded", "failed", "compensating", "canceled"}
ReviewActions == {"approve", "reject", "cancel"}
StatusFor == [approve |-> "approved", reject |-> "rejected", cancel |-> "canceled"]

\* runs counts the executions of a record.
NewRecord(s, manual) ==
    [step |-> s, state |-> "queued", runs |-> 0, manual |-> manual]
\* batch: the leased records still to go through, in the order of their ids; todo:
\* the next steps still to enqueue; set: what is still to be written to the instance.
NoWork == [pc |-> "idle", batch |-> {}, todo |-> <<>>, set |-> <<>>, res |-> "none",
           stop |-> FALSE, task |-> 0, act |-> "none", rec |-> 0]
StepRecord == [step : Steps, runs : Nat, manual : BOOLEAN,
               state : {"queued", "in_progress", "waiting", "completed", "failed"}]
ReviewTask == [step : Reviews, acts : SUBSET ReviewActions,
               status : {"pending", "approved", "rejected", "canceled"}]
Work ==
    [pc : {"idle", "lease", "check", "exec", "result", "route", "enqueue", "list", "instance",
           "decide", "apply", "finish"},
     batch : SUBSET (Nat \ {0}), todo : Seq(Steps), set : Seq(States),
     res : {"none", "waiting", "failed", "compensating", "succeeded"}, stop : BOOLEAN,
     task : Nat, act : ReviewActions \cup {"none"}, rec : Nat]

WorkflowTypeOK ==
    /\ setup \in Setups /\ inst \in States /\ retrying \in BOOLEAN
    /\ recs \in Seq(StepRecord) /\ tasks \in Seq(ReviewTask)
    /\ actor \in [Actors -> Work] /\ \A a \in Actors : actor[a].batch \subseteq DOMAIN recs
    /\ controls \in 0..setup.maxControls /\ aborts \in 0..setup.maxAborts

-----------------------------------------------------------------------------
\* FindLatestByStep
Latest(s) ==
    LET found == {r \in DOMAIN recs : recs[r].step = s}
    IN  IF found = {} THEN 0 ELSE Max(found)

DependenciesCompleted(s) ==
    \A d \in DependsOn[s] : Latest(d) # 0 /\ recs[Latest(d)].state = "completed"

Queued_Expired == {r \in DOMAIN recs : recs[r].state \in {"queued", "in_progress"}}
Queued == {r \in DOMAIN recs : recs[r].state = "queued"}

\* The record of its batch an actor is at.
Current(a) == Min(actor[a].batch)

\* What convergeInstanceState makes of the records it has read.
Verdict_IgnoresFailure ==
    IF \E r \in DOMAIN recs : recs[r].state \in {"queued", "in_progress", "waiting"}
    THEN "running" ELSE "succeeded"
Verdict ==
    IF \E r \in DOMAIN recs : recs[r].state = "failed" THEN "failed"
    ELSE IF \E r \in DOMAIN recs : recs[r].state \in {"queued", "in_progress", "waiting"}
         THEN "running" ELSE "succeeded"

\* The runner is through with the first record of its batch.  A reviewer's
\* drain ends with a convergence of its own, a runner's with the batch.
AfterRecord(a) ==
    LET x == actor[a]
        rest == x.batch \ {Current(a)}
        stop == x.stop \/ x.res \in {"waiting", "failed", "compensating"}
    IN  [NoWork EXCEPT !.batch = rest, !.stop = stop,
                       !.pc = IF rest # {} THEN "check"
                              ELSE IF a \in Runners THEN "idle"
                              ELSE IF stop THEN "list" ELSE "lease"]

\* Continue with the next steps that are left to enqueue.
Enqueuing(x, todo) ==
    [x EXCEPT !.todo = todo,
              !.pc = IF todo # <<>> THEN "enqueue" ELSE IF x.batch = {} THEN "lease" ELSE "list"]

SetActor(a, x) == actor' = [actor EXCEPT ![a] = x]
SetState(r, state) == recs' = [recs EXCEPT ![r].state = state]

\* StartInstance with one start step.
Init ==
    /\ setup \in Setups
    /\ inst = "running" /\ recs = <<NewRecord(setup.start, FALSE)>> /\ tasks = <<>>
    /\ actor = [a \in Actors |-> NoWork]
    /\ retrying = FALSE /\ controls = 0 /\ aborts = 0

-----------------------------------------------------------------------------
\* Runner.

LeaseQueuedSteps(a) ==
    LET due == {r \in Queued : Cardinality({q \in Queued : q < r}) < BatchSize}
    IN  /\ actor[a].pc = IF a \in Runners THEN "idle" ELSE "lease"
        /\ due # {}
        /\ recs' = [i \in DOMAIN recs |-> IF i \in due
                                          THEN [recs[i] EXCEPT !.state = "in_progress"] ELSE recs[i]]
        /\ SetActor(a, [NoWork EXCEPT !.pc = "check", !.batch = due])
        /\ UNCHANGED <<setup, inst, tasks, retrying, controls, aborts>>

\* A reviewer's drain finds nothing more to lease.
NothingDue(a) ==
    /\ actor[a].pc = "lease" /\ Queued = {}
    /\ SetActor(a, [NoWork EXCEPT !.pc = "list"])
    /\ UNCHANGED <<setup, inst, recs, tasks, retrying, controls, aborts>>

\* runLeasedStep reads the instance and skips a step of a stopped one.
CheckInstance(a) ==
    /\ actor[a].pc = "check"
    /\ SetActor(a, IF inst \in {"canceled", "suspended"} THEN AfterRecord(a)
                   ELSE [actor[a] EXCEPT !.pc = "exec"])
    /\ UNCHANGED <<setup, inst, recs, tasks, retrying, controls, aborts>>

\* The adapter runs.  human.review opens its task before the step waits.
Execute(a) ==
    LET r == Current(a)
        s == recs[r].step
        Result(res) == SetActor(a, [actor[a] EXCEPT !.pc = "result", !.res = res])
    IN  /\ actor[a].pc = "exec"
        /\ recs' = [recs EXCEPT ![r].runs = @ + 1]
        /\ \/ s \in Reviews /\ Result("waiting")
              /\ tasks' = Append(tasks, [step |-> s, status |-> "pending", acts |-> {}])
           \/ s \in Rollbacks /\ Result("compensating") /\ UNCHANGED tasks
           \/ s \notin Reviews \cup Rollbacks /\ Result("succeeded") /\ UNCHANGED tasks
           \/ Result("failed") /\ UNCHANGED tasks
        /\ UNCHANGED <<setup, inst, retrying, controls, aborts>>

\* completeStep, markStepWaiting, failStep and markInstanceCompensating write
\* the record; what they write to the instance follows.
UpdateStep(a) ==
    LET x == actor[a]
        Then(state, set) == /\ SetState(Current(a), state)
                            /\ SetActor(a, [x EXCEPT !.pc = "instance", !.set = set])
    IN  /\ x.pc = "result"
        /\ \/ x.res = "waiting" /\ Then("waiting", <<"waiting">>)
           \/ x.res = "failed" /\ Then("failed", <<"failed">>)
           \/ x.res = "compensating" /\ Then("failed", <<"failed", "compensating">>)
           \/ /\ x.res = "succeeded"
              /\ SetState(Current(a), "completed")
              /\ SetActor(a, [x EXCEPT !.pc = "route"])
        /\ UNCHANGED <<setup, inst, tasks, retrying, controls, aborts>>

\* router.NextSteps; a decision without a route fails the completed step.
NextSteps(a) ==
    LET s == recs[Current(a)].step
    IN  /\ actor[a].pc = "route"
        /\ \/ SetActor(a, Enqueuing(actor[a], NextOf[s]))
           \/ /\ s \in Decisions
              /\ SetActor(a, [actor[a] EXCEPT !.pc = "result", !.res = "failed"])
        /\ UNCHANGED <<setup, inst, recs, tasks, retrying, controls, aborts>>

\* One next step: appended when its dependencies are complete, else passed over.
EnqueueNextSteps_Return(a) ==
    LET s == Head(actor[a].todo)
    IN  /\ actor[a].pc = "enqueue" /\ Len(recs) < setup.maxRecords
        /\ recs' = IF DependenciesCompleted(s) THEN Append(recs, NewRecord(s, FALSE)) ELSE recs
        /\ SetActor(a, Enqueuing(actor[a], IF DependenciesCompleted(s) THEN Tail(actor[a].todo) ELSE <<>>))
        /\ UNCHANGED <<setup, inst, tasks, retrying, controls, aborts>>
EnqueueNextSteps(a) ==
    LET s == Head(actor[a].todo)
    IN  /\ actor[a].pc = "enqueue" /\ Len(recs) < setup.maxRecords
        /\ recs' = IF DependenciesCompleted(s) THEN Append(recs, NewRecord(s, FALSE)) ELSE recs
        /\ SetActor(a, Enqueuing(actor[a], Tail(actor[a].todo)))
        /\ UNCHANGED <<setup, inst, tasks, retrying, controls, aborts>>

\* convergeInstanceState reads the records; the instance is written later.
ListRecords(a) ==
    /\ actor[a].pc = "list"
    /\ SetActor(a, [actor[a] EXCEPT !.pc = "instance", !.set = <<Verdict>>])
    /\ UNCHANGED <<setup, inst, recs, tasks, retrying, controls, aborts>>

WriteInstance(a) ==
    LET x == actor[a]
    IN  /\ x.pc = "instance"
        /\ inst' = Head(x.set)
        /\ SetActor(a, IF Len(x.set) > 1 THEN [x EXCEPT !.set = Tail(x.set)]
                       ELSE IF x.batch = {} THEN NoWork ELSE AfterRecord(a))
        /\ UNCHANGED <<setup, recs, tasks, retrying, controls, aborts>>

-----------------------------------------------------------------------------
\* Human review.  request_changes takes the same route as reject.

\* ActHumanReviewTask reads a pending task.
ActHumanReviewTask(a, t, action) ==
    /\ a \in Reviewers /\ actor[a].pc = "idle" /\ tasks[t].status = "pending"
    /\ SetActor(a, [NoWork EXCEPT !.pc = "decide", !.task = t, !.act = action])
    /\ UNCHANGED <<setup, inst, recs, tasks, retrying, controls, aborts>>

UpdateDecision(a) ==
    /\ actor[a].pc = "decide"
    /\ tasks' = [tasks EXCEPT ![actor[a].task].status = StatusFor[actor[a].act],
                              ![actor[a].task].acts = @ \cup {actor[a].act}]
    /\ SetActor(a, [actor[a] EXCEPT !.pc = "apply"])
    /\ UNCHANGED <<setup, inst, recs, retrying, controls, aborts>>

\* applyHumanReviewDecision finds the waiting record of the step or fails.
FindReviewStep(a) ==
    LET r == Latest(tasks[actor[a].task].step)
    IN  /\ actor[a].pc = "apply"
        /\ SetActor(a, IF recs[r].state = "waiting" THEN [actor[a] EXCEPT !.pc = "finish", !.rec = r]
                       ELSE NoWork)
        /\ UNCHANGED <<setup, inst, recs, tasks, retrying, controls, aborts>>

ApplyDecision_AnyRoute(a) ==
    LET x == actor[a]
        s == recs[x.rec].step
    IN  /\ x.pc = "finish"
        /\ \/ /\ x.act = "cancel"
              /\ SetState(x.rec, "failed")
              /\ SetActor(a, [NoWork EXCEPT !.pc = "instance", !.set = <<"failed">>])
           \/ /\ x.act # "cancel"
              /\ SetState(x.rec, "completed")
              /\ SetActor(a, Enqueuing(NoWork, <<Approved[s]>>))
        /\ UNCHANGED <<setup, inst, tasks, retrying, controls, aborts>>
ApplyDecision(a) ==
    LET x == actor[a]
        s == recs[x.rec].step
    IN  /\ x.pc = "finish"
        /\ \/ /\ x.act = "cancel"
              /\ SetState(x.rec, "failed")
              /\ SetActor(a, [NoWork EXCEPT !.pc = "instance", !.set = <<"failed">>])
           \/ /\ x.act # "cancel"
              /\ SetState(x.rec, "completed")
              /\ SetActor(a, Enqueuing(NoWork, <<IF x.act = "approve" THEN Approved[s] ELSE Rejected[s]>>))
        /\ UNCHANGED <<setup, inst, tasks, retrying, controls, aborts>>

-----------------------------------------------------------------------------
\* ControlInstance: none of its actions looks at the state of the instance.

Control(action) == action \in setup.controls /\ controls < setup.maxControls /\ controls' = controls + 1

PauseInstance ==
    Control("pause") /\ inst' = "suspended" /\ UNCHANGED <<setup, recs, tasks, actor, retrying, aborts>>
ResumeInstance ==
    Control("resume") /\ inst' = "running" /\ UNCHANGED <<setup, recs, tasks, actor, retrying, aborts>>
CancelInstance ==
    Control("cancel") /\ inst' = "canceled" /\ UNCHANGED <<setup, recs, tasks, actor, retrying, aborts>>

\* manualRetryStep appends a record for any step of the definition ...
ManualRetryStep(s) ==
    /\ Control("retry_step") /\ ~retrying /\ Len(recs) < setup.maxRecords
    /\ recs' = Append(recs, NewRecord(s, TRUE)) /\ retrying' = TRUE
    /\ UNCHANGED <<setup, inst, tasks, actor, aborts>>
\* ... and then sets the instance running.
RetryRunning ==
    /\ retrying /\ inst' = "running" /\ retrying' = FALSE
    /\ UNCHANGED <<setup, recs, tasks, actor, controls, aborts>>

\* A compensation row is created, which no code executes.
ManualTriggerCompensation(s) ==
    /\ Control("trigger_compensation") /\ Latest(s) # 0
    /\ inst' = "compensating"
    /\ UNCHANGED <<setup, recs, tasks, actor, retrying, aborts>>

\* The process stops, the request is canceled or the database fails: the
\* rest of the batch stays as it is.
Abort(a) ==
    /\ aborts < setup.maxAborts /\ actor[a].pc # "idle"
    /\ aborts' = aborts + 1 /\ SetActor(a, NoWork)
    /\ UNCHANGED <<setup, inst, recs, tasks, retrying, controls>>

-----------------------------------------------------------------------------
RunStep(a) ==
    \/ LeaseQueuedSteps(a) \/ NothingDue(a) \/ CheckInstance(a) \/ Execute(a) \/ UpdateStep(a)
    \/ NextSteps(a) \/ EnqueueNextSteps(a) \/ ListRecords(a) \/ WriteInstance(a)
ReviewStep(a) == UpdateDecision(a) \/ FindReviewStep(a) \/ ApplyDecision(a)
Review(a) == \E t \in DOMAIN tasks, action \in ReviewActions : ActHumanReviewTask(a, t, action)
Operate ==
    \/ PauseInstance \/ ResumeInstance \/ CancelInstance \/ RetryRunning
    \/ \E s \in Steps : ManualRetryStep(s) \/ ManualTriggerCompensation(s)

Next ==
    \/ \E a \in Actors : RunStep(a) \/ ReviewStep(a) \/ Review(a) \/ Abort(a)
    \/ Operate

Spec == Init /\ [][Next]_vars

\* The background worker polls for ever; a request that has begun runs on.
Fairness == \A a \in Actors : WF_vars(RunStep(a)) /\ WF_vars(ReviewStep(a))
LiveSpec == Spec /\ Fairness

-----------------------------------------------------------------------------
\* Properties.

Quiescent ==
    /\ Queued = {} /\ ~retrying
    /\ \A a \in Actors : actor[a].pc = "idle"

Undisturbed == Cardinality(Runners) = 1 /\ Reviews = {} /\ controls = 0 /\ aborts = 0

\* Leases: however many runners and reviewers drain at once, and whichever of
\* them stops, a record is executed once at most.
StepRunsOnce == \A r \in DOMAIN recs : recs[r].runs <= 1

\* A step that every step it depends on leads to, none of them a human.review,
\* which leads to its routes only.
Joined(s) == \A d \in DependsOn[s] : d \notin Reviews /\ s \in Range(NextOf[d])

\* Joins: branches that finish at the same time in different runners never
\* leave each other to queue the step that depends on both, whatever the
\* operator does.
NoStepLost ==
    Quiescent /\ aborts = 0 =>
        \A r \in DOMAIN recs : recs[r].state = "completed" /\ recs[r].step \notin Reviews =>
            \A s \in Range(NextOf[recs[r].step]) :
                Joined(s) /\ DependenciesCompleted(s) => Latest(s) # 0

\* The steps that nothing but an approval leads to.
Gated ==
    {s \in Range(Approved) : /\ s # setup.start /\ s \notin Range(Rejected)
                             /\ \A d \in Steps : s \notin Range(NextOf[d])}

\* Review gate: a step behind an approval is queued only after somebody
\* approved, whatever other reviewers, runners and the operator do meanwhile.
ApprovedBeforePublish ==
    \A r \in DOMAIN recs : recs[r].step \in Gated /\ ~recs[r].manual =>
        \E t \in DOMAIN tasks : Approved[tasks[t].step] = recs[r].step /\ "approve" \in tasks[t].acts

\* Convergence: a single runner that nobody disturbs ends with every step
\* settled and the instance saying what the records say.
Settles ==
    []<>~Undisturbed \/
    <>[](/\ Quiescent /\ inst # "running"
         /\ inst = "succeeded" <=> \A r \in DOMAIN recs : recs[r].state = "completed")
=============================================================================
