-------------------------- MODULE RuntimeScheduler --------------------------
(***************************************************************************)
(* One job of the runtime scheduler: dispatchers of several replicas and   *)
(* callers of the job API change it under its fence, a session lock of     *)
(* PostgreSQL, and the events of its runs are published after the commit,  *)
(* before the fence is released.                                           *)
(***************************************************************************)
EXTENDS Integers, FiniteSets, FiniteSetsExt

CONSTANTS Dispatchers, Callers,
          Schedules,     \* schedule_type and schedule_expr: the time, the period, or
                         \* the matching times, as a set
          Horizon,       \* maxCronSearchMinutes
          MaxTime, MaxRevision, MaxCalls, MaxFaults   \* bounds

Actors == Dispatchers \cup Callers

ASSUME SchedulerAssumption ==
    /\ Horizon \in Nat
    /\ MaxTime \in Nat /\ MaxRevision \in Nat \ {0} /\ MaxCalls \in Nat /\ MaxFaults \in Nat
    /\ Schedules \subseteq [type : {"once", "interval", "cron"}, expr : SUBSET (1..(MaxTime + Horizon))]
    /\ \A s \in Schedules : s.expr # {} /\ (s.type # "cron" => Cardinality(s.expr) = 1)
    /\ Dispatchers \cap Callers = {} /\ "none" \notin Actors

VARIABLES job,     \* the SchedulerJob row; next = 0 is a next_run_at of NULL
          runs,    \* SchedulerJobRun rows, with the revision and schedule type they were
                   \* made from, and whether that schedule had a time after them
          fence,   \* holder of the advisory lock
          actor,   \* what every dispatcher and caller is doing
          now, calls, faults

vars == <<job, runs, fence, actor, now, calls, faults>>

Ops == {"dispatch", "update", "pause", "resume", "trigger", "delete"}
NoOp == [op |-> "none", pc |-> "idle", at |-> 0, seen |-> 0]
Jobs == [status : {"none", "active", "paused", "completed", "deleted"},
         rev : 0..MaxRevision, next : Nat, schedule : Schedules]
Types == {"once", "interval", "cron"}
Runs == [rev : 1..MaxRevision, slot : Nat, source : Types \cup {"manual"}, type : Types,
         hasNext : BOOLEAN, published : BOOLEAN]

SchedulerTypeOK ==
    /\ job \in Jobs /\ runs \subseteq Runs /\ fence \in Actors \cup {"none"}
    /\ actor \in [Actors -> [op : Ops \cup {"none"}, at : 0..MaxTime, seen : 0..MaxRevision,
                             pc : {"idle", "wait", "read", "commit", "publish", "release"}]]
    /\ now \in 0..MaxTime /\ calls \in 0..MaxCalls /\ faults \in 0..MaxFaults
    /\ job.status \in {"completed", "deleted"} => job.next = 0

Init ==
    /\ job \in [status : {"none"}, rev : {0}, next : {0}, schedule : Schedules]
    /\ runs = {} /\ fence = "none" /\ now = 0 /\ calls = 0 /\ faults = 0
    /\ actor = [a \in Actors |-> NoOp]

-----------------------------------------------------------------------------
\* computeNextRun: the next time, or {} for an error.
NextRun(schedule, t) ==
    CASE schedule.type = "once" -> schedule.expr
      [] schedule.type = "interval" -> {t + p : p \in schedule.expr}
      [] schedule.type = "cron" ->
           LET found == {x \in schedule.expr : t < x /\ x <= t + Horizon}
           IN  IF found = {} THEN {} ELSE {Min(found)}

Move(a, pc) == actor' = [actor EXCEPT ![a].pc = pc]
Busy(a, op) == actor[a].pc = "commit" /\ actor[a].op = op /\ job.rev < MaxRevision
\* UPDATE ... WHERE revision = ? AND status <> 'deleted'
Fresh(a) == job.rev = actor[a].seen /\ job.status # "deleted"
\* The rows the transaction leaves behind.
Commit(a, status, next) ==
    job' = [job EXCEPT !.status = status, !.next = next, !.rev = @ + 1]
MakeRun(a, source) ==
    /\ runs' = runs \cup
         {[rev |-> job.rev, slot |-> job.next, source |-> source, type |-> job.schedule.type,
           hasNext |-> NextRun(job.schedule, actor[a].at) # {}, published |-> FALSE]}
    /\ actor' = [actor EXCEPT ![a].pc = "publish", ![a].seen = job.rev]

CreateJob ==
    /\ job.status = "none"
    /\ \E next \in NextRun(job.schedule, now) :
         job' = [job EXCEPT !.status = "active", !.next = next, !.rev = 1]
    /\ UNCHANGED <<runs, fence, actor, now, calls, faults>>

\* DispatchDue: ListDue, with the time the scan began.
ListDue(d) ==
    /\ actor[d].pc = "idle" /\ job.status = "active" /\ job.next # 0 /\ job.next <= now
    /\ actor' = [actor EXCEPT ![d] = [op |-> "dispatch", pc |-> "wait", at |-> now, seen |-> 0]]
    /\ UNCHANGED <<job, runs, fence, now, calls, faults>>

\* A call of the API; a deletion brings the revision of an earlier preview.
Call(c, op, preview) ==
    /\ actor[c].pc = "idle" /\ job.status # "none"
    /\ calls < MaxCalls /\ calls' = calls + 1
    /\ preview \in IF op = "delete" THEN 1..job.rev ELSE {0}
    /\ actor' = [actor EXCEPT ![c] = [op |-> op, pc |-> "wait", at |-> 0, seen |-> preview]]
    /\ UNCHANGED <<job, runs, fence, now, faults>>

\* Mutant: the fence is not taken.
TakeFence_Open(a) ==
    /\ actor[a].pc = "wait" /\ fence' = a
    /\ Move(a, IF actor[a].op \in {"dispatch", "delete"} THEN "commit" ELSE "read")
    /\ UNCHANGED <<job, runs, now, calls, faults>>

\* WithJobFence: the dispatch and the deletion go straight to their transaction.
TakeFence(a) ==
    /\ actor[a].pc = "wait" /\ fence = "none" /\ fence' = a
    /\ Move(a, IF actor[a].op \in {"dispatch", "delete"} THEN "commit" ELSE "read")
    /\ UNCHANGED <<job, runs, now, calls, faults>>

\* Mutant: the unlock is lost with the connection going back to the pool.
ReleaseFence_Kept(a) ==
    /\ actor[a].pc = "release" /\ actor' = [actor EXCEPT ![a] = NoOp]
    /\ UNCHANGED <<job, runs, fence, now, calls, faults>>

ReleaseFence(a) ==
    /\ actor[a].pc = "release"
    /\ fence' = IF fence = a THEN "none" ELSE fence
    /\ actor' = [actor EXCEPT ![a] = NoOp]
    /\ UNCHANGED <<job, runs, now, calls, faults>>

\* getMutableJob, and the status triggerJob asks for.
Mutable(op) ==
    /\ job.status \notin {"deleted", "completed"}
    /\ op = "trigger" => job.status = "active"

ReadJob(a) ==
    /\ actor[a].pc = "read"
    /\ actor' = [actor EXCEPT ![a].pc = IF Mutable(actor[a].op) THEN "commit" ELSE "release",
                              ![a].seen = job.rev, ![a].at = now]
    /\ UNCHANGED <<job, runs, fence, now, calls, faults>>

-----------------------------------------------------------------------------
PauseJob(a) ==
    /\ Busy(a, "pause") /\ Fresh(a) /\ Commit(a, "paused", job.next) /\ Move(a, "release")
    /\ UNCHANGED <<runs, fence, now, calls, faults>>

ResumeJob(a) ==
    /\ Busy(a, "resume") /\ Fresh(a)
    /\ \E next \in NextRun(job.schedule, actor[a].at) : Commit(a, "active", next)
    /\ Move(a, "release")
    /\ UNCHANGED <<runs, fence, now, calls, faults>>

\* updateJob: another schedule, of another type perhaps, or the same one again.
UpdateJob(a, schedule) ==
    /\ Busy(a, "update") /\ Fresh(a)
    /\ \E next \in NextRun(schedule, actor[a].at) :
         job' = [job EXCEPT !.schedule = schedule, !.next = next, !.rev = @ + 1]
    /\ Move(a, "release")
    /\ UNCHANGED <<runs, fence, now, calls, faults>>

\* Mutant: a once job is not completed.
After_Active(a, next) == Commit(a, job.status, next)

\* nextAfterDispatch, and the status of a job that has no next run.
After(a, next) ==
    IF job.schedule.type = "once" THEN Commit(a, "completed", 0) ELSE Commit(a, job.status, next)

\* triggerJob: run and job in one transaction.  An error of the schedule comes first.
TriggerJob(a) ==
    /\ Busy(a, "trigger") /\ Fresh(a) /\ job.status = "active"
    /\ \E next \in NextRun(job.schedule, actor[a].at) : After(a, next)
    /\ MakeRun(a, "manual")
    /\ UNCHANGED <<fence, now, calls, faults>>

\* The operation returns an error: the schedule has no next time, or the row changed.
Rejected(a) ==
    /\ actor[a].pc = "commit" /\ actor[a].op \in {"pause", "resume", "update", "trigger"}
    /\ \/ ~Fresh(a)
       \/ actor[a].op \in {"resume", "trigger"} /\ NextRun(job.schedule, actor[a].at) = {}
       \/ actor[a].op = "update" /\ \E s \in Schedules : NextRun(s, actor[a].at) = {}
    /\ Move(a, "release")
    /\ UNCHANGED <<job, runs, fence, now, calls, faults>>

Due(a) == job.status = "active" /\ job.next # 0 /\ job.next <= actor[a].at

\* Mutant: what ListDue saw is not checked again under the lock.
DispatchDueJob_NoRecheck(a) ==
    /\ Busy(a, "dispatch") /\ job.status \in {"active", "paused"}
    /\ IF NextRun(job.schedule, actor[a].at) = {} THEN Commit(a, job.status, job.next)
       ELSE \E next \in NextRun(job.schedule, actor[a].at) : After(a, next)
    /\ MakeRun(a, job.schedule.type)
    /\ UNCHANGED <<fence, now, calls, faults>>

\* dispatchDueJobLocked.  On an error of the schedule next_run_at stays.
DispatchDueJob(a) ==
    /\ Busy(a, "dispatch") /\ Due(a)
    /\ IF NextRun(job.schedule, actor[a].at) = {} THEN Commit(a, job.status, job.next)
       ELSE \E next \in NextRun(job.schedule, actor[a].at) : After(a, next)
    /\ MakeRun(a, job.schedule.type)
    /\ UNCHANGED <<fence, now, calls, faults>>

NotDue(a) ==
    /\ actor[a].pc = "commit" /\ actor[a].op = "dispatch" /\ ~Due(a) /\ Move(a, "release")
    /\ UNCHANGED <<job, runs, fence, now, calls, faults>>

\* Publish of triggerJob and dispatchDueJobLocked, after the commit.
Publish(a) ==
    /\ actor[a].pc = "publish" /\ Move(a, "release")
    /\ runs' = {[r EXCEPT !.published = @ \/ r.rev = actor[a].seen] : r \in runs}
    /\ UNCHANGED <<job, fence, now, calls, faults>>

\* DeleteJob: of the revision that was previewed; deleting again changes nothing.
DeleteJob(a) ==
    /\ Busy(a, "delete") /\ job.status # "deleted" /\ job.rev = actor[a].seen
    /\ Commit(a, "deleted", 0) /\ Move(a, "release")
    /\ UNCHANGED <<runs, fence, now, calls, faults>>

NotDeleted(a) ==
    /\ actor[a].pc = "commit" /\ actor[a].op = "delete"
    /\ job.status = "deleted" \/ job.rev # actor[a].seen
    /\ Move(a, "release")
    /\ UNCHANGED <<job, runs, fence, now, calls, faults>>

-----------------------------------------------------------------------------
\* The pinned connection breaks: the lock is free.  Statements on the connection
\* fail, the publication is not a statement.
SessionLost(a) ==
    /\ faults < MaxFaults /\ faults' = faults + 1
    /\ fence = a /\ fence' = "none"
    /\ Move(a, IF actor[a].pc = "publish" THEN "publish" ELSE "release")
    /\ UNCHANGED <<job, runs, now, calls>>

Crash(a) ==
    /\ faults < MaxFaults /\ faults' = faults + 1
    /\ actor[a].pc # "idle"
    /\ actor' = [actor EXCEPT ![a] = NoOp]
    /\ fence' = IF fence = a THEN "none" ELSE fence
    /\ UNCHANGED <<job, runs, now, calls>>

Tick == now < MaxTime /\ now' = now + 1 /\ UNCHANGED <<job, runs, fence, actor, calls, faults>>

Step(a) ==
    \/ TakeFence(a) \/ ReadJob(a) \/ ReleaseFence(a) \/ Publish(a)
    \/ PauseJob(a) \/ ResumeJob(a) \/ (\E s \in Schedules : UpdateJob(a, s)) \/ TriggerJob(a)
    \/ Rejected(a) \/ DispatchDueJob(a) \/ NotDue(a) \/ DeleteJob(a) \/ NotDeleted(a)

Next ==
    \/ CreateJob \/ Tick
    \/ \E d \in Dispatchers : ListDue(d)
    \/ \E c \in Callers, op \in Ops \ {"dispatch"}, p \in 0..MaxRevision : Call(c, op, p)
    \/ \E a \in Actors : Step(a) \/ SessionLost(a) \/ Crash(a)

Spec == Init /\ [][Next]_vars
\* The dispatchers scan again and again, and what is under way goes on.
FairSpec ==
    /\ Spec /\ WF_vars(Tick)
    /\ \A d \in Dispatchers : WF_vars(ListDue(d))
    /\ \A a \in Actors : WF_vars(Step(a))

-----------------------------------------------------------------------------
\* dispatchDueJobLocked: however many dispatchers find a job due, and whatever is
\* done to the job meanwhile, a time of a recurring schedule fires once.  A cron
\* schedule without a time within the horizon keeps next_run_at: its last time is
\* the one that fires again.
SlotFiredOnce ==
    \A r, s \in runs :
        /\ {r.source, s.source} \subseteq {"interval", "cron"}
        /\ r.slot = s.slot /\ r.rev < s.rev
        => ~r.hasNext

\* nextAfterDispatch: the run of a once schedule, by hand or by its time, is the
\* last one of the job, whichever schedules the job had before.
OnceRunsOnce == \A r, s \in runs : r.type = "once" => s.rev <= r.rev

\* WithJobFence: while a run of the job is being published under the fence the
\* job is as the run left it; a deletion or a pause waits for the publication.
PublicationIsFenced ==
    \A a \in Actors : actor[a].pc = "publish" /\ fence = a =>
        /\ job.rev = actor[a].seen + 1
        /\ \E r \in runs : r.rev = actor[a].seen /\ ~r.published

\* DispatchDue: a job that is due is dispatched, or somebody changes it.
DueIsHandled ==
    \A v \in 1..MaxRevision :
        (job.status = "active" /\ job.next # 0 /\ job.next <= now /\ job.rev = v /\ v < MaxRevision)
            ~> job.rev # v
=============================================================================
