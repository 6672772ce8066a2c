----------------------------- MODULE PluginDrain -----------------------------
(***************************************************************************)
(* The lifecycle of one plugin: tenants subscribe to it, leave it, rotate  *)
(* their credentials and delete their rows, it owns scheduler jobs and     *)
(* event tasks, and root drains, stops, restarts, uninstalls and installs  *)
(* it (internal/service/plugin, internal/service/setting, the handlers of  *)
(* internal/transport/http/admin/plugin, internal/infra/plugin/manager).   *)
(*                                                                         *)
(* Every handler is a sequence of statements, each committed by itself     *)
(* unless the code opens a transaction, so a request is a process with a   *)
(* program counter and the values it has read.  A request may stop between *)
(* any two statements: a database error, a runtime that does not start, a  *)
(* failed purge of the plugin's files or the death of the process.         *)
(*                                                                         *)
(* revived is no state of the code: it records the tenants whose row went  *)
(* back to an earlier draining state when a credential rotation wrote the  *)
(* row it had read over a later one.                                       *)
(***************************************************************************)
EXTENDS Integers, FiniteSets, FiniteSetsExt

CONSTANTS
  Tenants,      \* tenants that may subscribe
  SystemTenant, \* the one whose row holds the runtime's own credential
  Blockers,     \* scheduler jobs and event tasks the plugin may own
  Requests,
  MaxJobs,      \* bound on the drain jobs ever created
  ListLimit,    \* newest drain jobs the pre-checks look at; 20 in the code
  Setups        \* how many requests are in flight at once, which operations they
                \* perform and which work they create

AllOps == {"subscribe", "unsubscribe", "rotate", "delete", "deactivate", "schedule", "drain",
           "refresh", "enable", "disable", "restart", "boot", "uninstall", "install"}

ASSUME DrainAssumption ==
  /\ SystemTenant \in Tenants /\ IsFiniteSet(Requests)
  /\ MaxJobs \in Nat /\ ListLimit \in Nat
  /\ Setups \subseteq [parallel : Nat, ops : SUBSET AllOps,
                     jobs : SUBSET Blockers, tasks : SUBSET Blockers]

VARIABLES
  setup,        \* one of Setups; it never changes
  runtime,      \* the registry's state of the plugin
  binding,      \* plugin_instance_configs: the row of each tenant
  job,          \* plugin_drain_jobs: the status of each job, in creation order
  blocker,      \* scheduler_jobs and event_task_histories rows owned by the plugin
  req,          \* the requests in flight
  revived       \* history: tenants a rotation has put back into a draining state

vars == <<setup, runtime, binding, job, blocker, req, revived>>

JobIds == 1..MaxJobs

\* subscribed, available and expired exist in the schema and no code writes them.
RowStatus == {"absent", "enabled", "disabled", "draining_requested", "disabled_by_platform", "drained"}
Row == [status : RowStatus, job : {0} \cup JobIds]
DrainingRow == {"draining_requested", "disabled_by_platform"}

\* requested exists in the schema and no code writes it.
ActiveJob == {"draining", "blocking_new_usage"}
BlockingJob == ActiveJob \cup {"ready_to_uninstall"}
JobStatus == BlockingJob \cup {"none", "completed"}

NoRow == [status |-> "absent", job |-> 0]
NewRow == [status |-> "enabled", job |-> 0]
Idle == [pc |-> "idle", t |-> SystemTenant, j |-> 0, row |-> NoRow, st |-> "none", blocked |-> FALSE,
         used |-> FALSE, to |-> "idle", seen |-> {}]

PCs == {"idle", "read_job", "count_blockers", "mark_drained", "mark_again", "count_active", "save_job",
        "check_jobs", "check_rows", "credentials", "upsert", "write_row",
        "rotate_read", "rotate_write", "keep_enabled", "create_blocker",
        "preflight", "write_preflight", "register",
        "enable_runtime", "write_credential", "start", "complete_ready",
        "disable_jobs", "stop", "uninstall_jobs", "count_again", "remove", "complete_uninstall"}

\* to is where a request goes once the runtime has started; seen are the drain jobs
\* that existed when it checked that the plugin is not draining.
Request == [pc : PCs, t : Tenants, j : {0} \cup JobIds, row : Row, st : JobStatus, blocked : BOOLEAN,
            used : BOOLEAN, to : {"idle", "check_jobs", "complete_ready"}, seen : SUBSET JobIds]

DrainTypeOK ==
  /\ setup \in Setups
  /\ runtime \in {"enabled", "disabled", "absent"}
  /\ binding \in [Tenants -> Row]
  /\ job \in [JobIds -> JobStatus]
  /\ blocker \in [Blockers -> {"absent", "live", "ended"}]
  /\ req \in [Requests -> Request]
  /\ revived \subseteq Tenants

Init ==
  /\ setup \in Setups
  /\ runtime = "enabled"
  /\ binding = [t \in Tenants |-> IF t = SystemTenant THEN NewRow ELSE NoRow]
  /\ job = [j \in JobIds |-> "none"]
  /\ blocker = [b \in Blockers |-> "absent"]
  /\ req = [r \in Requests |-> Idle]
  /\ revived = {}

-----------------------------------------------------------------------------
(* What the repositories answer.                                            *)

Created == {j \in JobIds : job[j] # "none"}
CountActive_SubscribedOnly == {t \in Tenants : binding[t].status = "subscribed"}
CountActiveTenantPluginBindings == {t \in Tenants : binding[t].status = "enabled"}
CountDraining == {t \in Tenants : binding[t].status \in DrainingRow}
CountBlockingByPlugin == {j \in JobIds : job[j] \in BlockingJob}
CountRuntimeBlockers == {b \in Blockers : blocker[b] = "live"}

ListDrainJobs == {j \in Created : Cardinality({k \in Created : k > j}) < ListLimit}

MarkReadyJobsCompleted(jobs) ==
  [j \in JobIds |-> IF jobs[j] = "ready_to_uninstall" THEN "completed" ELSE jobs[j]]

\* Every row of the plugin, whatever job it belongs to and whether or not it was draining.
MarkPluginDrainInstancesDrained(j) ==
  [t \in Tenants |-> IF binding[t].status \in {"absent", "drained"} THEN binding[t]
                     ELSE [status |-> "drained", job |-> j]]

DeleteDrained == [t \in Tenants |-> IF binding[t].status = "drained" THEN NoRow ELSE binding[t]]

At(r, pc) == req[r].pc = pc
Goto(r, pc) == req' = [req EXCEPT ![r].pc = pc]
Pass(r, pc) == req' = [req EXCEPT ![r].pc = pc, ![r].seen = Created]
Return(r) == req' = [req EXCEPT ![r] = Idle]
May(r, op) == /\ op \in setup.ops /\ At(r, "idle")
              /\ Cardinality({q \in Requests : ~At(q, "idle")}) < setup.parallel
Begin(r, op, pc, t, j) == /\ May(r, op)
                          /\ req' = [req EXCEPT ![r] = [Idle EXCEPT !.pc = pc, !.t = t, !.j = j]]
BeginStart(r, op, pc, t, to) ==
  May(r, op) /\ req' = [req EXCEPT ![r] = [Idle EXCEPT !.pc = pc, !.t = t, !.to = to]]

-----------------------------------------------------------------------------
(* RefreshDrainJobProgress: it reads the job, counts, marks, counts again  *)
(* and saves the row it read at the start, with no transaction around it.  *)

Refresh(r, t, j) == Begin(r, "refresh", "read_job", t, j) /\ j \in Created
                    /\ UNCHANGED <<setup, runtime, binding, job, blocker, revived>>

ReadJob(r) ==
  /\ At(r, "read_job")
  /\ LET st == job[req[r].j] IN
       req' = [req EXCEPT ![r].st = st,
                          ![r].pc = IF st \in ActiveJob THEN "count_blockers" ELSE "count_active"]
  /\ UNCHANGED <<setup, runtime, binding, job, blocker, revived>>

CountBlockers_NoMark(r) ==
  /\ At(r, "count_blockers")
  /\ req' = [req EXCEPT ![r].blocked = CountRuntimeBlockers # {}, ![r].pc = "count_active"]
  /\ UNCHANGED <<setup, runtime, binding, job, blocker, revived>>

CountBlockers(r) ==
  /\ At(r, "count_blockers")
  /\ LET blocked == CountRuntimeBlockers # {} IN
       req' = [req EXCEPT ![r].blocked = blocked,
                          ![r].pc = IF blocked THEN "count_active" ELSE "mark_drained"]
  /\ UNCHANGED <<setup, runtime, binding, job, blocker, revived>>

\* Once for every active job, and a second time for a draining one.
MarkDrained(r) ==
  /\ \/ At(r, "mark_drained")
        /\ Goto(r, IF req[r].st = "draining" THEN "mark_again" ELSE "count_active")
     \/ At(r, "mark_again") /\ Goto(r, "count_active")
  /\ binding' = MarkPluginDrainInstancesDrained(req[r].j)
  /\ UNCHANGED <<setup, runtime, job, blocker, revived>>

CountActive(r) ==
  /\ At(r, "count_active")
  /\ req' = [req EXCEPT ![r].used = CountActiveTenantPluginBindings # {}, ![r].pc = "save_job"]
  /\ UNCHANGED <<setup, runtime, binding, job, blocker, revived>>

Progress(st, blocked, used) ==
  IF ~blocked /\ ~used THEN "ready_to_uninstall"
  ELSE IF st \in {"ready_to_uninstall", "completed"} THEN "draining" ELSE st

SaveJob(r) ==
  /\ At(r, "save_job")
  /\ job' = [job EXCEPT ![req[r].j] = Progress(req[r].st, req[r].blocked, req[r].used)]
  /\ Return(r)
  /\ UNCHANGED <<setup, runtime, binding, blocker, revived>>

RefreshStep(r) ==
  ReadJob(r) \/ CountBlockers(r) \/ MarkDrained(r) \/ CountActive(r) \/ SaveJob(r)

-----------------------------------------------------------------------------
(* CreateDrainJob: one transaction, then the refresh.                       *)

CreateDrainJob(r, t, status, mark) ==
  LET j == Cardinality(Created) + 1
      affected == CountActiveTenantPluginBindings
  IN /\ j \in JobIds
     /\ Begin(r, "drain", "read_job", t, j)
     /\ binding' = [u \in Tenants |-> IF u \in affected THEN [status |-> mark, job |-> j] ELSE binding[u]]
     /\ job' = [job EXCEPT ![j] = IF affected = {} THEN "ready_to_uninstall" ELSE status]
     /\ UNCHANGED <<setup, runtime, blocker, revived>>

Drain(r, t) == \/ CreateDrainJob(r, t, "draining", "draining_requested")
               \/ CreateDrainJob(r, t, "blocking_new_usage", "disabled_by_platform")

-----------------------------------------------------------------------------
(* A tenant's instance.                                                     *)

\* The handler wants the runtime enabled, then calls TenantPluginInstanceService.Enable.
Subscribe(r, t) == /\ runtime = "enabled"
                   /\ Begin(r, "subscribe", "check_jobs", t, 0)
                   /\ UNCHANGED <<setup, runtime, binding, job, blocker, revived>>

\* EnsurePluginAcceptsNewUsage: the drain jobs, then the rows.
EnsurePluginAcceptsNewUsage(r) ==
  /\ \/ At(r, "check_jobs") /\ IF CountBlockingByPlugin = {} THEN Pass(r, "check_rows") ELSE Return(r)
     \/ At(r, "check_rows") /\ IF CountDraining = {} THEN Goto(r, "credentials") ELSE Return(r)
  /\ UNCHANGED <<setup, runtime, binding, job, blocker, revived>>

\* A missing row is created, and the column's default makes it an enabled one.
EnsureCredentials(r) ==
  /\ At(r, "credentials")
  /\ LET t == req[r].t IN
       binding' = IF binding[t].status = "absent"
                  THEN [binding EXCEPT ![t] = NewRow] ELSE binding
  /\ Goto(r, "upsert")
  /\ UNCHANGED <<setup, runtime, job, blocker, revived>>

\* The transaction locks the row and fails when it is gone.
UpsertEnabled(r) ==
  /\ At(r, "upsert")
  /\ LET t == req[r].t IN
       binding' = IF binding[t].status = "absent" THEN binding
                  ELSE [binding EXCEPT ![t] = NewRow]
  /\ Return(r)
  /\ UNCHANGED <<setup, runtime, job, blocker, revived>>

EnableStep(r) == EnsurePluginAcceptsNewUsage(r) \/ EnsureCredentials(r) \/ UpsertEnabled(r)

\* TenantPluginInstanceService.Disable: read, write, refresh the job the row named.
Unsubscribe(r, t) ==
  /\ binding[t].status # "absent"
  /\ May(r, "unsubscribe")
  /\ req' = [req EXCEPT ![r] = [Idle EXCEPT !.pc = "write_row", !.t = t, !.row = binding[t],
                                            !.j = binding[t].job]]
  /\ UNCHANGED <<setup, runtime, binding, job, blocker, revived>>

Disabled(row) == IF row.status \in DrainingRow THEN "drained" ELSE "disabled"

WriteRow(r) ==
  /\ At(r, "write_row")
  /\ LET t == req[r].t IN
       binding' = IF binding[t].status = "absent" THEN binding
                  ELSE [binding EXCEPT ![t].status = Disabled(req[r].row)]
  /\ IF req[r].j = 0 THEN Return(r)
     ELSE req' = [req EXCEPT ![r] = [Idle EXCEPT !.pc = "read_job", !.j = req[r].j]]
  /\ UNCHANGED <<setup, runtime, job, blocker, revived>>

\* PluginCredentialRotateHandler reads the row, RotateSecret reads it again and, after
\* the hash of the new secret, writes back all of what it read; then the handler enables
\* the row if its own read saw it enabled.
Rotate(r, t) ==
  /\ binding[t].status # "absent"
  /\ May(r, "rotate")
  /\ req' = [req EXCEPT ![r] = [Idle EXCEPT !.pc = "rotate_read", !.t = t,
                                            !.used = binding[t].status = "enabled"]]
  /\ UNCHANGED <<setup, runtime, binding, job, blocker, revived>>

RotateRead(r) ==
  /\ At(r, "rotate_read")
  /\ LET row == binding[req[r].t] IN
       IF row.status = "absent" THEN Return(r)
       ELSE req' = [req EXCEPT ![r].row = row, ![r].pc = "rotate_write"]
  /\ UNCHANGED <<setup, runtime, binding, job, blocker, revived>>

\* A row deleted since is created again.
RotateWrite(r) ==
  /\ At(r, "rotate_write")
  /\ LET t == req[r].t  row == req[r].row IN
       /\ binding' = [binding EXCEPT ![t] = row]
       /\ revived' = IF row.status \in DrainingRow /\ row # binding[t] THEN revived \cup {t} ELSE revived
  /\ IF req[r].used THEN Goto(r, "keep_enabled") ELSE Return(r)
  /\ UNCHANGED <<setup, runtime, job, blocker>>

\* SetEnabled leaves the row's job.
KeepEnabled(r) ==
  /\ At(r, "keep_enabled")
  /\ LET t == req[r].t IN
       binding' = IF binding[t].status = "absent" THEN binding
                  ELSE [binding EXCEPT ![t].status = "enabled"]
  /\ Return(r)
  /\ UNCHANGED <<setup, runtime, job, blocker, revived>>

RotateStep(r) == RotateRead(r) \/ RotateWrite(r) \/ KeepEnabled(r)

\* PluginTenantDeleteHandler, and the tenant's deactivation, which disables what is enabled.
DeleteInstance(r, t) ==
  /\ May(r, "delete")
  /\ binding' = [binding EXCEPT ![t] = NoRow]
  /\ UNCHANGED <<setup, runtime, job, blocker, req, revived>>

DisableByTenant(r, t) ==
  /\ May(r, "deactivate") /\ binding[t].status = "enabled"
  /\ binding' = [binding EXCEPT ![t].status = "disabled"]
  /\ UNCHANGED <<setup, runtime, job, blocker, req, revived>>

-----------------------------------------------------------------------------
(* Work the plugin owns.                                                    *)

\* runtime_scheduler.CreateJob asks for draining rows, and not for drain jobs.
ScheduleCheck_Unguarded(r, t) ==
  /\ May(r, "schedule")
  /\ req' = [req EXCEPT ![r] = [Idle EXCEPT !.pc = "create_blocker", !.t = t, !.seen = Created]]
  /\ UNCHANGED <<setup, runtime, binding, job, blocker, revived>>

ScheduleCheck(r, t) ==
  /\ CountDraining = {}
  /\ May(r, "schedule")
  /\ req' = [req EXCEPT ![r] = [Idle EXCEPT !.pc = "create_blocker", !.t = t, !.seen = Created]]
  /\ UNCHANGED <<setup, runtime, binding, job, blocker, revived>>

ScheduleCreate(r) ==
  /\ At(r, "create_blocker")
  /\ \E b \in setup.jobs : blocker[b] = "absent" /\ blocker' = [blocker EXCEPT ![b] = "live"]
  /\ Return(r)
  /\ UNCHANGED <<setup, runtime, binding, job, revived>>

\* A producer registers an event task of the plugin whatever its state.
EnqueueTask(b) ==
  /\ b \in setup.tasks /\ blocker[b] = "absent"
  /\ blocker' = [blocker EXCEPT ![b] = "live"]
  /\ UNCHANGED <<setup, runtime, binding, job, req, revived>>

\* A job or a task ends by itself, or root cancels it; neither refreshes a drain job.
EndBlocker(b) ==
  /\ blocker[b] = "live"
  /\ blocker' = [blocker EXCEPT ![b] = "ended"]
  /\ UNCHANGED <<setup, runtime, binding, job, req, revived>>

-----------------------------------------------------------------------------
(* Root's operations on the runtime.                                        *)

\* The enable handler completes the ready jobs, starts the runtime and, when the request
\* has a tenant, subscribes it.
SystemEnable(r, t) ==
  /\ \E to \in {"idle", "check_jobs"} : BeginStart(r, "enable", "enable_runtime", t, to)
  /\ job' = MarkReadyJobsCompleted(job)
  /\ UNCHANGED <<setup, runtime, binding, blocker, revived>>

\* mgr.Disable and mgr.Enable, with no look at bindings or drain jobs.
Restart(r, t) ==
  /\ runtime # "absent"
  /\ BeginStart(r, "restart", "enable_runtime", t, "idle")
  /\ runtime' = "disabled"
  /\ UNCHANGED <<setup, binding, job, blocker, revived>>

\* A process that starts restores the plugin it finds enabled.
Boot(r, t) ==
  /\ runtime = "enabled"
  /\ BeginStart(r, "boot", "enable_runtime", t, "idle")
  /\ UNCHANGED <<setup, runtime, binding, job, blocker, revived>>

\* InstallFromFile, with or without enable.
Install(r, t) ==
  /\ \E to \in {"idle", "complete_ready"} : BeginStart(r, "install", "preflight", t, to)
  /\ UNCHANGED <<setup, runtime, binding, job, blocker, revived>>

\* The runtime's own credential is the system tenant's row.  mgr.Enable wants the plugin
\* installed before it looks, the installation has not registered it yet; a row that
\* exists must be enabled.  No drain job is asked for.
ReadCredential(r) ==
  /\ \/ /\ At(r, "preflight")
        /\ \/ binding[SystemTenant].status = "absent" /\ Goto(r, "write_preflight")
           \/ binding[SystemTenant].status = "enabled" /\ Goto(r, "register")
     \/ /\ At(r, "enable_runtime") /\ runtime # "absent"
        /\ \/ binding[SystemTenant].status = "absent" /\ Goto(r, "write_credential")
           \/ binding[SystemTenant].status = "enabled" /\ Goto(r, "start")
  /\ UNCHANGED <<setup, runtime, binding, job, blocker, revived>>

\* The transaction that found no row hashes a secret and writes an enabled one.
WriteCredential(r) ==
  /\ \/ At(r, "write_preflight") /\ Goto(r, "register")
     \/ At(r, "write_credential") /\ Goto(r, "start")
  /\ binding' = [binding EXCEPT ![SystemTenant] = NewRow]
  /\ UNCHANGED <<setup, runtime, job, blocker, revived>>

\* A version that is registered already is left as it is, and not started.
Register(r) ==
  /\ At(r, "register")
  /\ IF req[r].to = "idle" THEN Return(r)
     ELSE Goto(r, IF runtime = "absent" THEN "enable_runtime" ELSE "complete_ready")
  /\ runtime' = IF runtime = "absent" THEN "disabled" ELSE runtime
  /\ UNCHANGED <<setup, binding, job, blocker, revived>>

\* The rest of mgr.Enable.
StartRuntime(r) ==
  /\ At(r, "start") /\ runtime # "absent"
  /\ runtime' = "enabled"
  /\ IF req[r].to = "idle" THEN Return(r) ELSE Goto(r, req[r].to)
  /\ UNCHANGED <<setup, binding, job, blocker, revived>>

CompleteReady(r) ==
  /\ At(r, "complete_ready")
  /\ job' = MarkReadyJobsCompleted(job)
  /\ Goto(r, "check_jobs")
  /\ UNCHANGED <<setup, runtime, binding, blocker, revived>>

StartStep(r) ==
  ReadCredential(r) \/ WriteCredential(r) \/ Register(r) \/ StartRuntime(r) \/ CompleteReady(r)

\* requireNoActiveTenantInstancesForOperation counts the bindings before it lists the
\* jobs, and decides once it has both.
RequireNoActive(r, op, pc, t) ==
  /\ CountActiveTenantPluginBindings = {}
  /\ Begin(r, op, pc, t, 0)
  /\ UNCHANGED <<setup, runtime, binding, job, blocker, revived>>

NoneActive_DrainingOnly == \A j \in ListDrainJobs : job[j] # "draining"

NoneActive == \A j \in ListDrainJobs : job[j] \notin ActiveJob

CheckJobs(r) ==
  /\ \/ At(r, "disable_jobs") /\ IF NoneActive THEN Pass(r, "stop") ELSE Return(r)
     \/ At(r, "uninstall_jobs") /\ IF NoneActive THEN Pass(r, "count_again") ELSE Return(r)
  /\ UNCHANGED <<setup, runtime, binding, job, blocker, revived>>

SystemDisable(r, t) == RequireNoActive(r, "disable", "disable_jobs", t)

\* mgr.Disable; it fails for a plugin that is not installed.
StopRuntime(r) ==
  /\ At(r, "stop")
  /\ runtime' = IF runtime = "absent" THEN "absent" ELSE "disabled"
  /\ Return(r)
  /\ UNCHANGED <<setup, binding, job, blocker, revived>>

Uninstall(r, t) == RequireNoActive(r, "uninstall", "uninstall_jobs", t)

\* The manager counts the active bindings again ...
CountAgain(r) ==
  /\ At(r, "count_again")
  /\ IF CountActiveTenantPluginBindings = {} THEN Goto(r, "remove") ELSE Return(r)
  /\ UNCHANGED <<setup, runtime, binding, job, blocker, revived>>

\* ... refuses a plugin that has no version left, stops the runtime and removes every version.
RemoveFromRegistry(r) ==
  /\ At(r, "remove")
  /\ IF runtime = "absent" THEN Return(r) ELSE Goto(r, "complete_uninstall")
  /\ runtime' = "absent"
  /\ UNCHANGED <<setup, binding, job, blocker, revived>>

\* CompleteFinalUninstall, one transaction.
CompleteFinalUninstall(r) ==
  /\ At(r, "complete_uninstall")
  /\ binding' = DeleteDrained
  /\ job' = MarkReadyJobsCompleted(job)
  /\ Return(r)
  /\ UNCHANGED <<setup, runtime, blocker, revived>>

RuntimeStep(r) ==
  CheckJobs(r) \/ StopRuntime(r) \/ CountAgain(r) \/ RemoveFromRegistry(r) \/ CompleteFinalUninstall(r)

\* The request fails or its process dies; so does one whose runtime credential is not
\* enabled or whose plugin is gone.
Abandon(r) == ~At(r, "idle") /\ Return(r) /\ UNCHANGED <<setup, runtime, binding, job, blocker, revived>>

Next ==
  \/ \E r \in Requests :
       \/ RefreshStep(r) \/ EnableStep(r) \/ WriteRow(r) \/ RotateStep(r) \/ ScheduleCreate(r)
       \/ StartStep(r) \/ RuntimeStep(r) \/ Abandon(r)
       \/ \E t \in Tenants :
            \/ Subscribe(r, t) \/ Unsubscribe(r, t) \/ Rotate(r, t) \/ DeleteInstance(r, t)
            \/ DisableByTenant(r, t) \/ SystemEnable(r, t) \/ Install(r, t)
            \/ t = Idle.t /\ \/ Drain(r, t) \/ ScheduleCheck(r, t) \/ SystemDisable(r, t)
                             \/ Restart(r, t) \/ Boot(r, t) \/ Uninstall(r, t)
                             \/ \E j \in JobIds : Refresh(r, t, j)
  \/ \E b \in Blockers : EnqueueTask(b) \/ EndBlocker(b)

Spec == Init /\ [][Next]_vars

-----------------------------------------------------------------------------
(* Properties.                                                              *)

\* No tenant is left half-drained: a row in draining_requested or disabled_by_platform,
\* which closes the plugin to everyone, belongs to a job that a refresh still moves on
\* (RefreshDrainJobProgress, CreateDrainJob, Disable), however the requests interleave,
\* unless a rotation has put the row back into that state.
DrainingHasActiveJob == \A t \in CountDraining \ revived : job[binding[t].job] \in ActiveJob

\* Those who drain do it for a drain that began after the request r had made its check.
DrainBeganAfterCheck(r) == \A t \in CountDraining \ revived : binding[t].job \notin req[r].seen

\* Whoever is being admitted while a tenant drains was admitted before that drain began:
\* the jobs EnsurePluginAcceptsNewUsage counts and the rows the scheduler counts close
\* the plugin for the whole drain, also when other requests were abandoned half way.
\* Only a drain that begins between the check and the write is missed.
AdmittedBeforeDrain ==
  \A r \in Requests : req[r].pc \in {"credentials", "upsert", "create_blocker"} => DrainBeganAfterCheck(r)

\* No runtime is stopped, and no plugin removed, under a drain that was under way when
\* the request looked at the newest ListLimit jobs (requireNoActiveTenantInstancesForOperation).
StoppedBeforeDrain ==
  MaxJobs <= ListLimit =>
    \A r \in Requests : req[r].pc \in {"stop", "count_again", "remove"} => DrainBeganAfterCheck(r)

\* A plugin that has been removed has no tenant that uses it, other than the system tenant
\* whose row a failed installation leaves (uninstall, its two counts and
\* CompleteFinalUninstall).  One request runs at a time: none of the checks is made under
\* a lock, and a second request may subscribe a tenant in between.
RemovedIsUnused ==
  setup.parallel = 1 /\ runtime = "absent" =>
    \A t \in Tenants \ {SystemTenant} : binding[t].status # "enabled"
=============================================================================
