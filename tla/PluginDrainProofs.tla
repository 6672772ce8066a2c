-------------------------- MODULE PluginDrainProofs --------------------------
(***************************************************************************)
(* Proofs about the lifecycle of a plugin, for every set of tenants,       *)
(* requests and pieces of work and every deployment in Setups.             *)
(*                                                                         *)
(* The argument has two halves.  However requests interleave, a row in a   *)
(* draining state names an active job, unless a rotation has brought it    *)
(* back: rows begin to drain only under a job that is created with them,   *)
(* and a refresh that is about to close its job has seen, or made, that no *)
(* row names it any more (Known).  So when a request finds no active job,  *)
(* nobody drains, and whoever drains later does it under a job that did    *)
(* not exist then (Looked).  That a removed plugin is unused holds of one  *)
(* request at a time: nobody else moves between what a request has seen    *)
(* and what it does (Sound).                                               *)
(***************************************************************************)
EXTENDS PluginDrain, FiniteSetTheorems, TLAPS

RefreshPCs == {"read_job", "count_blockers", "mark_drained", "mark_again", "count_active", "save_job"}
RowPCs == {"write_row", "rotate_write"}
StopPCs == {"stop", "count_again", "remove", "complete_uninstall"}

\* No row drains under the job j, other than those that were brought back.
Clear(j, rows, past) == \A t \in Tenants \ past : rows[t].status \in DrainingRow => rows[t].job # j

\* What a request knows of its job: that it exists, and once it may close it,
\* that nobody drains under it; and of the row it will write back, that its job exists.
Known(m, rows, jobs, past) ==
    /\ m.pc \in RefreshPCs => m.j # 0
    /\ m.pc \in RefreshPCs \cup {"write_row"} /\ m.j # 0 => jobs[m.j] # "none"
    /\ m.pc \in RefreshPCs \ {"read_job"} => m.st # "none"
    /\ m.pc \in {"read_job", "count_blockers", "mark_drained", "mark_again"} => ~m.blocked
    /\ m.pc \in {"count_blockers", "mark_drained", "mark_again"} => m.st \in ActiveJob
    /\ m.pc \in {"count_active", "save_job"} /\ (m.st \in ActiveJob => ~m.blocked) =>
         Clear(m.j, rows, past)
    /\ m.pc = "rotate_write" /\ m.row.job # 0 => jobs[m.row.job] # "none"

\* Nobody drains under a job that the request saw when it looked, if it saw them all.
Looked(m, rows, jobs, past) ==
    /\ \A k \in m.seen : jobs[k] # "none"
    /\ MaxJobs <= ListLimit \/ m.pc \notin StopPCs =>
         \A k \in m.seen : Clear(k, rows, past)

\* A draining row names an active job, and every row one that exists.
Consistent(rows, jobs, past) ==
    /\ \A t \in Tenants \ past :
          rows[t].status \in DrainingRow => rows[t].job # 0 /\ jobs[rows[t].job] \in ActiveJob
    /\ \A t \in Tenants : rows[t].job # 0 => jobs[rows[t].job] # "none"

\* The jobs created so far are the first ones.
Numbered(jobs) == \E n \in 0..MaxJobs : \A k \in JobIds : jobs[k] # "none" <=> k <= n

\* The inductive invariant of the first half.
DrainInv ==
    /\ DrainTypeOK
    /\ Numbered(job)
    /\ Consistent(binding, job, revived)
    /\ \A r \in Requests : Known(req[r], binding, job, revived) /\ Looked(req[r], binding, job, revived)

\* Only the request r moves.
Others(r) ==
    /\ req' \in [Requests -> Request]
    /\ \A q \in Requests : q # r => req'[q] = req[q]

\* The request r has looked at nothing new.
Carries(r) ==
    /\ req'[r].seen \subseteq req[r].seen
    /\ req[r].pc \in StopPCs /\ req'[r].seen # {} => req'[r].pc \in StopPCs

-----------------------------------------------------------------------------
(* What the ways to go on make of a request.                               *)

LEMMA IdleType == Idle \in Request /\ Idle.pc = "idle" /\ ~Idle.blocked /\ ~Idle.used /\ Idle.seen = {}
<1>1. SystemTenant \in Tenants
    BY DrainAssumption
<1>2. NoRow \in Row
    BY DEF NoRow, Row, RowStatus
<1> DEFINE no == FALSE
<1>3. no \in BOOLEAN
    OBVIOUS
<1>4. Idle = [pc |-> "idle", t |-> SystemTenant, j |-> 0, row |-> NoRow, st |-> "none", blocked |-> no,
              used |-> no, to |-> "idle", seen |-> {}]
    BY DEF Idle
<1>5. ~Idle.blocked /\ ~Idle.used
    BY DEF Idle
<1> HIDE DEF no, NoRow, Row
<1> QED
    BY <1>1, <1>2, <1>3, <1>4, <1>5 DEF Request, PCs, JobStatus

LEMMA Goes ==
    ASSUME DrainTypeOK, NEW r \in Requests, NEW pc \in PCs, Goto(r, pc)
    PROVE  /\ Others(r) /\ req'[r].pc = pc /\ req'[r].j = req[r].j /\ req'[r].t = req[r].t
           /\ req'[r].st = req[r].st /\ req'[r].blocked = req[r].blocked
           /\ req'[r].used = req[r].used /\ req'[r].row = req[r].row
           /\ req'[r].seen = req[r].seen /\ req'[r].to = req[r].to
BY DEF DrainTypeOK, Goto, Others, Request

LEMMA Returns ==
    ASSUME DrainTypeOK, NEW r \in Requests, Return(r)
    PROVE  Others(r) /\ req'[r].pc = "idle" /\ req'[r].seen = {}
<1>1. Idle \in Request /\ Idle.pc = "idle" /\ Idle.seen = {}
    BY IdleType
<1> HIDE DEF Request, Idle
<1> QED
    BY <1>1 DEF DrainTypeOK, Return, Others

LEMMA Begins ==
    ASSUME DrainTypeOK, NEW r \in Requests, NEW op, NEW pc \in PCs, NEW t \in Tenants,
           NEW j \in {0} \cup JobIds, Begin(r, op, pc, t, j)
    PROVE  /\ Others(r) /\ May(r, op)
           /\ req'[r].pc = pc /\ req'[r].j = j /\ req'[r].t = t /\ ~req'[r].blocked
           /\ req'[r].seen = {}
<1> DEFINE m == [Idle EXCEPT !.pc = pc, !.t = t, !.j = j]
<1>1. Idle \in Request /\ ~Idle.blocked /\ Idle.seen = {}
    BY IdleType
<1>2. m \in Request /\ m.pc = pc /\ m.j = j /\ m.t = t /\ ~m.blocked /\ m.seen = {}
  <2> HIDE DEF Idle
  <2> QED
      BY <1>1 DEF Request
<1>3. req' = [req EXCEPT ![r] = m] /\ May(r, op)
    BY DEF Begin
<1> HIDE DEF m
<1> QED
    BY <1>2, <1>3 DEF DrainTypeOK, Others

LEMMA Starts ==
    ASSUME DrainTypeOK, NEW r \in Requests, NEW op, NEW pc \in PCs, NEW t \in Tenants,
           NEW to \in {"idle", "check_jobs", "complete_ready"}, BeginStart(r, op, pc, t, to)
    PROVE  /\ Others(r) /\ May(r, op)
           /\ req'[r].pc = pc /\ req'[r].t = t /\ req'[r].to = to /\ req'[r].seen = {}
<1> DEFINE m == [Idle EXCEPT !.pc = pc, !.t = t, !.to = to]
<1>1. Idle \in Request /\ Idle.seen = {}
    BY IdleType
<1>2. m \in Request /\ m.pc = pc /\ m.t = t /\ m.to = to /\ m.seen = {}
  <2> HIDE DEF Idle
  <2> QED
      BY <1>1 DEF Request
<1>3. req' = [req EXCEPT ![r] = m] /\ May(r, op)
    BY DEF BeginStart
<1> HIDE DEF m
<1> QED
    BY <1>2, <1>3 DEF DrainTypeOK, Others

\* A request that passes its check keeps the jobs that exist.
LEMMA Passes ==
    ASSUME DrainTypeOK, NEW r \in Requests, NEW pc \in PCs, Pass(r, pc)
    PROVE  /\ Others(r) /\ req'[r].pc = pc /\ req'[r].t = req[r].t
           /\ req'[r].seen = Created
<1>1. Created \in SUBSET JobIds
    BY DEF Created
<1> HIDE DEF Created
<1> QED
    BY <1>1 DEF DrainTypeOK, Pass, Others, Request

LEMMA ScheduleCheckIs ==
    ASSUME DrainTypeOK, NEW r \in Requests, NEW t \in Tenants, ScheduleCheck(r, t)
    PROVE  /\ Others(r) /\ req'[r].pc = "create_blocker" /\ req'[r].seen = Created
           /\ CountDraining = {} /\ UNCHANGED <<setup, runtime, binding, job, blocker, revived>>
<1> DEFINE m == [Idle EXCEPT !.pc = "create_blocker", !.t = t, !.seen = Created]
<1>1. Idle \in Request /\ Created \in SUBSET JobIds
    BY IdleType DEF Created
<1>2. m \in Request /\ m.pc = "create_blocker" /\ m.seen = Created
  <2> HIDE DEF Idle, Created
  <2> QED
      BY <1>1 DEF Request, PCs
<1>3. req' = [req EXCEPT ![r] = m]
    BY DEF ScheduleCheck
<1> HIDE DEF m
<1> QED
    BY <1>2, <1>3 DEF DrainTypeOK, Others, ScheduleCheck

\* A request that does not know of any job.
LEMMA Unconcerned ==
    ASSUME NEW m, NEW rows, NEW jobs, NEW past, m.pc \notin RefreshPCs, m.pc \notin RowPCs
    PROVE  Known(m, rows, jobs, past)
BY DEF Known, RefreshPCs, RowPCs

\* What a request that saw no active job has found out.
LEMMA FoundNone ==
    ASSUME DrainInv, NEW r \in Requests, Others(r), req'[r].seen = Created,
           binding' = binding, job' = job, revived' = revived,
           req'[r].pc \notin StopPCs \/ MaxJobs <= ListLimit =>
             \A t \in Tenants \ revived : binding[t].status \notin DrainingRow
    PROVE  Looked(req'[r], binding', job', revived')
BY DEF Looked, Created, Clear

-----------------------------------------------------------------------------
(* The first half: no row begins to drain except under a new job.           *)

LEMMA LookedStays ==
    ASSUME NEW m, NEW n, NEW rows, NEW jobs, NEW past, NEW rows2, NEW jobs2, NEW past2,
           m.seen \subseteq JobIds, Looked(m, rows, jobs, past),
           n.seen \subseteq m.seen, m.pc \in StopPCs /\ n.seen # {} => n.pc \in StopPCs,
           \A k \in JobIds : jobs2[k] = "none" <=> jobs[k] = "none",
           \A k \in JobIds : Clear(k, rows, past) => Clear(k, rows2, past2)
    PROVE  Looked(n, rows2, jobs2, past2)
<1> HIDE DEF Clear
<1>1. \A k \in n.seen : k \in m.seen /\ k \in JobIds
    OBVIOUS
<1>2. \A k \in n.seen : jobs2[k] # "none"
    BY <1>1 DEF Looked
<1>3. ASSUME MaxJobs <= ListLimit \/ n.pc \notin StopPCs, NEW k \in n.seen
      PROVE  Clear(k, rows2, past2)
    BY <1>1, <1>3 DEF Looked
<1> QED
    BY <1>2, <1>3 DEF Looked

LEMMA Shrinks ==
    ASSUME DrainInv, NEW r \in Requests, Others(r), setup' = setup,
           runtime' \in {"enabled", "disabled", "absent"},
           blocker' \in [Blockers -> {"absent", "live", "ended"}],
           binding' \in [Tenants -> Row], job' \in [JobIds -> JobStatus],
           revived' \in SUBSET Tenants, revived \subseteq revived',
           \A j \in JobIds : job'[j] = "none" <=> job[j] = "none",
           \A t \in Tenants \ revived' :
               binding'[t].status \in DrainingRow =>
                    binding'[t] = binding[t] /\ job'[binding[t].job] \in ActiveJob,
           \A t \in Tenants : binding'[t].job # 0 => job[binding'[t].job] # "none",
           Known(req'[r], binding', job', revived'),
           Carries(r) \/ Looked(req'[r], binding', job', revived')
    PROVE  DrainInv'
<1>1. DrainTypeOK'
    BY DEF DrainInv, DrainTypeOK, Others
<1>2. Numbered(job')
    BY DEF DrainInv, Numbered
<1>3. Consistent(binding', job', revived')
  <2>1. ASSUME NEW t \in Tenants PROVE binding'[t].job \in {0} \cup JobIds
      BY DEF Row
  <2>2. \A t \in Tenants \ revived' : t \in Tenants \ revived
      OBVIOUS
  <2> QED
      BY <2>1, <2>2 DEF DrainInv, Consistent
<1>4. \A j \in JobIds : Clear(j, binding, revived) => Clear(j, binding', revived')
    BY DEF Clear
<1>5. ASSUME NEW q \in Requests
      PROVE  Known(req'[q], binding', job', revived') /\ Looked(req'[q], binding', job', revived')
  <2>1. /\ req[q] \in Request /\ Known(req[q], binding, job, revived)
        /\ Looked(req[q], binding, job, revived)
      BY DEF DrainInv, DrainTypeOK
  <2>2. req[q].seen \subseteq JobIds
      BY <2>1 DEF Request
  <2>3. CASE q = r
    <3>1. CASE Carries(r)
      <4>1. Looked(req'[r], binding', job', revived')
          BY <2>1, <2>2, <2>3, <3>1, <1>4, LookedStays DEF Carries
      <4> QED
          BY <2>3, <4>1
    <3> QED
        BY <2>3, <3>1
  <2>4. CASE q # r
    <3>1. req'[q] = req[q]
        BY <2>4 DEF Others
    <3>2. req[q].j \in {0} \cup JobIds /\ req[q].row.job \in {0} \cup JobIds
        BY <2>1 DEF Request, Row
    <3> HIDE DEF Request
    <3>3. Known(req[q], binding', job', revived')
        BY <2>1, <3>2, <1>4 DEF Known, RefreshPCs
    <3>4. Looked(req[q], binding', job', revived')
        BY <2>1, <2>2, <1>4, LookedStays
    <3> QED
        BY <3>1, <3>3, <3>4
  <2> QED
      BY <2>3, <2>4
<1> QED
    BY <1>1, <1>2, <1>3, <1>5 DEF DrainInv

\* The rows and the jobs stay as they are.
LEMMA Quiet ==
    ASSUME DrainInv, NEW r \in Requests, Others(r), setup' = setup,
           runtime' \in {"enabled", "disabled", "absent"},
           blocker' \in [Blockers -> {"absent", "live", "ended"}],
           binding' = binding, job' = job, revived' = revived,
           Known(req'[r], binding, job, revived),
           Carries(r) \/ Looked(req'[r], binding', job', revived')
    PROVE  DrainInv'
<1>1. binding' \in [Tenants -> Row] /\ job' \in [JobIds -> JobStatus] /\ revived' \in SUBSET Tenants
    BY DEF DrainInv, DrainTypeOK
<1>2. \A t \in Tenants \ revived' :
         binding'[t].status \in DrainingRow =>
            binding'[t] = binding[t] /\ job'[binding[t].job] \in ActiveJob
    BY DEF DrainInv, Consistent
<1>3. \A t \in Tenants : binding'[t].job # 0 => job[binding'[t].job] # "none"
    BY DEF DrainInv, Consistent
<1> QED
    BY <1>1, <1>2, <1>3, Shrinks

\* Only the rows change.
LEMMA RowsChange ==
    ASSUME DrainInv, NEW r \in Requests, Others(r), UNCHANGED <<setup, runtime, blocker, job>>,
           binding' \in [Tenants -> Row], revived' \in SUBSET Tenants, revived \subseteq revived',
           \A t \in Tenants \ revived' :
               binding'[t].status \in DrainingRow => binding'[t] = binding[t],
           \A t \in Tenants : binding'[t].job # 0 => job[binding'[t].job] # "none",
           Known(req'[r], binding', job, revived'), Carries(r)
    PROVE  DrainInv'
<1>1. runtime' \in {"enabled", "disabled", "absent"} /\ job' \in [JobIds -> JobStatus]
      /\ blocker' \in [Blockers -> {"absent", "live", "ended"}] /\ job' = job /\ setup' = setup
    BY DEF DrainInv, DrainTypeOK
<1>2. \A t \in Tenants \ revived' : t \in Tenants \ revived
    OBVIOUS
<1>3. \A t \in Tenants \ revived' :
         binding'[t].status \in DrainingRow =>
             binding'[t] = binding[t] /\ job'[binding[t].job] \in ActiveJob
    BY <1>1, <1>2 DEF DrainInv, Consistent
<1> QED
    BY <1>1, <1>3, Shrinks

-----------------------------------------------------------------------------
(* The refresh.                                                             *)

LEMMA RefreshKeeps ==
    ASSUME DrainInv, NEW r \in Requests, NEW t \in Tenants, NEW j \in JobIds, Refresh(r, t, j)
    PROVE  DrainInv'
<1>1. DrainTypeOK /\ "read_job" \in PCs
    BY DEF DrainInv, PCs
<1>2. Begin(r, "refresh", "read_job", t, j) /\ j \in Created
      /\ UNCHANGED <<setup, runtime, binding, job, blocker, revived>>
    BY DEF Refresh
<1>3. /\ Others(r) /\ req'[r].pc = "read_job" /\ req'[r].j = j /\ ~req'[r].blocked
      /\ req'[r].seen = {}
    BY <1>1, <1>2, Begins
<1>4. Known(req'[r], binding, job, revived) /\ Carries(r)
    BY <1>2, <1>3 DEF Known, RefreshPCs, Created, JobIds, Carries
<1> QED
    BY <1>1, <1>2, <1>3, <1>4, Quiet DEF DrainTypeOK

LEMMA ReadJobKeeps ==
    ASSUME DrainInv, NEW r \in Requests, ReadJob(r)
    PROVE  DrainInv' /\ Others(r) /\ req'[r].pc \in {"count_blockers", "count_active"}
<1> DEFINE pc == IF job[req[r].j] \in ActiveJob THEN "count_blockers" ELSE "count_active"
<1>1. DrainTypeOK /\ Known(req[r], binding, job, revived) /\ Consistent(binding, job, revived)
    BY DEF DrainInv
<1>2. /\ req[r].pc = "read_job"
      /\ req' = [req EXCEPT ![r].st = job[req[r].j], ![r].pc = pc]
      /\ UNCHANGED <<setup, runtime, binding, job, blocker, revived>>
    BY DEF ReadJob, At
<1>3. req[r] \in Request /\ req[r].j \in JobIds /\ job[req[r].j] # "none" /\ ~req[r].blocked
    BY <1>1, <1>2 DEF DrainTypeOK, Request, Known, RefreshPCs
<1>4. job[req[r].j] \in JobStatus /\ pc \in PCs /\ pc \in {"count_blockers", "count_active"}
    BY <1>1, <1>3 DEF DrainTypeOK, PCs
<1>5. /\ Others(r) /\ req'[r].pc = pc /\ req'[r].j = req[r].j
      /\ req'[r].st = job[req[r].j] /\ ~req'[r].blocked /\ req'[r].seen = req[r].seen
  <2> HIDE DEF pc
  <2> QED
      BY <1>1, <1>2, <1>3, <1>4 DEF DrainTypeOK, Others, Request
<1>6. job[req[r].j] \notin ActiveJob => Clear(req[r].j, binding, revived)
    BY <1>1 DEF Consistent, Clear
<1>7. Known(req'[r], binding, job, revived)
    BY <1>3, <1>5, <1>6 DEF Known, RefreshPCs, JobIds
<1>8. Carries(r)
    BY <1>2, <1>5 DEF Carries, StopPCs
<1> QED
    BY <1>1, <1>2, <1>4, <1>5, <1>7, <1>8, Quiet DEF DrainTypeOK

LEMMA CountBlockersKeeps ==
    ASSUME DrainInv, NEW r \in Requests, CountBlockers(r)
    PROVE  DrainInv' /\ Others(r) /\ req'[r].pc \in {"mark_drained", "count_active"}
<1> DEFINE blocked == CountRuntimeBlockers # {}
           pc == IF blocked THEN "count_active" ELSE "mark_drained"
<1>1. DrainTypeOK /\ Known(req[r], binding, job, revived) /\ req[r] \in Request
    BY DEF DrainInv, DrainTypeOK
<1>2. /\ req[r].pc = "count_blockers"
      /\ req' = [req EXCEPT ![r].blocked = blocked, ![r].pc = pc]
      /\ UNCHANGED <<setup, runtime, binding, job, blocker, revived>>
    BY DEF CountBlockers, At
<1>3. pc \in PCs /\ blocked \in BOOLEAN /\ pc \in {"mark_drained", "count_active"}
    BY DEF PCs
<1>4. /\ Others(r) /\ req'[r].pc = pc /\ req'[r].j = req[r].j
      /\ req'[r].st = req[r].st /\ req'[r].blocked = blocked /\ req'[r].seen = req[r].seen
  <2> HIDE DEF pc, blocked
  <2> QED
      BY <1>1, <1>2, <1>3 DEF DrainTypeOK, Others, Request
<1>5. Known(req'[r], binding, job, revived)
  <2>1. CASE blocked
    <3>1. req'[r].pc = "count_active" /\ req'[r].blocked
        BY <2>1, <1>4
    <3> HIDE DEF pc, blocked
    <3> QED
        BY <3>1, <1>1, <1>2, <1>4 DEF Known, RefreshPCs
  <2>2. CASE ~blocked
    <3>1. req'[r].pc = "mark_drained" /\ ~req'[r].blocked
        BY <2>2, <1>4
    <3> HIDE DEF pc, blocked
    <3> QED
        BY <3>1, <1>1, <1>2, <1>4 DEF Known, RefreshPCs
  <2> QED
      BY <2>1, <2>2
<1>6. Carries(r)
    BY <1>2, <1>4 DEF Carries, StopPCs
<1> HIDE DEF pc, blocked
<1> QED
    BY <1>1, <1>2, <1>3, <1>4, <1>5, <1>6, Quiet DEF DrainTypeOK

\* Marking leaves no row that drains.
LEMMA Marked ==
    ASSUME DrainInv, NEW j \in JobIds, job[j] # "none",
           binding' = MarkPluginDrainInstancesDrained(j)
    PROVE  /\ binding' \in [Tenants -> Row]
           /\ \A t \in Tenants : /\ binding'[t].status \notin DrainingRow
                                 /\ binding'[t].status # "enabled"
                                 /\ binding'[t].job # 0 => job[binding'[t].job] # "none"
<1>1. /\ binding \in [Tenants -> Row]
      /\ \A t \in Tenants : binding[t].job # 0 => job[binding[t].job] # "none"
    BY DEF DrainInv, DrainTypeOK, Consistent
<1>2. [status |-> "drained", job |-> j] \in Row
    BY DEF Row, RowStatus
<1>3. ASSUME NEW t \in Tenants
      PROVE  binding'[t] = IF binding[t].status \in {"absent", "drained"} THEN binding[t]
                           ELSE [status |-> "drained", job |-> j]
    BY DEF MarkPluginDrainInstancesDrained
<1>4. binding' \in [Tenants -> Row]
    BY <1>1, <1>2 DEF MarkPluginDrainInstancesDrained
<1>5. ASSUME NEW t \in Tenants
      PROVE  /\ binding'[t].status \notin DrainingRow
             /\ binding'[t].status # "enabled"
             /\ binding'[t].job # 0 => job[binding'[t].job] # "none"
  <2>1. CASE binding[t].status \in {"absent", "drained"}
      BY <2>1, <1>1, <1>3 DEF DrainingRow
  <2>2. CASE binding[t].status \notin {"absent", "drained"}
      BY <2>2, <1>3 DEF DrainingRow
  <2> QED
      BY <2>1, <2>2
<1> QED
    BY <1>4, <1>5

LEMMA MarkDrainedKeeps ==
    ASSUME DrainInv, NEW r \in Requests, MarkDrained(r)
    PROVE  /\ DrainInv' /\ Others(r) /\ req'[r].pc \in {"mark_again", "count_active"}
           /\ \A t \in Tenants : binding'[t].status # "enabled"
<1>1. DrainTypeOK /\ Known(req[r], binding, job, revived) /\ req[r] \in Request
    BY DEF DrainInv, DrainTypeOK
<1>2. PICK pc \in {"mark_again", "count_active"} : Goto(r, pc)
    BY DEF MarkDrained
<1>3. /\ req[r].pc \in {"mark_drained", "mark_again"}
      /\ binding' = MarkPluginDrainInstancesDrained(req[r].j)
      /\ UNCHANGED <<setup, runtime, job, blocker, revived>>
    BY DEF MarkDrained, At
<1>4. req[r].j \in JobIds /\ job[req[r].j] # "none"
    BY <1>1, <1>3 DEF Request, Known, RefreshPCs
<1>5. /\ binding' \in [Tenants -> Row]
      /\ \A t \in Tenants : /\ binding'[t].status \notin DrainingRow
                            /\ binding'[t].status # "enabled"
                            /\ binding'[t].job # 0 => job[binding'[t].job] # "none"
    BY <1>3, <1>4, Marked
<1>6. /\ Others(r) /\ req'[r].pc = pc /\ req'[r].j = req[r].j
      /\ req'[r].st = req[r].st /\ req'[r].blocked = req[r].blocked /\ req'[r].seen = req[r].seen
    BY <1>1, <1>2, Goes DEF PCs
<1>7. Known(req'[r], binding', job, revived')
  <2>1. Clear(req[r].j, binding', revived')
      BY <1>5 DEF Clear
  <2> QED
      BY <2>1, <1>1, <1>3, <1>6 DEF Known, RefreshPCs
<1>8. Carries(r)
    BY <1>3, <1>6 DEF Carries, StopPCs
<1>9. revived' \in SUBSET Tenants /\ revived \subseteq revived'
    BY <1>1, <1>3 DEF DrainTypeOK
<1> QED
    BY <1>3, <1>5, <1>6, <1>7, <1>8, <1>9, RowsChange

LEMMA CountActiveKeeps ==
    ASSUME DrainInv, NEW r \in Requests, CountActive(r)
    PROVE  DrainInv' /\ Others(r) /\ req'[r].pc = "save_job"
<1> DEFINE used == CountActiveTenantPluginBindings # {}
<1>1. DrainTypeOK /\ Known(req[r], binding, job, revived) /\ req[r] \in Request
    BY DEF DrainInv, DrainTypeOK
<1>2. /\ req[r].pc = "count_active"
      /\ req' = [req EXCEPT ![r].used = used, ![r].pc = "save_job"]
      /\ UNCHANGED <<setup, runtime, binding, job, blocker, revived>>
    BY DEF CountActive, At
<1>3. used \in BOOLEAN /\ "save_job" \in PCs
    BY DEF PCs
<1>4. /\ Others(r) /\ req'[r].pc = "save_job" /\ req'[r].j = req[r].j
      /\ req'[r].st = req[r].st /\ req'[r].blocked = req[r].blocked /\ req'[r].seen = req[r].seen
  <2> HIDE DEF used
  <2> QED
      BY <1>1, <1>2, <1>3 DEF DrainTypeOK, Others, Request
<1>5. Known(req'[r], binding, job, revived)
    BY <1>1, <1>2, <1>4 DEF Known, RefreshPCs
<1>6. Carries(r)
    BY <1>2, <1>4 DEF Carries, StopPCs
<1> QED
    BY <1>1, <1>2, <1>4, <1>5, <1>6, Quiet DEF DrainTypeOK

LEMMA SaveJobKeeps ==
    ASSUME DrainInv, NEW r \in Requests, SaveJob(r)
    PROVE  DrainInv' /\ Others(r) /\ req'[r].pc = "idle"
<1> DEFINE j == req[r].j
           st == Progress(req[r].st, req[r].blocked, req[r].used)
<1>1. /\ DrainTypeOK /\ Known(req[r], binding, job, revived) /\ req[r] \in Request
      /\ Consistent(binding, job, revived)
    BY DEF DrainInv, DrainTypeOK
<1>2. req[r].pc = "save_job" /\ job' = [job EXCEPT ![j] = st]
      /\ Return(r) /\ UNCHANGED <<setup, runtime, binding, blocker, revived>>
    BY DEF SaveJob, At
<1>3. j \in JobIds /\ job[j] # "none" /\ req[r].st # "none"
    BY <1>1, <1>2 DEF Request, Known, RefreshPCs
<1>4. st \in JobStatus \ {"none"} /\ (~Clear(j, binding, revived) => st \in ActiveJob)
    BY <1>1, <1>2, <1>3
       DEF Progress, Request, JobStatus, BlockingJob, ActiveJob, Known
<1> HIDE DEF st
<1>5. job' \in [JobIds -> JobStatus] /\ job'[j] = st
      /\ \A k \in JobIds : k # j => job'[k] = job[k]
    BY <1>1, <1>2, <1>3, <1>4 DEF DrainTypeOK
<1>6. \A k \in JobIds : job'[k] = "none" <=> job[k] = "none"
    BY <1>3, <1>4, <1>5
<1>7. ASSUME NEW t \in Tenants \ revived'
      PROVE  binding'[t].status \in DrainingRow =>
                  binding'[t] = binding[t] /\ job'[binding[t].job] \in ActiveJob
  <2>1. binding'[t] = binding[t] /\ binding[t].job \in {0} \cup JobIds /\ t \in Tenants \ revived
      BY <1>1, <1>2 DEF DrainTypeOK, Row
  <2>2. binding[t].status \in DrainingRow /\ binding[t].job = j => st \in ActiveJob
      BY <2>1, <1>4 DEF Clear
  <2> QED
      BY <2>1, <2>2, <1>1, <1>5 DEF Consistent
<1>8. \A t \in Tenants : binding'[t].job # 0 => job[binding'[t].job] # "none"
    BY <1>1, <1>2 DEF Consistent
<1>9. Others(r) /\ req'[r].pc = "idle" /\ req'[r].seen = {}
    BY <1>1, <1>2, Returns
<1>10. Known(req'[r], binding', job', revived') /\ Carries(r)
    BY <1>9, Unconcerned DEF RefreshPCs, RowPCs, Carries
<1>11. binding' \in [Tenants -> Row] /\ revived' \in SUBSET Tenants /\ revived \subseteq revived'
    BY <1>1, <1>2 DEF DrainTypeOK
<1>12. runtime' \in {"enabled", "disabled", "absent"} /\ setup' = setup
       /\ blocker' \in [Blockers -> {"absent", "live", "ended"}]
    BY <1>1, <1>2 DEF DrainTypeOK
<1> QED
    BY <1>5, <1>6, <1>7, <1>8, <1>9, <1>10, <1>11, <1>12, Shrinks

-----------------------------------------------------------------------------
(* A new drain job.                                                         *)

LEMMA Fresh ==
    ASSUME Numbered(job), NEW j \in JobIds, j = Cardinality(Created) + 1
    PROVE  \A k \in JobIds : job[k] # "none" <=> k < j
<1>1. PICK n \in 0..MaxJobs : \A k \in JobIds : job[k] # "none" <=> k <= n
    BY DEF Numbered
<1>2. Created = 1..n
    BY <1>1, DrainAssumption DEF Created, JobIds
<1>3. Cardinality(Created) = n
    BY <1>2, FS_Interval
<1> QED
    BY <1>1, <1>3 DEF JobIds

LEMMA CreateKeeps ==
    ASSUME DrainInv, NEW r \in Requests, NEW t \in Tenants, NEW status \in ActiveJob,
           NEW mark \in DrainingRow, CreateDrainJob(r, t, status, mark)
    PROVE  /\ DrainInv' /\ Others(r) /\ req'[r].pc = "read_job"
           /\ \A u \in Tenants : binding'[u].status # "enabled"
<1> DEFINE j == Cardinality(Created) + 1
           affected == CountActiveTenantPluginBindings
           st == IF affected = {} THEN "ready_to_uninstall" ELSE status
           marked == [status |-> mark, job |-> j]
<1>1. DrainTypeOK /\ Numbered(job) /\ Consistent(binding, job, revived)
    BY DEF DrainInv
<1>2. /\ j \in JobIds
      /\ Begin(r, "drain", "read_job", t, j)
      /\ binding' = [u \in Tenants |-> IF u \in affected THEN marked ELSE binding[u]]
      /\ job' = [job EXCEPT ![j] = st]
      /\ UNCHANGED <<setup, runtime, blocker, revived>>
    BY DEF CreateDrainJob
<1>3. \A k \in JobIds : job[k] # "none" <=> k < j
    BY <1>1, <1>2, Fresh
<1>4. st \in BlockingJob /\ (affected # {} => st \in ActiveJob)
    BY DEF BlockingJob
<1>5. marked \in Row /\ marked.job = j /\ marked.status # "enabled"
    BY <1>2 DEF Row, RowStatus, DrainingRow
<1>6. /\ Others(r) /\ req'[r].pc = "read_job" /\ req'[r].j = j /\ ~req'[r].blocked
      /\ req'[r].seen = {}
  <2>1. "read_job" \in PCs /\ j \in {0} \cup JobIds
      BY <1>2 DEF PCs
  <2> HIDE DEF j
  <2> QED
      BY <2>1, <1>1, <1>2, Begins
<1>7. \A u \in Tenants : u \in affected <=> binding[u].status = "enabled"
    BY DEF CountActiveTenantPluginBindings
<1> HIDE DEF marked, j, st, affected
<1>8. binding' \in [Tenants -> Row]
      /\ \A u \in Tenants : binding'[u] = IF u \in affected THEN marked ELSE binding[u]
    BY <1>1, <1>2, <1>5 DEF DrainTypeOK
<1>9. job' \in [JobIds -> JobStatus] /\ job'[j] = st
      /\ \A k \in JobIds : k # j => job'[k] = job[k]
    BY <1>1, <1>2, <1>4 DEF DrainTypeOK, JobStatus
<1>10. DrainTypeOK'
    BY <1>1, <1>2, <1>6, <1>8, <1>9 DEF DrainTypeOK, Others
<1>11. Numbered(job')
  <2>1. j \in 0..MaxJobs /\ \A k \in JobIds : job'[k] # "none" <=> k <= j
      BY <1>2, <1>3, <1>4, <1>9, DrainAssumption DEF JobIds, BlockingJob, ActiveJob
  <2> QED
      BY <2>1 DEF Numbered
<1>12. ASSUME NEW u \in Tenants, u \notin affected
       PROVE  /\ binding'[u] = binding[u] /\ binding[u].job \in {0} \cup JobIds
              /\ binding[u].job # 0 => /\ job[binding[u].job] # "none"
                                       /\ job'[binding[u].job] = job[binding[u].job]
  <2>1. binding'[u] = binding[u] /\ binding[u].job \in {0} \cup JobIds
      BY <1>12, <1>1, <1>8 DEF DrainTypeOK, Row
  <2>2. binding[u].job # 0 => job[binding[u].job] # "none"
      BY <1>1 DEF Consistent
  <2> QED
      BY <2>1, <2>2, <1>2, <1>3, <1>9 DEF JobIds
<1>13. Consistent(binding', job', revived')
  <2>1. ASSUME NEW u \in Tenants
        PROVE  binding'[u].job # 0 => job'[binding'[u].job] # "none"
    <3>1. CASE u \in affected
        BY <3>1, <1>4, <1>5, <1>8, <1>9 DEF BlockingJob, ActiveJob
    <3> QED
        BY <3>1, <1>12
  <2>2. ASSUME NEW u \in Tenants \ revived', binding'[u].status \in DrainingRow
        PROVE  binding'[u].job # 0 /\ job'[binding'[u].job] \in ActiveJob
    <3>1. CASE u \in affected
      <4>1. binding'[u].job = j /\ st \in ActiveJob /\ j # 0
          BY <3>1, <1>2, <1>4, <1>5, <1>8 DEF JobIds
      <4> QED
          BY <4>1, <1>9
    <3>2. CASE u \notin affected
      <4>1. binding[u].job # 0 /\ job[binding[u].job] \in ActiveJob
          BY <2>2, <3>2, <1>1, <1>2, <1>12 DEF Consistent
      <4> QED
          BY <4>1, <3>2, <1>12
    <3> QED
        BY <3>1, <3>2
  <2> QED
      BY <2>1, <2>2 DEF Consistent
<1>14. ASSUME NEW k \in JobIds, k # j
       PROVE  Clear(k, binding, revived) => Clear(k, binding', revived')
    BY <1>2, <1>5, <1>8, <1>14 DEF Clear
<1>15. ASSUME NEW k \in JobIds, job[k] # "none"
       PROVE  job'[k] # "none" /\ k # j /\ (Clear(k, binding, revived) => Clear(k, binding', revived'))
  <2>1. k # j
      BY <1>15, <1>2, <1>3 DEF JobIds
  <2> QED
      BY <2>1, <1>9, <1>14, <1>15
<1>16. ASSUME NEW q \in Requests
       PROVE  Known(req'[q], binding', job', revived') /\ Looked(req'[q], binding', job', revived')
  <2>1. CASE q = r
    <3>1. job'[j] # "none" /\ j # 0
        BY <1>2, <1>4, <1>9 DEF BlockingJob, ActiveJob, JobIds
    <3>2. Known(req'[q], binding', job', revived')
        BY <2>1, <3>1, <1>6 DEF Known, RefreshPCs
    <3> QED
        BY <2>1, <3>2, <1>6 DEF Looked
  <2>2. CASE q # r
    <3>1. /\ req'[q] = req[q] /\ req[q] \in Request
          /\ Known(req[q], binding, job, revived) /\ Looked(req[q], binding, job, revived)
        BY <2>2, <1>6 DEF Others, DrainInv, DrainTypeOK
    <3>2. /\ req[q].j \in {0} \cup JobIds /\ req[q].row.job \in {0} \cup JobIds
          /\ req[q].seen \subseteq JobIds
        BY <3>1 DEF Request, Row
    <3> HIDE DEF Request
    <3>3. Known(req[q], binding', job', revived')
        BY <3>1, <3>2, <1>15 DEF Known, RefreshPCs
    <3>4. Looked(req[q], binding', job', revived')
        BY <3>1, <3>2, <1>15 DEF Looked
    <3> QED
        BY <3>1, <3>3, <3>4
  <2> QED
      BY <2>1, <2>2
<1>17. \A u \in Tenants : binding'[u].status # "enabled"
    BY <1>5, <1>7, <1>8
<1> QED
    BY <1>6, <1>10, <1>11, <1>13, <1>16, <1>17 DEF DrainInv

-----------------------------------------------------------------------------
(* The tenants' instances.                                                  *)

\* A step that touches neither rows nor jobs and leaves the request where it knows of none.
LEMMA PlainKeeps ==
    ASSUME DrainInv, NEW r \in Requests, Others(r), req'[r].pc \notin RefreshPCs \cup RowPCs,
           Carries(r) \/ Looked(req'[r], binding', job', revived'),
           setup' = setup, runtime' \in {"enabled", "disabled", "absent"},
           blocker' \in [Blockers -> {"absent", "live", "ended"}],
           UNCHANGED <<binding, job, revived>>
    PROVE  DrainInv'
<1>1. Known(req'[r], binding, job, revived)
    BY Unconcerned
<1> QED
    BY <1>1, Quiet

LEMMA Types ==
    ASSUME DrainInv
    PROVE  /\ DrainTypeOK /\ revived \in SUBSET Tenants /\ revived \subseteq revived
           /\ binding \in [Tenants -> Row]
           /\ runtime \in {"enabled", "disabled", "absent"}
           /\ blocker \in [Blockers -> {"absent", "live", "ended"}]
           /\ \A t \in Tenants : binding[t].job \in {0} \cup JobIds
           /\ \A t \in Tenants : binding[t].job # 0 => job[binding[t].job] # "none"
           /\ \A r \in Requests : req[r] \in Request /\ req[r].t \in Tenants /\ req[r].row \in Row
BY DEF DrainInv, DrainTypeOK, Row, Consistent, Request

\* Rows that become enabled or absent, or keep their job, do not drain.
LEMMA Rewritten ==
    ASSUME DrainInv, NEW t \in Tenants, NEW row \in Row, row.status \notin DrainingRow,
           row.job # 0 => job[row.job] # "none",
           binding' = binding \/ binding' = [binding EXCEPT ![t] = row]
    PROVE  /\ binding' \in [Tenants -> Row]
           /\ \A u \in Tenants : u # t => binding'[u] = binding[u]
           /\ binding'[t] = row \/ binding'[t] = binding[t]
           /\ \A u \in Tenants \ revived :
                 binding'[u].status \in DrainingRow => binding'[u] = binding[u]
           /\ \A u \in Tenants : binding'[u].job # 0 => job[binding'[u].job] # "none"
<1>1. /\ binding \in [Tenants -> Row]
      /\ \A u \in Tenants : binding[u].job # 0 => job[binding[u].job] # "none"
    BY Types
<1> QED
    BY <1>1

LEMMA NewRowType ==
    /\ NewRow \in Row /\ NewRow.status = "enabled" /\ NewRow.job = 0
    /\ NoRow \in Row /\ NoRow.status = "absent" /\ NoRow.job = 0
BY DEF NewRow, NoRow, Row, RowStatus

\* What the drain jobs tell: where none is active nobody drains.
LEMMA NobodyDrains ==
    ASSUME DrainInv, \A j \in JobIds : job[j] \notin ActiveJob
    PROVE  \A t \in Tenants \ revived : binding[t].status \notin DrainingRow
BY Types DEF DrainInv, Consistent

LEMMA EnsurePluginAcceptsNewUsageKeeps ==
    ASSUME DrainInv, NEW r \in Requests, EnsurePluginAcceptsNewUsage(r)
    PROVE  DrainInv' /\ Others(r) /\ req'[r].pc \in {"check_rows", "credentials", "idle"}
<1>1. /\ DrainTypeOK /\ {"check_rows", "credentials"} \subseteq PCs
      /\ UNCHANGED <<setup, runtime, binding, job, blocker, revived>>
    BY DEF EnsurePluginAcceptsNewUsage, DrainInv, PCs
<1>2. runtime' \in {"enabled", "disabled", "absent"}
      /\ blocker' \in [Blockers -> {"absent", "live", "ended"}]
    BY <1>1 DEF DrainTypeOK
<1>3. CASE Pass(r, "check_rows") /\ CountBlockingByPlugin = {}
  <2>1. Others(r) /\ req'[r].pc = "check_rows" /\ req'[r].seen = Created
      BY <1>1, <1>3, Passes
  <2>2. \A j \in JobIds : job[j] \notin ActiveJob
      BY <1>3 DEF CountBlockingByPlugin, BlockingJob
  <2>3. Looked(req'[r], binding', job', revived')
      BY <2>1, <2>2, <1>1, NobodyDrains, FoundNone
  <2> QED
      BY <2>1, <2>3, <1>1, <1>2, PlainKeeps DEF RefreshPCs, RowPCs
<1>4. CASE Goto(r, "credentials") /\ req[r].pc = "check_rows"
  <2>1. Others(r) /\ req'[r].pc = "credentials" /\ req'[r].seen = req[r].seen
      BY <1>1, <1>4, Goes
  <2>2. Carries(r)
      BY <2>1, <1>4 DEF Carries, StopPCs
  <2> QED
      BY <2>1, <2>2, <1>1, <1>2, PlainKeeps DEF RefreshPCs, RowPCs
<1>5. CASE Return(r)
  <2>1. Others(r) /\ req'[r].pc = "idle" /\ req'[r].seen = {}
      BY <1>1, <1>5, Returns
  <2>2. Carries(r)
      BY <2>1 DEF Carries
  <2> QED
      BY <2>1, <2>2, <1>1, <1>2, PlainKeeps DEF RefreshPCs, RowPCs
<1> QED
    BY <1>3, <1>4, <1>5 DEF EnsurePluginAcceptsNewUsage, At

LEMMA EnsureCredentialsKeeps ==
    ASSUME DrainInv, NEW r \in Requests, EnsureCredentials(r)
    PROVE  DrainInv' /\ Others(r) /\ req'[r].pc = "upsert"
<1> DEFINE t == req[r].t
<1>1. DrainTypeOK /\ t \in Tenants /\ revived \in SUBSET Tenants
    BY Types
<1>2. /\ req[r].pc = "credentials"
      /\ binding' = binding \/ binding' = [binding EXCEPT ![t] = NewRow]
      /\ Goto(r, "upsert") /\ UNCHANGED <<setup, runtime, job, blocker, revived>>
    BY DEF EnsureCredentials, At
<1>3. Others(r) /\ req'[r].pc = "upsert" /\ req'[r].seen = req[r].seen
    BY <1>1, <1>2, Goes DEF PCs
<1>4. Known(req'[r], binding', job, revived') /\ Carries(r)
    BY <1>2, <1>3, Unconcerned DEF RefreshPCs, RowPCs, Carries, StopPCs
<1> HIDE DEF t
<1>5. NewRow.status \notin DrainingRow
    BY NewRowType DEF DrainingRow
<1> QED
    BY <1>1, <1>2, <1>3, <1>4, <1>5, NewRowType, Rewritten, RowsChange

LEMMA UpsertEnabledKeeps ==
    ASSUME DrainInv, NEW r \in Requests, UpsertEnabled(r)
    PROVE  DrainInv' /\ Others(r) /\ req'[r].pc = "idle"
<1> DEFINE t == req[r].t
<1>1. DrainTypeOK /\ t \in Tenants /\ revived \in SUBSET Tenants
    BY Types
<1>2. /\ binding' = binding \/ binding' = [binding EXCEPT ![t] = NewRow]
      /\ Return(r) /\ UNCHANGED <<setup, runtime, job, blocker, revived>>
    BY DEF UpsertEnabled
<1>3. Others(r) /\ req'[r].pc = "idle" /\ req'[r].seen = {}
    BY <1>1, <1>2, Returns
<1>4. Known(req'[r], binding', job, revived') /\ Carries(r)
    BY <1>3, Unconcerned DEF RefreshPCs, RowPCs, Carries
<1> HIDE DEF t
<1>5. NewRow.status \notin DrainingRow
    BY NewRowType DEF DrainingRow
<1> QED
    BY <1>1, <1>2, <1>3, <1>4, <1>5, NewRowType, Rewritten, RowsChange

LEMMA UnsubscribeKeeps ==
    ASSUME DrainInv, NEW r \in Requests, NEW t \in Tenants, Unsubscribe(r, t)
    PROVE  DrainInv' /\ Others(r) /\ req'[r].pc = "write_row"
<1> DEFINE row == binding[t]
           m == [Idle EXCEPT !.pc = "write_row", !.t = t, !.row = row, !.j = row.job]
<1>1. DrainTypeOK /\ row \in Row /\ row.job \in {0} \cup JobIds
      /\ (row.job # 0 => job[row.job] # "none")
    BY Types
<1>2. req' = [req EXCEPT ![r] = m] /\ UNCHANGED <<setup, runtime, binding, job, blocker, revived>>
    BY DEF Unsubscribe
<1>3. m \in Request /\ m.pc = "write_row" /\ m.j = row.job /\ m.seen = {}
  <2>1. Idle \in Request /\ "write_row" \in PCs /\ Idle.seen = {}
      BY IdleType DEF PCs
  <2> HIDE DEF Idle, row
  <2> QED
      BY <1>1, <2>1 DEF Request
<1> HIDE DEF m, row
<1>4. Others(r) /\ req'[r] = m
    BY <1>1, <1>2, <1>3 DEF DrainTypeOK, Others
<1>5. Known(req'[r], binding, job, revived) /\ Carries(r)
    BY <1>1, <1>3, <1>4 DEF Known, RefreshPCs, Carries
<1> QED
    BY <1>1, <1>2, <1>3, <1>4, <1>5, Quiet DEF DrainTypeOK

LEMMA WriteRowKeeps ==
    ASSUME DrainInv, NEW r \in Requests, WriteRow(r)
    PROVE  /\ DrainInv' /\ Others(r) /\ req'[r].pc \in {"idle", "read_job"}
           /\ \A u \in Tenants : binding'[u].status = "enabled" => binding[u].status = "enabled"
<1> DEFINE t == req[r].t
           row == [binding[t] EXCEPT !.status = Disabled(req[r].row)]
           m == [Idle EXCEPT !.pc = "read_job", !.j = req[r].j]
<1>1. /\ DrainTypeOK /\ t \in Tenants /\ req[r] \in Request /\ req[r].j \in {0} \cup JobIds
      /\ binding \in [Tenants -> Row] /\ revived \in SUBSET Tenants
      /\ Known(req[r], binding, job, revived)
    BY Types DEF DrainInv, Request
<1>2. /\ req[r].pc = "write_row"
      /\ binding' = binding \/ binding' = [binding EXCEPT ![t] = row]
      /\ IF req[r].j = 0 THEN Return(r) ELSE req' = [req EXCEPT ![r] = m]
      /\ UNCHANGED <<setup, runtime, job, blocker, revived>>
    BY DEF WriteRow, At
<1>3. row \in Row /\ row.status \in {"drained", "disabled"} /\ row.job = binding[t].job
    BY <1>1 DEF Disabled, Row, RowStatus
<1>4. m \in Request /\ m.pc = "read_job" /\ m.j = req[r].j /\ ~m.blocked /\ m.seen = {}
  <2>1. Idle \in Request /\ ~Idle.blocked /\ Idle.seen = {} /\ "read_job" \in PCs
      BY IdleType DEF PCs
  <2> HIDE DEF Idle
  <2> QED
      BY <1>1, <2>1 DEF Request
<1>5. row.job # 0 => job[row.job] # "none"
    BY <1>1, <1>3, Types
<1> HIDE DEF t, row, m
<1>6. row.status \notin DrainingRow /\ row.status # "enabled"
    BY <1>3 DEF DrainingRow
<1>7. /\ Others(r) /\ Known(req'[r], binding', job, revived') /\ Carries(r)
      /\ req'[r].pc \in {"idle", "read_job"}
  <2>1. CASE req[r].j = 0
    <3>1. Others(r) /\ req'[r].pc = "idle" /\ req'[r].seen = {}
        BY <2>1, <1>1, <1>2, Returns
    <3> QED
        BY <3>1, Unconcerned DEF RefreshPCs, RowPCs, Carries
  <2>2. CASE req[r].j # 0
    <3>1. req' = [req EXCEPT ![r] = m]
        BY <2>2, <1>2
    <3>2. Others(r) /\ req'[r] = m
        BY <3>1, <1>1, <1>4 DEF DrainTypeOK, Others
    <3> QED
        BY <2>2, <3>2, <1>1, <1>2, <1>4 DEF Known, RefreshPCs, Carries
  <2> QED
      BY <2>1, <2>2
<1>8. /\ binding' \in [Tenants -> Row]
      /\ \A u \in Tenants : u # t => binding'[u] = binding[u]
      /\ binding'[t] = row \/ binding'[t] = binding[t]
      /\ \A u \in Tenants \ revived :
            binding'[u].status \in DrainingRow => binding'[u] = binding[u]
      /\ \A u \in Tenants : binding'[u].job # 0 => job[binding'[u].job] # "none"
    BY <1>1, <1>2, <1>3, <1>5, <1>6, Rewritten
<1> QED
    BY <1>1, <1>2, <1>6, <1>7, <1>8, RowsChange

\* Rotation: what is written back is a row of a job that exists.
LEMMA RotateKeeps ==
    ASSUME DrainInv, NEW r \in Requests, NEW t \in Tenants, Rotate(r, t)
    PROVE  /\ DrainInv' /\ Others(r) /\ req'[r].pc = "rotate_read" /\ req'[r].t = t
           /\ req'[r].used => binding[t].status = "enabled"
<1> DEFINE used == binding[t].status = "enabled"
           m == [Idle EXCEPT !.pc = "rotate_read", !.t = t, !.used = used]
<1>1. DrainTypeOK /\ used \in BOOLEAN
    BY Types
<1>2. req' = [req EXCEPT ![r] = m] /\ UNCHANGED <<setup, runtime, binding, job, blocker, revived>>
    BY DEF Rotate
<1>3. m \in Request /\ m.pc = "rotate_read" /\ m.t = t /\ m.used = used /\ m.seen = {}
  <2>1. Idle \in Request /\ "rotate_read" \in PCs /\ Idle.seen = {}
      BY IdleType DEF PCs
  <2> HIDE DEF Idle, used
  <2> QED
      BY <1>1, <2>1 DEF Request
<1> HIDE DEF m
<1>4. Others(r) /\ req'[r] = m
    BY <1>1, <1>2, <1>3 DEF DrainTypeOK, Others
<1>5. Known(req'[r], binding, job, revived) /\ Carries(r)
    BY <1>3, <1>4, Unconcerned DEF RefreshPCs, RowPCs, Carries
<1> QED
    BY <1>1, <1>2, <1>3, <1>4, <1>5, Quiet DEF DrainTypeOK

LEMMA RotateReadKeeps ==
    ASSUME DrainInv, NEW r \in Requests, RotateRead(r)
    PROVE  /\ DrainInv' /\ Others(r) /\ req'[r].pc \in {"idle", "rotate_write"}
           /\ req'[r].pc = "rotate_write" =>
                 /\ req'[r].t = req[r].t /\ req'[r].used = req[r].used
                 /\ req'[r].row = binding[req[r].t]
<1> DEFINE row == binding[req[r].t]
<1>1. /\ DrainTypeOK /\ row \in Row /\ (row.job # 0 => job[row.job] # "none")
      /\ req[r] \in Request
    BY Types
<1>2. /\ req[r].pc = "rotate_read"
      /\ Return(r) \/ req' = [req EXCEPT ![r].row = row, ![r].pc = "rotate_write"]
      /\ UNCHANGED <<setup, runtime, binding, job, blocker, revived>>
    BY DEF RotateRead, At
<1>3. /\ Others(r) /\ req'[r].pc \in {"idle", "rotate_write"} /\ req'[r].seen \subseteq req[r].seen
      /\ req'[r].pc = "rotate_write" =>
            /\ req'[r].t = req[r].t /\ req'[r].used = req[r].used /\ req'[r].row = row
  <2>1. CASE Return(r)
      BY <2>1, <1>1, Returns
  <2>2. CASE req' = [req EXCEPT ![r].row = row, ![r].pc = "rotate_write"]
    <3>1. "rotate_write" \in PCs
        BY DEF PCs
    <3> HIDE DEF row
    <3> QED
        BY <2>2, <3>1, <1>1 DEF DrainTypeOK, Others, Request
  <2> QED
      BY <1>2, <2>1, <2>2
<1> HIDE DEF row
<1>4. Known(req'[r], binding, job, revived) /\ Carries(r)
    BY <1>1, <1>2, <1>3 DEF Known, RefreshPCs, Carries, StopPCs
<1> QED
    BY <1>1, <1>2, <1>3, <1>4, Quiet DEF DrainTypeOK, row

LEMMA RotateWriteKeeps ==
    ASSUME DrainInv, NEW r \in Requests, RotateWrite(r)
    PROVE  /\ DrainInv' /\ Others(r) /\ req'[r].pc \in {"idle", "keep_enabled"}
           /\ req'[r].pc = "keep_enabled" => req'[r].t = req[r].t /\ req[r].used
           /\ \A u \in Tenants : u # req[r].t => binding'[u] = binding[u]
           /\ binding'[req[r].t] = req[r].row
<1> DEFINE t == req[r].t
           row == req[r].row
<1>1. /\ DrainTypeOK /\ t \in Tenants /\ row \in Row /\ binding \in [Tenants -> Row]
      /\ revived \in SUBSET Tenants /\ req[r] \in Request
      /\ \A u \in Tenants : binding[u].job # 0 => job[binding[u].job] # "none"
    BY Types
<1>2. /\ req[r].pc = "rotate_write" /\ binding' = [binding EXCEPT ![t] = row]
      /\ revived' = IF row.status \in DrainingRow /\ row # binding[t] THEN revived \cup {t} ELSE revived
      /\ (Goto(r, "keep_enabled") /\ req[r].used) \/ Return(r)
      /\ UNCHANGED <<setup, runtime, job, blocker>>
    BY DEF RotateWrite, At
<1>3. row.job # 0 => job[row.job] # "none"
    BY <1>1, <1>2 DEF DrainInv, Known
<1>4. /\ Others(r) /\ req'[r].pc \in {"idle", "keep_enabled"} /\ req'[r].seen \subseteq req[r].seen
      /\ req'[r].pc = "keep_enabled" => req'[r].t = req[r].t /\ req[r].used
    BY <1>1, <1>2, Goes, Returns DEF PCs
<1>5. Known(req'[r], binding', job, revived') /\ Carries(r)
    BY <1>2, <1>4, Unconcerned DEF RefreshPCs, RowPCs, Carries, StopPCs
<1> HIDE DEF t, row
<1>6. /\ binding' \in [Tenants -> Row] /\ binding'[t] = row
      /\ \A u \in Tenants : u # t => binding'[u] = binding[u]
    BY <1>1, <1>2
<1>7. revived' \in SUBSET Tenants /\ revived \subseteq revived'
    BY <1>1, <1>2
<1>8. \A u \in Tenants \ revived' :
          binding'[u].status \in DrainingRow => binding'[u] = binding[u]
    BY <1>1, <1>2, <1>6
<1>9. \A u \in Tenants : binding'[u].job # 0 => job[binding'[u].job] # "none"
    BY <1>1, <1>3, <1>6
<1>10. DrainInv'
    BY <1>2, <1>4, <1>5, <1>6, <1>7, <1>8, <1>9, RowsChange
<1> QED
    BY <1>4, <1>6, <1>10 DEF t, row

LEMMA KeepEnabledKeeps ==
    ASSUME DrainInv, NEW r \in Requests, KeepEnabled(r)
    PROVE  /\ DrainInv' /\ Others(r) /\ req'[r].pc = "idle"
           /\ \A u \in Tenants : u # req[r].t => binding'[u] = binding[u]
<1> DEFINE t == req[r].t
           row == [binding[t] EXCEPT !.status = "enabled"]
<1>1. /\ DrainTypeOK /\ t \in Tenants /\ binding \in [Tenants -> Row]
      /\ revived \in SUBSET Tenants
      /\ \A u \in Tenants : binding[u].job # 0 => job[binding[u].job] # "none"
    BY Types
<1>2. /\ binding' = binding \/ binding' = [binding EXCEPT ![t] = row]
      /\ Return(r) /\ UNCHANGED <<setup, runtime, job, blocker, revived>>
    BY DEF KeepEnabled
<1>3. row \in Row /\ row.status = "enabled" /\ row.job = binding[t].job
    BY <1>1 DEF Row, RowStatus
<1>4. Others(r) /\ req'[r].pc = "idle" /\ req'[r].seen = {}
    BY <1>1, <1>2, Returns
<1>5. Known(req'[r], binding', job, revived') /\ Carries(r)
    BY <1>4, Unconcerned DEF RefreshPCs, RowPCs, Carries
<1>6. row.job # 0 => job[row.job] # "none"
    BY <1>1, <1>3
<1> HIDE DEF t, row
<1>7. row.status \notin DrainingRow
    BY <1>3 DEF DrainingRow
<1>8. /\ binding' \in [Tenants -> Row]
      /\ \A u \in Tenants : u # t => binding'[u] = binding[u]
      /\ \A u \in Tenants \ revived :
            binding'[u].status \in DrainingRow => binding'[u] = binding[u]
      /\ \A u \in Tenants : binding'[u].job # 0 => job[binding'[u].job] # "none"
    BY <1>1, <1>2, <1>3, <1>6, <1>7, Rewritten
<1>9. DrainInv'
    BY <1>1, <1>2, <1>4, <1>5, <1>8, RowsChange
<1> QED
    BY <1>4, <1>8, <1>9 DEF t

\* A row that goes, or is disabled, while no request moves.
LEMMA RowGoesKeeps ==
    ASSUME DrainInv, NEW r \in Requests, NEW t \in Tenants, DeleteInstance(r, t) \/ DisableByTenant(r, t)
    PROVE  /\ DrainInv' /\ Others(r) /\ req'[r].pc = "idle" /\ UNCHANGED <<setup, runtime>>
           /\ \A u \in Tenants : binding'[u].status = "enabled" => binding[u].status = "enabled"
<1> DEFINE row == IF DeleteInstance(r, t) THEN NoRow ELSE [binding[t] EXCEPT !.status = "disabled"]
<1>1. /\ DrainTypeOK /\ binding \in [Tenants -> Row] /\ revived \in SUBSET Tenants
      /\ \A u \in Tenants : binding[u].job # 0 => job[binding[u].job] # "none"
      /\ req \in [Requests -> Request]
    BY Types DEF DrainTypeOK
<1>2. /\ binding' = binding \/ binding' = [binding EXCEPT ![t] = row]
      /\ req[r].pc = "idle" /\ UNCHANGED <<setup, runtime, job, blocker, req, revived>>
    BY DEF DeleteInstance, DisableByTenant, May, At
<1>3. row \in Row /\ row.status \in {"absent", "disabled"} /\ (row.job # 0 => row.job = binding[t].job)
  <2>1. [binding[t] EXCEPT !.status = "disabled"] \in Row
        /\ [binding[t] EXCEPT !.status = "disabled"].job = binding[t].job
        /\ [binding[t] EXCEPT !.status = "disabled"].status = "disabled"
      BY <1>1 DEF Row, RowStatus
  <2> QED
      BY <2>1, NewRowType
<1>4. Others(r) /\ req'[r] = req[r]
    BY <1>1, <1>2 DEF Others
<1>5. Known(req'[r], binding', job, revived') /\ Carries(r)
    BY <1>2, <1>4, Unconcerned DEF RefreshPCs, RowPCs, Carries
<1>6. row.job # 0 => job[row.job] # "none"
    BY <1>1, <1>3
<1> HIDE DEF row
<1>7. row.status \notin DrainingRow /\ row.status # "enabled"
    BY <1>3 DEF DrainingRow
<1>8. /\ binding' \in [Tenants -> Row]
      /\ \A u \in Tenants : u # t => binding'[u] = binding[u]
      /\ binding'[t] = row \/ binding'[t] = binding[t]
      /\ \A u \in Tenants \ revived :
            binding'[u].status \in DrainingRow => binding'[u] = binding[u]
      /\ \A u \in Tenants : binding'[u].job # 0 => job[binding'[u].job] # "none"
    BY <1>1, <1>2, <1>3, <1>6, <1>7, Rewritten
<1> QED
    BY <1>1, <1>2, <1>4, <1>5, <1>7, <1>8, RowsChange

-----------------------------------------------------------------------------
(* Work.                                                                    *)

LEMMA ScheduleCheckKeeps ==
    ASSUME DrainInv, NEW r \in Requests, NEW t \in Tenants, ScheduleCheck(r, t)
    PROVE  DrainInv'
<1>1. /\ Others(r) /\ req'[r].pc = "create_blocker" /\ req'[r].seen = Created
      /\ CountDraining = {} /\ UNCHANGED <<setup, runtime, binding, job, blocker, revived>>
    BY Types, ScheduleCheckIs
<1>2. Looked(req'[r], binding', job', revived')
    BY <1>1, FoundNone DEF CountDraining
<1> QED
    BY <1>1, <1>2, Types, PlainKeeps DEF RefreshPCs, RowPCs

LEMMA ScheduleCreateKeeps ==
    ASSUME DrainInv, NEW r \in Requests, ScheduleCreate(r)
    PROVE  DrainInv' /\ Others(r) /\ req'[r].pc = "idle"
<1>1. Return(r) /\ UNCHANGED <<setup, runtime, binding, job, revived>> /\ DrainTypeOK
    BY Types DEF ScheduleCreate
<1>2. blocker' \in [Blockers -> {"absent", "live", "ended"}]
    BY <1>1 DEF ScheduleCreate, DrainTypeOK
<1>3. Others(r) /\ req'[r].pc = "idle" /\ req'[r].seen = {}
    BY <1>1, Returns
<1> QED
    BY <1>1, <1>2, <1>3, Types, PlainKeeps DEF RefreshPCs, RowPCs, Carries

LEMMA WorkKeeps ==
    ASSUME DrainInv, NEW b \in Blockers, EnqueueTask(b) \/ EndBlocker(b)
    PROVE  DrainInv' /\ UNCHANGED <<setup, runtime, binding, job, req, revived>>
<1>1. UNCHANGED <<setup, runtime, binding, job, req, revived>> /\ DrainTypeOK
    BY Types DEF EndBlocker, EnqueueTask
<1>2. blocker' \in [Blockers -> {"absent", "live", "ended"}]
    BY <1>1 DEF EndBlocker, EnqueueTask, DrainTypeOK
<1>3. DrainTypeOK'
    BY <1>1, <1>2 DEF DrainTypeOK
<1>4. Numbered(job') /\ Consistent(binding', job', revived')
      /\ \A r \in Requests : /\ Known(req'[r], binding', job', revived')
                             /\ Looked(req'[r], binding', job', revived')
  <2>1. Numbered(job) /\ Consistent(binding, job, revived)
        /\ \A r \in Requests : Known(req[r], binding, job, revived) /\ Looked(req[r], binding, job, revived)
      BY DEF DrainInv
  <2>2. job' = job /\ binding' = binding /\ req' = req /\ revived' = revived
      BY <1>1
  <2> QED
      BY <2>1, <2>2
<1> QED
    BY <1>1, <1>3, <1>4 DEF DrainInv

-----------------------------------------------------------------------------
(* Root's operations on the runtime.                                        *)

\* A step that completes the ready jobs and at most deletes rows.
LEMMA CompletingKeeps ==
    ASSUME DrainInv, NEW r \in Requests, Others(r), req'[r].pc \notin RefreshPCs \cup RowPCs,
           Carries(r), job' = MarkReadyJobsCompleted(job),
           UNCHANGED <<setup, runtime, blocker, revived>>,
           binding' \in [Tenants -> Row],
           \A t \in Tenants : binding'[t] = binding[t] \/ binding'[t] = NoRow
    PROVE  DrainInv'
<1>1. \A j \in JobIds : job'[j] = IF job[j] = "ready_to_uninstall" THEN "completed" ELSE job[j]
    BY DEF MarkReadyJobsCompleted
<1>2. DrainTypeOK /\ Consistent(binding, job, revived) /\ job \in [JobIds -> JobStatus]
      /\ "completed" \in JobStatus
    BY DEF DrainInv, DrainTypeOK, JobStatus
<1>3. job' \in [JobIds -> JobStatus]
    BY <1>2 DEF MarkReadyJobsCompleted
<1>4. \A j \in JobIds : /\ job'[j] = "none" <=> job[j] = "none"
                        /\ job[j] \in ActiveJob => job'[j] = job[j]
    BY <1>1 DEF ActiveJob
<1>5. NoRow.status \notin DrainingRow /\ NoRow.job = 0
    BY DEF NoRow, DrainingRow
<1>6. ASSUME NEW t \in Tenants
      PROVE  binding'[t].job # 0 => job[binding'[t].job] # "none"
    BY <1>2, <1>5 DEF Consistent
<1>7. ASSUME NEW t \in Tenants \ revived', binding'[t].status \in DrainingRow
      PROVE  binding'[t] = binding[t] /\ job'[binding[t].job] \in ActiveJob
  <2>1. binding'[t] = binding[t] /\ t \in Tenants \ revived
      BY <1>5, <1>7
  <2>2. binding[t].job \in JobIds /\ job[binding[t].job] \in ActiveJob
      BY <2>1, <1>2, <1>7, Types DEF Consistent
  <2> QED
      BY <2>1, <2>2, <1>4
<1>8. Known(req'[r], binding', job', revived')
    BY Unconcerned
<1>9. runtime' \in {"enabled", "disabled", "absent"} /\ setup' = setup
      /\ blocker' \in [Blockers -> {"absent", "live", "ended"}]
      /\ revived' \in SUBSET Tenants /\ revived \subseteq revived'
    BY Types
<1> QED
    BY <1>3, <1>4, <1>6, <1>7, <1>8, <1>9, Shrinks

LEMMA SystemEnableKeeps ==
    ASSUME DrainInv, NEW r \in Requests, NEW t \in Tenants, SystemEnable(r, t)
    PROVE  DrainInv' /\ Others(r) /\ req'[r].pc = "enable_runtime"
<1>1. DrainTypeOK /\ binding \in [Tenants -> Row] /\ "enable_runtime" \in PCs
    BY Types DEF PCs
<1>2. PICK to \in {"idle", "check_jobs", "complete_ready"} :
         BeginStart(r, "enable", "enable_runtime", t, to)
    BY DEF SystemEnable
<1>3. job' = MarkReadyJobsCompleted(job) /\ UNCHANGED <<setup, runtime, binding, blocker, revived>>
    BY DEF SystemEnable
<1>4. Others(r) /\ req'[r].pc = "enable_runtime" /\ req'[r].seen = {}
    BY <1>1, <1>2, Starts
<1> QED
    BY <1>1, <1>3, <1>4, CompletingKeeps DEF RefreshPCs, RowPCs, Carries

LEMMA CompleteReadyKeeps ==
    ASSUME DrainInv, NEW r \in Requests, CompleteReady(r)
    PROVE  DrainInv' /\ Others(r) /\ req'[r].pc = "check_jobs"
<1>1. DrainTypeOK /\ binding \in [Tenants -> Row] /\ "check_jobs" \in PCs
    BY Types DEF PCs
<1>2. req[r].pc = "complete_ready" /\ Goto(r, "check_jobs") /\ job' = MarkReadyJobsCompleted(job)
      /\ UNCHANGED <<setup, runtime, binding, blocker, revived>>
    BY DEF CompleteReady, At
<1>3. Others(r) /\ req'[r].pc = "check_jobs" /\ req'[r].seen = req[r].seen
    BY <1>1, <1>2, Goes
<1> QED
    BY <1>1, <1>2, <1>3, CompletingKeeps DEF RefreshPCs, RowPCs, StopPCs, Carries

LEMMA CompleteFinalUninstallKeeps ==
    ASSUME DrainInv, NEW r \in Requests, CompleteFinalUninstall(r)
    PROVE  /\ DrainInv' /\ Others(r) /\ req'[r].pc = "idle" /\ UNCHANGED <<setup, runtime>>
           /\ \A t \in Tenants : binding'[t].status = "enabled" => binding[t].status = "enabled"
<1>1. DrainTypeOK /\ binding \in [Tenants -> Row]
    BY Types
<1>2. Return(r) /\ job' = MarkReadyJobsCompleted(job) /\ binding' = DeleteDrained
      /\ UNCHANGED <<setup, runtime, blocker, revived>>
    BY DEF CompleteFinalUninstall
<1>3. Others(r) /\ req'[r].pc = "idle" /\ req'[r].seen = {}
    BY <1>1, <1>2, Returns
<1>4. binding' \in [Tenants -> Row] /\ \A t \in Tenants : binding'[t] = binding[t] \/ binding'[t] = NoRow
    BY <1>1, <1>2, NewRowType DEF DeleteDrained
<1>5. \A t \in Tenants : binding'[t].status = "enabled" => binding[t].status = "enabled"
    BY <1>4, NewRowType
<1> QED
    BY <1>2, <1>3, <1>4, <1>5, CompletingKeeps DEF RefreshPCs, RowPCs, Carries

\* The runtime's own credential.
LEMMA WriteCredentialKeeps ==
    ASSUME DrainInv, NEW r \in Requests, WriteCredential(r)
    PROVE  /\ DrainInv' /\ Others(r) /\ req'[r].pc \in {"register", "start"}
           /\ UNCHANGED <<setup, runtime>>
           /\ \A u \in Tenants \ {SystemTenant} : binding'[u] = binding[u]
<1>1. DrainTypeOK /\ revived \in SUBSET Tenants /\ SystemTenant \in Tenants
    BY Types, DrainAssumption
<1>2. /\ req[r].pc \in {"write_preflight", "write_credential"}
      /\ binding' = [binding EXCEPT ![SystemTenant] = NewRow]
      /\ Goto(r, "register") \/ Goto(r, "start")
      /\ UNCHANGED <<setup, runtime, job, blocker, revived>>
    BY DEF WriteCredential, At
<1>3. Others(r) /\ req'[r].pc \in {"register", "start"} /\ req'[r].seen = req[r].seen
    BY <1>1, <1>2, Goes DEF PCs
<1>4. Known(req'[r], binding', job, revived') /\ Carries(r)
    BY <1>2, <1>3, Unconcerned DEF RefreshPCs, RowPCs, Carries, StopPCs
<1>5. NewRow.status \notin DrainingRow
    BY NewRowType DEF DrainingRow
<1>6. /\ binding' \in [Tenants -> Row]
      /\ \A u \in Tenants : u # SystemTenant => binding'[u] = binding[u]
      /\ \A u \in Tenants \ revived :
            binding'[u].status \in DrainingRow => binding'[u] = binding[u]
      /\ \A u \in Tenants : binding'[u].job # 0 => job[binding'[u].job] # "none"
    BY <1>1, <1>2, <1>5, NewRowType, Rewritten
<1> QED
    BY <1>1, <1>2, <1>3, <1>4, <1>6, RowsChange

\* The steps that move the request and the runtime only.
RestPCs == {"idle", "register", "write_preflight", "write_credential", "start", "enable_runtime",
            "complete_ready", "check_jobs"}

LEMMA MovesKeeps ==
    ASSUME DrainInv, NEW r \in Requests, setup' = setup,
           runtime' \in {"enabled", "disabled", "absent"}, UNCHANGED <<binding, job, blocker, revived>>,
           req[r].pc \notin StopPCs, Return(r) \/ \E pc \in RestPCs : Goto(r, pc)
    PROVE  DrainInv' /\ Others(r) /\ req'[r].pc \in RestPCs
<1>1. DrainTypeOK /\ blocker' \in [Blockers -> {"absent", "live", "ended"}]
    BY Types
<1>2. /\ Others(r) /\ req'[r].pc \in RestPCs /\ req'[r].seen \subseteq req[r].seen
  <2>1. CASE Return(r)
      BY <2>1, <1>1, Returns DEF RestPCs
  <2>2. CASE \E pc \in RestPCs : Goto(r, pc)
    <3>1. PICK pc \in RestPCs : Goto(r, pc)
        BY <2>2
    <3>2. pc \in PCs
        BY DEF RestPCs, PCs
    <3> QED
        BY <3>1, <3>2, <1>1, Goes
  <2> QED
      BY <2>1, <2>2
<1>3. req'[r].pc \notin RefreshPCs \cup RowPCs /\ Carries(r)
    BY <1>2 DEF RestPCs, RefreshPCs, RowPCs, Carries
<1> QED
    BY <1>1, <1>2, <1>3, PlainKeeps

LEMMA StartMoves ==
    ASSUME DrainInv, NEW r \in Requests, ReadCredential(r) \/ Register(r) \/ StartRuntime(r)
    PROVE  /\ DrainInv' /\ Others(r) /\ req'[r].pc \in RestPCs /\ UNCHANGED <<setup, binding>>
           /\ runtime' = "absent" => runtime = "absent"
           /\ req'[r].pc \in {"complete_ready", "check_jobs"} => runtime' # "absent"
<1>1. setup' = setup /\ UNCHANGED <<binding, job, blocker, revived>>
      /\ req[r].pc \in {"preflight", "enable_runtime", "register", "start"}
    BY DEF ReadCredential, Register, StartRuntime, At
<1>2. runtime' \in {"enabled", "disabled", "absent"}
    BY Types DEF ReadCredential, Register, StartRuntime
<1>3. req[r].to \in {"idle", "check_jobs", "complete_ready"}
    BY Types DEF Request
<1>4. Return(r) \/ \E pc \in RestPCs : Goto(r, pc)
  <2>1. CASE ReadCredential(r)
      BY <2>1 DEF ReadCredential, RestPCs
  <2>2. CASE Register(r)
      BY <2>2 DEF Register, RestPCs
  <2>3. CASE StartRuntime(r)
      BY <2>3, <1>3 DEF StartRuntime, RestPCs
  <2> QED
      BY <2>1, <2>2, <2>3
<1>5. req[r].pc \notin StopPCs
    BY <1>1 DEF StopPCs
<1>6. DrainInv' /\ Others(r) /\ req'[r].pc \in RestPCs
    BY <1>1, <1>2, <1>4, <1>5, MovesKeeps
<1>7. /\ runtime' = "absent" => runtime = "absent"
      /\ req'[r].pc \in {"complete_ready", "check_jobs"} => runtime' # "absent"
  <2>1. CASE ReadCredential(r)
    <3>1. PICK pc \in {"write_preflight", "register", "write_credential", "start"} : Goto(r, pc)
        BY <2>1 DEF ReadCredential
    <3>2. req'[r].pc = pc
        BY <3>1, Types, Goes DEF PCs
    <3> QED
        BY <2>1, <3>2 DEF ReadCredential
  <2>2. CASE Register(r) \/ StartRuntime(r)
      BY <2>2 DEF Register, StartRuntime
  <2> QED
      BY <2>1, <2>2
<1> QED
    BY <1>1, <1>6, <1>7

\* When the list is long enough it shows every drain job there is.
LEMMA ListedAll ==
    ASSUME MaxJobs <= ListLimit PROVE ListDrainJobs = Created
<1> SUFFICES ASSUME NEW j \in Created PROVE Cardinality({k \in Created : k > j}) < ListLimit
    BY DEF ListDrainJobs
<1> DEFINE later == {k \in Created : k > j}
<1>1. j \in 1..MaxJobs /\ MaxJobs \in Nat /\ ListLimit \in Nat
    BY DrainAssumption DEF Created, JobIds
<1>2. later \subseteq (j+1)..MaxJobs
    BY <1>1 DEF Created, JobIds
<1>3. IsFiniteSet((j+1)..MaxJobs) /\ Cardinality((j+1)..MaxJobs) <= MaxJobs - j
  <2> DEFINE a == j + 1
  <2>1. a \in Int /\ MaxJobs \in Int /\ a = j + 1 /\ a <= MaxJobs + 1
      BY <1>1
  <2> HIDE DEF a
  <2>2. IsFiniteSet(a..MaxJobs)
        /\ Cardinality(a..MaxJobs) = IF a > MaxJobs THEN 0 ELSE MaxJobs - a + 1
      BY <2>1, FS_Interval
  <2>3. Cardinality(a..MaxJobs) <= MaxJobs - j
      BY <1>1, <2>1, <2>2
  <2> QED
      BY <2>1, <2>2, <2>3
<1>4. Cardinality(later) <= Cardinality((j+1)..MaxJobs) /\ Cardinality(later) \in Nat
      /\ Cardinality((j+1)..MaxJobs) \in Nat
    BY <1>2, <1>3, FS_Subset, FS_CardinalityType
<1> HIDE DEF later
<1>5. Cardinality(later) < ListLimit
    BY <1>1, <1>3, <1>4
<1> QED
    BY <1>5 DEF later

LEMMA CheckJobsKeeps ==
    ASSUME DrainInv, NEW r \in Requests, CheckJobs(r)
    PROVE  DrainInv' /\ Others(r) /\ req'[r].pc \in {"stop", "count_again", "idle"}
<1>1. DrainTypeOK /\ {"stop", "count_again"} \subseteq PCs
      /\ UNCHANGED <<setup, runtime, binding, job, blocker, revived>>
      /\ runtime' \in {"enabled", "disabled", "absent"}
      /\ blocker' \in [Blockers -> {"absent", "live", "ended"}]
    BY Types DEF CheckJobs, PCs
<1>2. ASSUME NEW pc \in {"stop", "count_again"}, Pass(r, pc), NoneActive
      PROVE  DrainInv' /\ Others(r) /\ req'[r].pc = pc
  <2>1. Others(r) /\ req'[r].pc = pc /\ req'[r].seen = Created
      BY <1>1, <1>2, Passes
  <2>2. MaxJobs <= ListLimit => \A t \in Tenants \ revived : binding[t].status \notin DrainingRow
    <3> SUFFICES ASSUME MaxJobs <= ListLimit
                 PROVE  \A t \in Tenants \ revived : binding[t].status \notin DrainingRow
        OBVIOUS
    <3>1. \A j \in Created : job[j] \notin ActiveJob
        BY <1>2, ListedAll DEF NoneActive
    <3>2. \A j \in JobIds : job[j] \notin ActiveJob
        BY <3>1 DEF Created, ActiveJob
    <3> QED
        BY <3>2, NobodyDrains
  <2>3. req'[r].pc \in StopPCs
      BY <2>1 DEF StopPCs
  <2>4. Looked(req'[r], binding', job', revived')
      BY <2>1, <2>2, <2>3, <1>1, FoundNone
  <2>5. req'[r].pc \notin RefreshPCs \cup RowPCs
      BY <2>1 DEF RefreshPCs, RowPCs
  <2> QED
      BY <2>1, <2>4, <2>5, <1>1, PlainKeeps
<1>3. CASE Return(r)
  <2>1. Others(r) /\ req'[r].pc = "idle" /\ req'[r].seen = {}
      BY <1>1, <1>3, Returns
  <2> QED
      BY <2>1, <1>1, PlainKeeps DEF RefreshPCs, RowPCs, Carries
<1> QED
    BY <1>2, <1>3 DEF CheckJobs

\* Once a request has looked it goes on to stop or to remove the plugin.
LEMMA StopMoves ==
    ASSUME DrainInv, NEW r \in Requests, StopRuntime(r) \/ CountAgain(r) \/ RemoveFromRegistry(r)
    PROVE  DrainInv' /\ Others(r) /\ req'[r].pc \in {"idle", "remove", "complete_uninstall"}
<1>1. setup' = setup /\ UNCHANGED <<binding, job, blocker, revived>> /\ DrainTypeOK
    BY Types DEF StopRuntime, CountAgain, RemoveFromRegistry
<1>2. runtime' \in {"enabled", "disabled", "absent"}
      /\ blocker' \in [Blockers -> {"absent", "live", "ended"}]
    BY <1>1, Types DEF StopRuntime, CountAgain, RemoveFromRegistry
<1>3. Return(r) \/ \E pc \in {"remove", "complete_uninstall"} : Goto(r, pc)
    BY DEF StopRuntime, CountAgain, RemoveFromRegistry
<1>4. CASE Return(r)
  <2>1. Others(r) /\ req'[r].pc = "idle" /\ req'[r].seen = {}
      BY <1>1, <1>4, Returns
  <2> QED
      BY <2>1, <1>1, <1>2, PlainKeeps DEF RefreshPCs, RowPCs, Carries
<1>5. CASE \E pc \in {"remove", "complete_uninstall"} : Goto(r, pc)
  <2>1. PICK pc \in {"remove", "complete_uninstall"} : Goto(r, pc)
      BY <1>5
  <2>2. Others(r) /\ req'[r].pc = pc /\ req'[r].seen = req[r].seen
      BY <2>1, <1>1, Goes DEF PCs
  <2>3. Carries(r) /\ req'[r].pc \notin RefreshPCs \cup RowPCs
      BY <2>2 DEF Carries, StopPCs, RefreshPCs, RowPCs
  <2> QED
      BY <2>2, <2>3, <1>1, <1>2, PlainKeeps
<1> QED
    BY <1>3, <1>4, <1>5

LEMMA AbandonKeeps ==
    ASSUME DrainInv, NEW r \in Requests, Abandon(r)
    PROVE  DrainInv' /\ Others(r) /\ req'[r].pc = "idle"
<1>1. Return(r) /\ UNCHANGED <<setup, runtime, binding, job, blocker, revived>> /\ DrainTypeOK
    BY Types DEF Abandon
<1>2. Others(r) /\ req'[r].pc = "idle" /\ req'[r].seen = {}
    BY <1>1, Returns
<1> QED
    BY <1>1, <1>2, Types, PlainKeeps DEF RefreshPCs, RowPCs, Carries

\* A request that begins with a step of its own and has seen nothing yet.
BeginPCs == {"check_jobs", "enable_runtime", "preflight", "disable_jobs", "uninstall_jobs"}

LEMMA AcceptedMoves ==
    ASSUME DrainInv, NEW r \in Requests, NEW t \in Tenants,
           \/ Subscribe(r, t) \/ Restart(r, t) \/ Boot(r, t) \/ Install(r, t)
           \/ SystemDisable(r, t) \/ Uninstall(r, t)
    PROVE  /\ DrainInv' /\ Others(r) /\ req'[r].pc \in BeginPCs
           /\ UNCHANGED <<setup, binding>> /\ (runtime' = "absent" => runtime = "absent")
           /\ req'[r].pc = "check_jobs" => runtime' = "enabled"
<1>1. DrainTypeOK /\ UNCHANGED <<setup, binding, job, blocker, revived>>
    BY Types DEF Subscribe, Restart, Boot, Install, SystemDisable, Uninstall, RequireNoActive
<1>2. /\ runtime' \in {"enabled", "disabled", "absent"}
      /\ blocker' \in [Blockers -> {"absent", "live", "ended"}]
      /\ runtime' = "absent" => runtime = "absent"
    BY <1>1, Types DEF Subscribe, Restart, Boot, Install, SystemDisable, Uninstall, RequireNoActive
<1>3. Others(r) /\ req'[r].pc \in BeginPCs /\ req'[r].seen = {}
      /\ (req'[r].pc = "check_jobs" => runtime' = "enabled")
  <2>1. CASE Subscribe(r, t)
    <3>1. Begin(r, "subscribe", "check_jobs", t, 0) /\ runtime' = "enabled"
        BY <2>1 DEF Subscribe
    <3>2. "check_jobs" \in PCs /\ 0 \in {0} \cup JobIds
        BY DEF PCs
    <3> QED
        BY <3>1, <3>2, <1>1, Begins DEF BeginPCs
  <2>2. CASE SystemDisable(r, t) \/ Uninstall(r, t)
    <3>1. \/ Begin(r, "disable", "disable_jobs", t, 0)
          \/ Begin(r, "uninstall", "uninstall_jobs", t, 0)
        BY <2>2 DEF SystemDisable, Uninstall, RequireNoActive
    <3>2. {"disable_jobs", "uninstall_jobs"} \subseteq PCs /\ 0 \in {0} \cup JobIds
        BY DEF PCs
    <3>3. Others(r) /\ req'[r].pc \in {"disable_jobs", "uninstall_jobs"} /\ req'[r].seen = {}
        BY <3>1, <3>2, <1>1, Begins
    <3> QED
        BY <3>3 DEF BeginPCs
  <2>3. CASE Restart(r, t) \/ Boot(r, t) \/ Install(r, t)
    <3>1. PICK op \in {"restart", "boot", "install"}, pc \in {"enable_runtime", "preflight"},
               to \in {"idle", "check_jobs", "complete_ready"} : BeginStart(r, op, pc, t, to)
        BY <2>3 DEF Restart, Boot, Install
    <3>2. pc \in PCs
        BY DEF PCs
    <3>3. Others(r) /\ req'[r].pc = pc /\ req'[r].seen = {}
        BY <3>1, <3>2, <1>1, Starts
    <3> QED
        BY <3>3 DEF BeginPCs
  <2> QED
      BY <2>1, <2>2, <2>3
<1>4. req'[r].pc \notin RefreshPCs \cup RowPCs /\ Carries(r)
    BY <1>3 DEF BeginPCs, RefreshPCs, RowPCs, Carries
<1> QED
    BY <1>1, <1>2, <1>3, <1>4, PlainKeeps

-----------------------------------------------------------------------------
(* The first half together.                                                 *)

\* A request is accepted, or done at once.
Accepted(r, t) ==
    \/ Subscribe(r, t) \/ Unsubscribe(r, t) \/ Rotate(r, t) \/ DeleteInstance(r, t)
    \/ DisableByTenant(r, t) \/ SystemEnable(r, t) \/ Install(r, t)
    \/ t = Idle.t /\ \/ Drain(r, t) \/ ScheduleCheck(r, t) \/ SystemDisable(r, t)
                     \/ Restart(r, t) \/ Boot(r, t) \/ Uninstall(r, t)
                     \/ \E j \in JobIds : Refresh(r, t, j)

\* What a request does once it is accepted.
Continued(r) ==
    \/ RefreshStep(r) \/ EnableStep(r) \/ WriteRow(r) \/ RotateStep(r) \/ ScheduleCreate(r)
    \/ StartStep(r) \/ RuntimeStep(r) \/ Abandon(r)

LEMMA NextIs ==
    Next <=> \/ \E r \in Requests : Continued(r) \/ \E t \in Tenants : Accepted(r, t)
             \/ \E b \in Blockers : EnqueueTask(b) \/ EndBlocker(b)
BY DEF Next, Continued, Accepted

LEMMA DrainKeeps ==
    ASSUME DrainInv, NEW r \in Requests, NEW t \in Tenants, Drain(r, t)
    PROVE  /\ DrainInv' /\ Others(r) /\ req'[r].pc = "read_job" /\ UNCHANGED <<setup, runtime>>
           /\ \A u \in Tenants : binding'[u].status # "enabled"
<1>1. PICK status \in ActiveJob, mark \in DrainingRow : CreateDrainJob(r, t, status, mark)
    BY DEF Drain, ActiveJob, DrainingRow
<1> QED
    BY <1>1, CreateKeeps DEF CreateDrainJob

LEMMA AcceptedKeeps ==
    ASSUME DrainInv, NEW r \in Requests, NEW t \in Tenants, Accepted(r, t)
    PROVE  DrainInv'
<1>1. CASE \E j \in JobIds : Refresh(r, t, j)
    BY <1>1, RefreshKeeps
<1>2. CASE \/ Subscribe(r, t) \/ Restart(r, t) \/ Boot(r, t) \/ Install(r, t)
           \/ SystemDisable(r, t) \/ Uninstall(r, t)
    BY <1>2, AcceptedMoves
<1>3. CASE Unsubscribe(r, t) \/ Rotate(r, t) \/ DeleteInstance(r, t) \/ DisableByTenant(r, t)
    BY <1>3, UnsubscribeKeeps, RotateKeeps, RowGoesKeeps
<1>4. CASE Drain(r, t) \/ ScheduleCheck(r, t) \/ SystemEnable(r, t)
    BY <1>4, DrainKeeps, ScheduleCheckKeeps, SystemEnableKeeps
<1> QED
    BY <1>1, <1>2, <1>3, <1>4 DEF Accepted

LEMMA ContinuedKeeps ==
    ASSUME DrainInv, NEW r \in Requests, Continued(r)
    PROVE  DrainInv'
<1>1. CASE RefreshStep(r)
    BY <1>1, ReadJobKeeps, CountBlockersKeeps, MarkDrainedKeeps, CountActiveKeeps, SaveJobKeeps
    DEF RefreshStep
<1>2. CASE EnableStep(r)
    BY <1>2, EnsurePluginAcceptsNewUsageKeeps, EnsureCredentialsKeeps, UpsertEnabledKeeps
    DEF EnableStep
<1>3. CASE RotateStep(r)
    BY <1>3, RotateReadKeeps, RotateWriteKeeps, KeepEnabledKeeps DEF RotateStep
<1>4. CASE StartStep(r)
    BY <1>4, StartMoves, WriteCredentialKeeps, CompleteReadyKeeps DEF StartStep
<1>5. CASE RuntimeStep(r)
    BY <1>5, CheckJobsKeeps, StopMoves, CompleteFinalUninstallKeeps DEF RuntimeStep
<1>6. CASE WriteRow(r) \/ ScheduleCreate(r) \/ Abandon(r)
    BY <1>6, WriteRowKeeps, ScheduleCreateKeeps, AbandonKeeps
<1> QED
    BY <1>1, <1>2, <1>3, <1>4, <1>5, <1>6 DEF Continued

LEMMA DrainInvInit == Init => DrainInv
<1> SUFFICES ASSUME Init PROVE DrainInv
    OBVIOUS
<1>1. Idle \in Request /\ Idle.pc = "idle" /\ Idle.seen = {} /\ SystemTenant \in Tenants
    BY IdleType, DrainAssumption
<1>2. DrainTypeOK
  <2>1. req \in [Requests -> Request]
    <3> HIDE DEF Idle, Request
    <3> QED
        BY <1>1 DEF Init
  <2>2. job \in [JobIds -> JobStatus] /\ binding \in [Tenants -> Row]
      BY NewRowType DEF Init, JobStatus
  <2> QED
      BY <2>1, <2>2 DEF Init, DrainTypeOK
<1>3. Numbered(job)
  <2>1. 0 \in 0..MaxJobs /\ \A k \in JobIds : job[k] # "none" <=> k <= 0
      BY DrainAssumption DEF Init, JobIds
  <2> QED
      BY <2>1 DEF Numbered
<1>4. \A t \in Tenants : binding[t].status \notin DrainingRow /\ binding[t].job = 0
    BY NewRowType DEF Init, DrainingRow
<1>5. Consistent(binding, job, revived)
    BY <1>4 DEF Consistent
<1>6. ASSUME NEW r \in Requests
      PROVE  Known(req[r], binding, job, revived) /\ Looked(req[r], binding, job, revived)
  <2>1. req[r].pc = "idle" /\ req[r].seen = {}
    <3> HIDE DEF Idle
    <3> QED
        BY <1>1 DEF Init
  <2> QED
      BY <2>1, Unconcerned DEF RefreshPCs, RowPCs, Looked
<1> QED
    BY <1>2, <1>3, <1>5, <1>6 DEF DrainInv

LEMMA DrainInvNext == DrainInv /\ [Next]_vars => DrainInv'
<1> SUFFICES ASSUME DrainInv, [Next]_vars PROVE DrainInv'
    OBVIOUS
<1>1. CASE Next
    BY <1>1, NextIs, AcceptedKeeps, ContinuedKeeps, WorkKeeps
<1>2. CASE UNCHANGED vars
  <2>1. UNCHANGED <<setup, runtime, binding, job, blocker, req, revived>>
      BY <1>2 DEF vars
  <2>2. DrainTypeOK'
      BY <2>1 DEF DrainInv, DrainTypeOK
  <2>3. Numbered(job) /\ Consistent(binding, job, revived)
        /\ \A q \in Requests : Known(req[q], binding, job, revived) /\ Looked(req[q], binding, job, revived)
      BY DEF DrainInv
  <2>4. Numbered(job') /\ Consistent(binding', job', revived')
        /\ \A q \in Requests : /\ Known(req'[q], binding', job', revived')
                               /\ Looked(req'[q], binding', job', revived')
      BY <2>1, <2>3
  <2> QED
      BY <2>2, <2>4 DEF DrainInv
<1> QED
    BY <1>1, <1>2

LEMMA DrainInvariance == Spec => []DrainInv
BY DrainInvInit, DrainInvNext, PTL DEF Spec

\* The values a deployment, its rows, jobs, work and requests can have.
THEOREM DrainTypeCorrect == Spec => []DrainTypeOK
<1>1. DrainInv => DrainTypeOK
    BY DEF DrainInv
<1> QED
    BY <1>1, DrainInvariance, PTL

\* RefreshDrainJobProgress, CreateDrainJob, Disable: however requests
\* interleave and wherever they stop, a tenant that drains does it under a job
\* that a refresh still moves on, unless RotateSecret has put its row back
\* into that state.
THEOREM NoneStranded == Spec => []DrainingHasActiveJob
<1>1. DrainInv => DrainingHasActiveJob
    BY DEF DrainInv, Consistent, DrainingHasActiveJob, CountDraining
<1> QED
    BY <1>1, DrainInvariance, PTL

\* What a request has seen of the drain jobs, under which nobody drains.
LEMMA SeenIsClear ==
    ASSUME DrainInv, NEW r \in Requests, MaxJobs <= ListLimit \/ req[r].pc \notin StopPCs
    PROVE  DrainBeganAfterCheck(r)
<1>1. \A k \in req[r].seen : Clear(k, binding, revived)
    BY DEF DrainInv, Looked
<1> QED
    BY <1>1 DEF DrainBeganAfterCheck, CountDraining, Clear

\* EnsurePluginAcceptsNewUsage and CountDraining of the scheduler: a drain that
\* was under way closes the plugin to whoever asks then.
THEOREM AdmissionPredatesDrain == Spec => []AdmittedBeforeDrain
<1>1. DrainInv => AdmittedBeforeDrain
    BY SeenIsClear DEF AdmittedBeforeDrain, StopPCs
<1> QED
    BY <1>1, DrainInvariance, PTL

\* requireNoActiveTenantInstancesForOperation: as long as the list it reads
\* holds every drain job, no stop and no removal overrides a drain under way.
THEOREM StopPredatesDrain == Spec => []StoppedBeforeDrain
<1>1. DrainInv => StoppedBeforeDrain
    BY SeenIsClear DEF StoppedBeforeDrain
<1> QED
    BY <1>1, DrainInvariance, PTL

-----------------------------------------------------------------------------
(* The second half: one request at a time.                                  *)

\* Nobody but the system tenant uses the plugin.
Unused(rows) == \A t \in Tenants \ {SystemTenant} : rows[t].status # "enabled"

\* What a request has seen and still holds while nobody else moves.
Sound(m, state, rows) ==
    /\ m.pc \in {"complete_ready", "check_jobs", "check_rows", "credentials", "upsert"} =>
         state # "absent"
    /\ m.pc = "remove" => Unused(rows)
    /\ state = "absent" =>
         /\ m.pc \in {"rotate_read", "rotate_write"} /\ m.used => m.t = SystemTenant
         /\ m.pc = "rotate_write" /\ m.row.status = "enabled" => m.t = SystemTenant
         /\ m.pc = "keep_enabled" => m.t = SystemTenant

\* Every request but r rests.
Turn(r) == \A q \in Requests : q # r => req[q].pc = "idle"

\* The inductive invariant of the second half, next to DrainInv.
SerialInv ==
    setup.parallel = 1 =>
        /\ runtime = "absent" => Unused(binding)
        /\ \A q, r \in Requests : ~At(q, "idle") /\ ~At(r, "idle") => q = r
        /\ \A r \in Requests : Sound(req[r], runtime, binding)

\* What a step of the request r has to show.
Lawful(r) ==
    /\ Others(r)
    /\ Sound(req'[r], runtime', binding')
    /\ runtime' = "absent" => Unused(binding')

\* The places at which a request holds nothing.
HoldPCs == {"complete_ready", "check_jobs", "check_rows", "credentials", "upsert", "remove",
            "rotate_read", "rotate_write", "keep_enabled"}

LEMMA Indifferent ==
    ASSUME NEW m, NEW state, NEW rows, m.pc \notin HoldPCs
    PROVE  Sound(m, state, rows)
BY DEF Sound, HoldPCs

LEMMA LawfulKeeps ==
    ASSUME SerialInv, NEW r \in Requests, setup.parallel = 1 => Turn(r) /\ Lawful(r),
           setup' = setup
    PROVE  SerialInv'
<1> SUFFICES ASSUME setup.parallel = 1
             PROVE  /\ runtime' = "absent" => Unused(binding')
                    /\ \A q, s \in Requests : req'[q].pc # "idle" /\ req'[s].pc # "idle" => q = s
                    /\ \A q \in Requests : Sound(req'[q], runtime', binding')
    BY DEF SerialInv, At
<1>1. \A q \in Requests : q # r => req'[q].pc = "idle"
    BY DEF Turn, Lawful, Others
<1>2. \A q \in Requests : Sound(req'[q], runtime', binding')
    BY <1>1, Indifferent DEF Lawful, HoldPCs
<1> QED
    BY <1>1, <1>2 DEF Lawful

\* Steps that hold nothing, do not remove the plugin and enable no row that was not.
LEMMA LawfulRest ==
    ASSUME NEW r \in Requests, Others(r), req'[r].pc \notin HoldPCs,
           runtime = "absent" => Unused(binding), runtime' = "absent" => runtime = "absent",
           \A t \in Tenants \ {SystemTenant} :
               binding'[t].status = "enabled" => binding[t].status = "enabled"
    PROVE  Lawful(r)
<1>1. Sound(req'[r], runtime', binding')
    BY Indifferent
<1> QED
    BY <1>1 DEF Lawful, Unused

\* May: with one place there is room for a request only when all the others rest.
LEMMA MayTurns ==
    ASSUME NEW r \in Requests, NEW op, setup.parallel = 1, May(r, op)
    PROVE  Turn(r)
<1> DEFINE S == {q \in Requests : ~At(q, "idle")}
<1>1. IsFiniteSet(S)
    BY DrainAssumption, FS_Subset
<1>2. Cardinality(S) \in Nat /\ Cardinality(S) < 1
    BY <1>1, FS_CardinalityType DEF May
<1>3. S = {}
    BY <1>1, <1>2, FS_EmptySet
<1> QED
    BY <1>3 DEF Turn, At

LEMMA ContinuedTurns ==
    ASSUME SerialInv, NEW r \in Requests, Continued(r)
    PROVE  (setup.parallel = 1 => Turn(r)) /\ setup' = setup
<1>1. ~At(r, "idle") /\ setup' = setup
  <2>1. CASE RefreshStep(r)
      BY <2>1 DEF RefreshStep, ReadJob, CountBlockers, MarkDrained, CountActive, SaveJob, At
  <2>2. CASE EnableStep(r) \/ WriteRow(r)
      BY <2>2 DEF EnableStep, EnsurePluginAcceptsNewUsage, EnsureCredentials, UpsertEnabled, WriteRow, At
  <2>3. CASE RotateStep(r) \/ ScheduleCreate(r)
      BY <2>3 DEF RotateStep, RotateRead, RotateWrite, KeepEnabled, ScheduleCreate, At
  <2>4. CASE StartStep(r)
      BY <2>4 DEF StartStep, ReadCredential, WriteCredential, Register, StartRuntime, CompleteReady, At
  <2>5. CASE RuntimeStep(r) \/ Abandon(r)
      BY <2>5 DEF RuntimeStep, CheckJobs, StopRuntime, CountAgain, RemoveFromRegistry,
                  CompleteFinalUninstall, Abandon, At
  <2> QED
      BY <2>1, <2>2, <2>3, <2>4, <2>5 DEF Continued
<1> QED
    BY <1>1 DEF SerialInv, Turn, At

LEMMA AcceptedTurns ==
    ASSUME NEW r \in Requests, NEW t \in Tenants, Accepted(r, t)
    PROVE  (setup.parallel = 1 => Turn(r)) /\ setup' = setup
<1>1. (\E op \in AllOps : May(r, op)) /\ setup' = setup
  <2>1. CASE Subscribe(r, t) \/ Unsubscribe(r, t) \/ Rotate(r, t)
      BY <2>1 DEF Subscribe, Begin, Unsubscribe, Rotate, AllOps
  <2>2. CASE DeleteInstance(r, t) \/ DisableByTenant(r, t)
      BY <2>2 DEF DeleteInstance, DisableByTenant, AllOps
  <2>3. CASE SystemEnable(r, t) \/ Install(r, t) \/ Restart(r, t) \/ Boot(r, t)
      BY <2>3 DEF SystemEnable, Install, Restart, Boot, BeginStart, AllOps
  <2>4. CASE Drain(r, t)
      BY <2>4 DEF Drain, CreateDrainJob, Begin, AllOps
  <2>5. CASE ScheduleCheck(r, t) \/ SystemDisable(r, t) \/ Uninstall(r, t)
      BY <2>5 DEF ScheduleCheck, SystemDisable, Uninstall, RequireNoActive, Begin, AllOps
  <2>6. CASE \E j \in JobIds : Refresh(r, t, j)
      BY <2>6 DEF Refresh, Begin, AllOps
  <2> QED
      BY <2>1, <2>2, <2>3, <2>4, <2>5, <2>6 DEF Accepted
<1> QED
    BY <1>1, MayTurns

LEMMA RefreshLawful ==
    ASSUME DrainInv, NEW r \in Requests, RefreshStep(r), runtime = "absent" => Unused(binding)
    PROVE  Lawful(r)
<1>1. runtime' = runtime
    BY DEF RefreshStep, ReadJob, CountBlockers, MarkDrained, CountActive, SaveJob
<1>2. \A t \in Tenants : binding'[t].status = "enabled" => binding[t].status = "enabled"
  <2>1. CASE MarkDrained(r)
      BY <2>1, MarkDrainedKeeps
  <2>2. CASE ReadJob(r) \/ CountBlockers(r) \/ CountActive(r) \/ SaveJob(r)
      BY <2>2 DEF ReadJob, CountBlockers, CountActive, SaveJob
  <2> QED
      BY <2>1, <2>2 DEF RefreshStep
<1>3. Others(r) /\ req'[r].pc \notin HoldPCs
    BY ReadJobKeeps, CountBlockersKeeps, MarkDrainedKeeps, CountActiveKeeps, SaveJobKeeps
    DEF RefreshStep, HoldPCs
<1> QED
    BY <1>1, <1>2, <1>3, LawfulRest

LEMMA EnableLawful ==
    ASSUME DrainInv, NEW r \in Requests, EnableStep(r), Sound(req[r], runtime, binding)
    PROVE  Lawful(r)
<1>1. /\ req[r].pc \in {"check_jobs", "check_rows", "credentials", "upsert"}
      /\ runtime' = runtime
    BY DEF EnableStep, EnsurePluginAcceptsNewUsage, EnsureCredentials, UpsertEnabled, At
<1>2. runtime' # "absent"
    BY <1>1 DEF Sound
<1>3. Others(r) /\ req'[r].pc \in {"check_rows", "credentials", "upsert", "idle"}
    BY EnsurePluginAcceptsNewUsageKeeps, EnsureCredentialsKeeps, UpsertEnabledKeeps DEF EnableStep
<1> QED
    BY <1>2, <1>3 DEF Lawful, Sound

LEMMA RotateLawful ==
    ASSUME DrainInv, NEW r \in Requests, RotateStep(r),
           runtime = "absent" => Unused(binding), Sound(req[r], runtime, binding)
    PROVE  Lawful(r)
<1>1. req[r].t \in Tenants
    BY Types
<1>2. CASE RotateRead(r)
  <2>1. /\ UNCHANGED <<runtime, binding>> /\ req[r].pc = "rotate_read"
        /\ Others(r) /\ req'[r].pc \in {"idle", "rotate_write"}
        /\ req'[r].pc = "rotate_write" =>
             /\ req'[r].t = req[r].t /\ req'[r].used = req[r].used
             /\ req'[r].row = binding[req[r].t]
      BY <1>2, RotateReadKeeps DEF RotateRead, At
  <2>2. Sound(req'[r], runtime', binding')
      BY <2>1, <1>1 DEF Sound, Unused
  <2> QED
      BY <2>1, <2>2 DEF Lawful
<1>3. CASE RotateWrite(r)
  <2>1. /\ runtime' = runtime /\ req[r].pc = "rotate_write"
        /\ Others(r) /\ req'[r].pc \in {"idle", "keep_enabled"}
        /\ req'[r].pc = "keep_enabled" => req'[r].t = req[r].t /\ req[r].used
        /\ \A u \in Tenants : u # req[r].t => binding'[u] = binding[u]
        /\ binding'[req[r].t] = req[r].row
      BY <1>3, RotateWriteKeeps DEF RotateWrite, At
  <2>2. Sound(req'[r], runtime', binding')
      BY <2>1 DEF Sound
  <2>3. runtime' = "absent" => Unused(binding')
      BY <2>1 DEF Sound, Unused
  <2> QED
      BY <2>1, <2>2, <2>3 DEF Lawful
<1>4. CASE KeepEnabled(r)
  <2>1. /\ runtime' = runtime /\ req[r].pc = "keep_enabled"
        /\ Others(r) /\ req'[r].pc = "idle"
        /\ \A u \in Tenants : u # req[r].t => binding'[u] = binding[u]
      BY <1>4, KeepEnabledKeeps DEF KeepEnabled, At
  <2>2. Sound(req'[r], runtime', binding')
      BY <2>1 DEF Sound
  <2>3. runtime' = "absent" => Unused(binding')
      BY <2>1 DEF Sound, Unused
  <2> QED
      BY <2>1, <2>2, <2>3 DEF Lawful
<1> QED
    BY <1>2, <1>3, <1>4 DEF RotateStep

LEMMA StartLawful ==
    ASSUME DrainInv, NEW r \in Requests, StartStep(r),
           runtime = "absent" => Unused(binding), Sound(req[r], runtime, binding)
    PROVE  Lawful(r)
<1>1. CASE ReadCredential(r) \/ Register(r) \/ StartRuntime(r)
  <2>1. /\ Others(r) /\ req'[r].pc \in RestPCs /\ binding' = binding
        /\ runtime' = "absent" => runtime = "absent"
        /\ req'[r].pc \in {"complete_ready", "check_jobs"} => runtime' # "absent"
      BY <1>1, StartMoves
  <2>2. Sound(req'[r], runtime', binding')
      BY <2>1 DEF Sound, RestPCs
  <2> QED
      BY <2>1, <2>2 DEF Lawful
<1>2. CASE WriteCredential(r)
  <2>1. /\ Others(r) /\ req'[r].pc \notin HoldPCs /\ runtime' = runtime
        /\ \A u \in Tenants \ {SystemTenant} : binding'[u] = binding[u]
      BY <1>2, WriteCredentialKeeps DEF HoldPCs
  <2> QED
      BY <2>1, LawfulRest
<1>3. CASE CompleteReady(r)
  <2>1. Others(r) /\ req'[r].pc = "check_jobs" /\ UNCHANGED <<runtime, binding>>
        /\ req[r].pc = "complete_ready"
      BY <1>3, CompleteReadyKeeps DEF CompleteReady, At
  <2>2. Sound(req'[r], runtime', binding')
      BY <2>1 DEF Sound
  <2> QED
      BY <2>1, <2>2 DEF Lawful
<1> QED
    BY <1>1, <1>2, <1>3 DEF StartStep

LEMMA RuntimeLawful ==
    ASSUME DrainInv, NEW r \in Requests, RuntimeStep(r),
           runtime = "absent" => Unused(binding), Sound(req[r], runtime, binding)
    PROVE  Lawful(r)
<1>1. CASE CheckJobs(r)
  <2>1. Others(r) /\ req'[r].pc \notin HoldPCs /\ UNCHANGED <<runtime, binding>>
      BY <1>1, CheckJobsKeeps DEF CheckJobs, HoldPCs
  <2> QED
      BY <2>1, LawfulRest
<1>2. CASE StopRuntime(r)
  <2>1. Others(r) /\ req'[r].pc = "idle" /\ binding' = binding
        /\ (runtime' = "absent" => runtime = "absent")
      BY <1>2, Types, Returns DEF StopRuntime
  <2> QED
      BY <2>1, LawfulRest DEF HoldPCs
<1>3. CASE CountAgain(r)
  <2>1. UNCHANGED <<runtime, binding>>
        /\ ((Goto(r, "remove") /\ CountActiveTenantPluginBindings = {}) \/ Return(r))
      BY <1>3 DEF CountAgain
  <2>2. Others(r) /\ req'[r].pc \in {"idle", "remove"}
        /\ (req'[r].pc = "remove" => CountActiveTenantPluginBindings = {})
      BY <2>1, Types, Goes, Returns DEF PCs
  <2>3. req'[r].pc = "remove" => Unused(binding')
      BY <2>1, <2>2 DEF CountActiveTenantPluginBindings, Unused
  <2>4. Sound(req'[r], runtime', binding')
      BY <2>2, <2>3 DEF Sound
  <2> QED
      BY <2>1, <2>2, <2>4 DEF Lawful
<1>4. CASE RemoveFromRegistry(r)
  <2>1. Others(r) /\ req'[r].pc \in {"idle", "complete_uninstall"}
        /\ binding' = binding /\ req[r].pc = "remove"
    <3>1. binding' = binding /\ req[r].pc = "remove"
          /\ (Return(r) \/ Goto(r, "complete_uninstall"))
        BY <1>4 DEF RemoveFromRegistry, At
    <3> QED
        BY <3>1, Types, Goes, Returns DEF PCs
  <2>2. Unused(binding')
      BY <2>1 DEF Sound
  <2>3. Sound(req'[r], runtime', binding')
      BY <2>1, Indifferent DEF HoldPCs
  <2> QED
      BY <2>1, <2>2, <2>3 DEF Lawful
<1>5. CASE CompleteFinalUninstall(r)
    BY <1>5, CompleteFinalUninstallKeeps, LawfulRest DEF HoldPCs
<1> QED
    BY <1>1, <1>2, <1>3, <1>4, <1>5 DEF RuntimeStep

LEMMA OtherLawful ==
    ASSUME DrainInv, NEW r \in Requests, WriteRow(r) \/ ScheduleCreate(r) \/ Abandon(r),
           runtime = "absent" => Unused(binding)
    PROVE  Lawful(r)
<1>1. runtime' = runtime
    BY DEF WriteRow, ScheduleCreate, Abandon
<1>2. \A t \in Tenants : binding'[t].status = "enabled" => binding[t].status = "enabled"
    BY WriteRowKeeps DEF ScheduleCreate, Abandon
<1>3. Others(r) /\ req'[r].pc \notin HoldPCs
    BY WriteRowKeeps, ScheduleCreateKeeps, AbandonKeeps DEF HoldPCs
<1> QED
    BY <1>1, <1>2, <1>3, LawfulRest

LEMMA AcceptedLawful ==
    ASSUME DrainInv, NEW r \in Requests, NEW t \in Tenants, Accepted(r, t),
           runtime = "absent" => Unused(binding)
    PROVE  Lawful(r)
<1>1. CASE \/ Subscribe(r, t) \/ Restart(r, t) \/ Boot(r, t) \/ Install(r, t)
           \/ SystemDisable(r, t) \/ Uninstall(r, t)
  <2>1. /\ Others(r) /\ req'[r].pc \in BeginPCs /\ binding' = binding
        /\ runtime' = "absent" => runtime = "absent"
        /\ req'[r].pc = "check_jobs" => runtime' = "enabled"
      BY <1>1, AcceptedMoves
  <2>2. Sound(req'[r], runtime', binding')
      BY <2>1 DEF Sound, BeginPCs
  <2> QED
      BY <2>1, <2>2 DEF Lawful
<1>2. CASE Unsubscribe(r, t)
  <2>1. Others(r) /\ req'[r].pc = "write_row" /\ UNCHANGED <<runtime, binding>>
      BY <1>2, UnsubscribeKeeps DEF Unsubscribe
  <2> QED
      BY <2>1, LawfulRest DEF HoldPCs
<1>3. CASE Rotate(r, t)
  <2>1. /\ Others(r) /\ req'[r].pc = "rotate_read" /\ req'[r].t = t
        /\ UNCHANGED <<runtime, binding>> /\ (req'[r].used => binding[t].status = "enabled")
      BY <1>3, RotateKeeps DEF Rotate
  <2>2. Sound(req'[r], runtime', binding')
      BY <2>1 DEF Sound, Unused
  <2> QED
      BY <2>1, <2>2 DEF Lawful
<1>4. CASE DeleteInstance(r, t) \/ DisableByTenant(r, t)
    BY <1>4, RowGoesKeeps, LawfulRest DEF HoldPCs
<1>5. CASE SystemEnable(r, t)
  <2>1. Others(r) /\ req'[r].pc = "enable_runtime" /\ UNCHANGED <<runtime, binding>>
      BY <1>5, SystemEnableKeeps DEF SystemEnable
  <2> QED
      BY <2>1, LawfulRest DEF HoldPCs
<1>6. CASE Drain(r, t)
    BY <1>6, DrainKeeps, LawfulRest DEF HoldPCs
<1>7. CASE ScheduleCheck(r, t)
  <2>1. Others(r) /\ req'[r].pc = "create_blocker" /\ UNCHANGED <<runtime, binding>>
      BY <1>7, Types, ScheduleCheckIs
  <2> QED
      BY <2>1, LawfulRest DEF HoldPCs
<1>8. CASE \E j \in JobIds : Refresh(r, t, j)
  <2>1. PICK j \in JobIds : Refresh(r, t, j)
      BY <1>8
  <2>2. UNCHANGED <<runtime, binding>> /\ Begin(r, "refresh", "read_job", t, j)
      BY <2>1 DEF Refresh
  <2>3. j \in {0} \cup JobIds /\ "read_job" \in PCs
      BY DEF PCs
  <2>4. Others(r) /\ req'[r].pc = "read_job"
      BY <2>2, <2>3, Types, Begins
  <2> QED
      BY <2>2, <2>4, LawfulRest DEF HoldPCs
<1> QED
    BY <1>1, <1>2, <1>3, <1>4, <1>5, <1>6, <1>7, <1>8 DEF Accepted

\* With one request at a time every step of a request is lawful.
LEMMA LawfulStep ==
    ASSUME DrainInv, SerialInv, setup.parallel = 1, NEW r \in Requests,
           Continued(r) \/ \E t \in Tenants : Accepted(r, t)
    PROVE  Turn(r) /\ Lawful(r)
<1>1. (runtime = "absent" => Unused(binding)) /\ Sound(req[r], runtime, binding)
    BY DEF SerialInv
<1>2. CASE Continued(r)
    BY <1>1, <1>2, ContinuedTurns, RefreshLawful, EnableLawful, RotateLawful, StartLawful,
       RuntimeLawful, OtherLawful DEF Continued
<1>3. CASE \E t \in Tenants : Accepted(r, t)
    BY <1>1, <1>3, AcceptedTurns, AcceptedLawful
<1> QED
    BY <1>2, <1>3

LEMMA SerialInvInit == Init => SerialInv
<1> SUFFICES ASSUME Init PROVE SerialInv
    OBVIOUS
<1>1. \A r \in Requests : req[r].pc = "idle"
  <2>1. Idle.pc = "idle"
      BY IdleType
  <2> HIDE DEF Idle
  <2> QED
      BY <2>1 DEF Init
<1>2. runtime # "absent"
    BY DEF Init
<1>3. \A r \in Requests : Sound(req[r], runtime, binding)
    BY <1>1, Indifferent DEF HoldPCs
<1> QED
    BY <1>1, <1>2, <1>3 DEF SerialInv, At

LEMMA SerialInvNext == DrainInv /\ SerialInv /\ [Next]_vars => SerialInv'
<1> SUFFICES ASSUME DrainInv, SerialInv, [Next]_vars PROVE SerialInv'
    OBVIOUS
<1>1. CASE \E r \in Requests : Continued(r) \/ \E t \in Tenants : Accepted(r, t)
  <2>1. PICK r \in Requests : Continued(r) \/ \E t \in Tenants : Accepted(r, t)
      BY <1>1
  <2>2. setup' = setup
      BY <2>1, ContinuedTurns, AcceptedTurns
  <2>3. setup.parallel = 1 => Turn(r) /\ Lawful(r)
      BY <2>1, LawfulStep
  <2> QED
      BY <2>2, <2>3, LawfulKeeps
<1>2. CASE (\E b \in Blockers : EnqueueTask(b) \/ EndBlocker(b)) \/ UNCHANGED vars
  <2>1. UNCHANGED <<setup, runtime, binding, req>>
      BY <1>2 DEF EnqueueTask, EndBlocker, vars
  <2>2. setup'.parallel = 1 => \A r \in Requests : Sound(req'[r], runtime', binding')
      BY <2>1 DEF SerialInv
  <2>3. setup'.parallel = 1 => (runtime' = "absent" => Unused(binding'))
      BY <2>1 DEF SerialInv
  <2>4. setup'.parallel = 1 =>
           \A q, r \in Requests : ~At(q, "idle")' /\ ~At(r, "idle")' => q = r
      BY <2>1 DEF SerialInv, At
  <2> QED
      BY <2>2, <2>3, <2>4 DEF SerialInv
<1> QED
    BY <1>1, <1>2, NextIs

LEMMA SerialInvariance == Spec => []SerialInv
BY SerialInvInit, SerialInvNext, DrainInvariance, PTL DEF Spec

\* CompleteFinalUninstall and the two counts before it: with one request at a
\* time, what has been removed is used by no tenant.
THEOREM UnusedWhenRemoved == Spec => []RemovedIsUnused
<1>1. SerialInv => RemovedIsUnused
    BY DEF SerialInv, Unused, RemovedIsUnused
<1> QED
    BY <1>1, SerialInvariance, PTL

=============================================================================
