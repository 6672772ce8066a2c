------------------------------ MODULE AgentRun ------------------------------
(***************************************************************************)
(* One durable agent run from admission to its final status: the RunStore, *)
(* the TaskBus, the worker goroutines of worker_service.go (planning and   *)
(* task deliveries), the recovery scanner and the API.                     *)
(*                                                                         *)
(* A process executes its handler one store or bus transaction at a time;  *)
(* local[p] is what it remembers in between.  A read followed by a CAS     *)
(* that is retried on conflict is one action (a lost CAS changes nothing); *)
(* a version that is read once and used later is kept in ver.              *)
(*                                                                         *)
(* Crashes, stalls, refusals of capacity, interrupted contexts and clock   *)
(* skew between bus and store happen at most MaxFaults times.              *)
(***************************************************************************)
EXTENDS RunStore

CONSTANTS Workers,    \* delivery goroutines
          Services,   \* processes that run the scanner or the API handlers
          OwnerOf,    \* the owner name each worker leases under
          MaxFaults   \* bound: faults per behaviour

VARIABLES bus,        \* the TaskBus
          cursor,     \* :dispatch_cursor, the outbox entries dispatched
          local,      \* what each process remembers
          executed,   \* history: business executions begun, per step
          faults      \* faults so far

vars == <<run, task, plan, outbox, events, pastDeadline,
          bus, cursor, local, executed, faults>>

Bus == INSTANCE TaskBus WITH Messages <- Tasks, MaxToken <- MaxFence

Processes == Workers \cup Services

ASSUME RunAssumption ==
    /\ Workers \cap Services = {}
    /\ OwnerOf \in [Workers -> Owners]
    /\ MaxFaults \in Nat

DeliveryPCs == {"setnx", "delivered", "defer", "check", "lease", "start", "claim", "execute",
                "receipt", "settle", "finish", "p_check", "p_lease", "p_start", "p_build",
                "p_commit", "p_fail", "p_expire", "ack"}
RecoveryPCs == {"r_start", "r_expire", "r_read", "r_tasks", "r_commit", "d_read", "d_enq", "d_adv"}

NoDecision == [op |-> "none", arg |-> "none"]
Decision == [op : {"expire", "timeout", "skip", "queue"}, arg : Steps]
            \cup [op : {"close"}, arg : ReconcileOutcomes] \cup {NoDecision}

\* msg, sid, tok: the delivery.  ver: a Run version read earlier.  out: the
\* result to commit.  dec: what ReconcilePlan decided.  todo, pos: outbox
\* entries DispatchPending read.  then: where RecoverRun returns to.
\* acked: where to go after Ack.  stalled: heartbeats are late.
Idle == [pc |-> "idle", msg |-> PlanningTaskID, sid |-> 0, tok |-> 0, ver |-> 0, out |-> "",
         dec |-> NoDecision, todo |-> <<>>, pos |-> 0, then |-> "idle", acked |-> "idle",
         stalled |-> FALSE]

Memory ==
    [pc : {"idle"} \cup DeliveryPCs \cup RecoveryPCs, msg : Tasks, sid : Nat, tok : Nat,
     ver : Nat, out : Reasons \cup {"ok"}, dec : Decision, todo : Seq(Tasks), pos : Nat,
     then : {"idle", "ack"}, acked : {"idle", "r_start", "r_read"}, stalled : BOOLEAN]

RunTypeOK ==
    /\ StoreTypeOK /\ Bus!BusTypeOK
    /\ cursor \in Nat
    /\ executed \in [Steps -> Nat]
    /\ faults \in 0..MaxFaults
    /\ local \in [Processes -> Memory]

Init ==
    /\ StoreInit /\ Bus!BusInit
    /\ cursor = 0
    /\ local = [p \in Processes |-> Idle]
    /\ executed = [s \in Steps |-> 0]
    /\ faults = 0

-----------------------------------------------------------------------------
At(p, pc) == local[p].pc = pc
Goto(p, pc) == local' = [local EXCEPT ![p].pc = pc]
\* Return from the handler without Ack: the delivery stays in the PEL.
Abandon(p) == local' = [local EXCEPT ![p] = Idle]

StoreSame == UNCHANGED storeVars
BusSame == UNCHANGED bus
RestSame == UNCHANGED <<cursor, executed, faults>>

\* A store call that either commits or returns an error the caller handles.
CallStore(p, op, can, ok, no) ==
    /\ BusSame /\ RestSame
    /\ \/ op /\ Goto(p, ok)
       \/ ~can /\ StoreSame /\ (IF no = "idle" THEN Abandon(p) ELSE Goto(p, no))

Fault ==
    /\ faults < MaxFaults
    /\ faults' = faults + 1

-----------------------------------------------------------------------------
(* API: admission (by the request or, later, by the locator's recovery of  *)
(* the pending_create anchor), submitPlanning and cancellation.            *)
Admit == RecoverAdmission /\ BusSame /\ RestSame /\ UNCHANGED local

\* A repeated submission finds the planning request and only dispatches it.
Submit(p) ==
    /\ At(p, "idle") /\ BusSame /\ RestSame
    /\ \/ StartPlanning
       \/ run.rev = 0 /\ run.status = "planning" /\ StoreSame
    /\ Goto(p, "d_read")

CancelRun == Cancel /\ BusSame /\ RestSame /\ UNCHANGED local

-----------------------------------------------------------------------------
(* WorkerService.Run: Dequeue, then process.                               *)
Dequeue(w) ==
    /\ At(w, "idle")
    /\ \E m \in Tasks :
         /\ Bus!Dequeue(m)
         /\ local' = [local EXCEPT ![w] = [Idle EXCEPT !.pc = "setnx", !.msg = m,
                                             !.sid = bus[m].sid, !.tok = bus[m].token + 1]]
    /\ StoreSame /\ RestSame

AcquireLease(w) ==
    /\ At(w, "setnx")
    /\ StoreSame /\ RestSame
    /\ LET m == local[w].msg IN
       \/ Bus!SetLease(m, local[w].tok) /\ Goto(w, "delivered")
       \/ bus[m].lease # 0 /\ BusSame /\ Abandon(w)

\* Capacity granted (or not configured).
Accept(w) ==
    /\ At(w, "delivered")
    /\ Goto(w, IF local[w].msg = PlanningTaskID THEN "p_check" ELSE "check")
    /\ StoreSame /\ BusSame /\ RestSame

\* Capacity refused: a terminal run is acknowledged, otherwise the reason is
\* recorded (a conflict is ignored) and the delivery deferred.
Refuse(w) ==
    /\ At(w, "delivered") /\ Fault
    /\ BusSame /\ UNCHANGED <<cursor, executed>>
    /\ \/ /\ Terminal /\ StoreSame /\ Goto(w, "ack")
       \/ /\ ~Terminal /\ Goto(w, "defer")
          /\ \E c \in CapacityReasons :
               LET m == local[w].msg IN
               \/ MarkCapacityWaiting(run.version, m, c)
               \/ /\ StoreSame
                  /\ \/ run.rev # Revision(m) \/ task[m].status # "queued"
                     \/ task[m].queueReason = c

DeferDelivery(w) ==
    /\ At(w, "defer")
    /\ LET m == local[w].msg IN
       \/ Bus!Defer(m, local[w].sid, local[w].tok)
       \/ ~Bus!HoldsDelivery(m, local[w].sid, local[w].tok) /\ BusSame
    /\ Abandon(w) /\ StoreSame /\ RestSame

AckDelivery(w) ==
    /\ At(w, "ack")
    /\ LET m == local[w].msg IN
       \/ /\ Bus!Ack(m, local[w].sid, local[w].tok)
          /\ IF local[w].acked = "idle" THEN Abandon(w)
             ELSE local' = [local EXCEPT ![w] = [Idle EXCEPT !.pc = local[w].acked]]
       \/ ~Bus!HoldsDelivery(m, local[w].sid, local[w].tok) /\ BusSame /\ Abandon(w)
    /\ StoreSame /\ RestSame

-----------------------------------------------------------------------------
(* ProcessDelivery.                                                        *)
Owner(w) == OwnerOf[w]

\* A result that was committed before the Ack got lost is only acknowledged.
CheckDelivery(w) ==
    /\ At(w, "check")
    /\ Goto(w, IF task[local[w].msg].status \in {"completed", "failed", "cancelled"}
               THEN "ack" ELSE "lease")
    /\ StoreSame /\ BusSame /\ RestSame

\* LeaseTask returned ErrQueueWaitExpired: RecoverRun, then Ack.
QueueWaitExpired(w, v) ==
    LET t == local[w].msg IN
    /\ run.version = v /\ run.rev = Revision(t) /\ Open
    /\ task[t].status = "queued" /\ task[t].waited
    /\ local' = [local EXCEPT ![w].pc = "r_start", ![w].then = "ack"]
    /\ StoreSame /\ BusSame /\ RestSame

CanLease(w, v) ==
    LET t == local[w].msg IN
    /\ run.version = v /\ run.rev = Revision(t) /\ Open
    /\ \/ Leasable(t) /\ local[w].tok > task[t].fence
       \/ task[t].status = "queued" /\ task[t].waited

TakeLease(w) ==
    /\ At(w, "lease")
    /\ \/ QueueWaitExpired(w, run.version)
       \/ CallStore(w, LeaseTask(run.version, local[w].msg, Owner(w), local[w].tok),
                    CanLease(w, run.version), "start", "idle")

CanStart(w, v) ==
    LET t == local[w].msg IN
    /\ run.version = v /\ run.rev = Revision(t) /\ Open
    /\ task[t].status = "leased" /\ HoldsLease(t, Owner(w), local[w].tok)

Start(w) ==
    /\ At(w, "start")
    /\ CallStore(w, StartTask(run.version, local[w].msg, Owner(w), local[w].tok),
                 CanStart(w, run.version), "claim", "idle")

\* The execution context has ended, or executionReceipt decides: a fresh
\* claim executes, a stored receipt is reused, an old claim is uncertain.
Resolve(w, out, pc) == local' = [local EXCEPT ![w].out = out, ![w].pc = pc]

ReceiptReply(w) ==
    LET t == local[w].msg IN
    IF MayExecute(t, Owner(w), local[w].tok) /\ task[t].receipt
    THEN "ok" ELSE "manual_review_required"

\* Mutant: a claim without a receipt is taken for a failed attempt and retried.
Claim_RetriesUncertain(w) ==
    LET t == local[w].msg IN
    /\ At(w, "claim") /\ BusSame /\ RestSame
    /\ \/ ClaimExecution(t, Owner(w), local[w].tok) /\ Goto(w, "execute")
       \/ /\ ~(MayExecute(t, Owner(w), local[w].tok) /\ task[t].token = 0)
          /\ IF task[t].receipt THEN Resolve(w, ReceiptReply(w), "settle")
             ELSE Goto(w, "execute")
          /\ StoreSame

Claim(w) ==
    LET t == local[w].msg IN
    /\ At(w, "claim") /\ BusSame /\ RestSame
    /\ \/ ClaimExecution(t, Owner(w), local[w].tok) /\ Goto(w, "execute")
       \/ /\ ~(MayExecute(t, Owner(w), local[w].tok) /\ task[t].token = 0)
          /\ Resolve(w, ReceiptReply(w), "settle")
          /\ StoreSame

\* Mutant: settles a result without storing its receipt first.
Execute_NoReceipt(w) ==
    /\ At(w, "execute")
    /\ executed' = [executed EXCEPT ![local[w].msg] = @ + 1]
    /\ \E r \in {"ok", "classified", "manual_review_required"} : Resolve(w, r, "settle")
    /\ StoreSame /\ BusSame /\ UNCHANGED <<cursor, faults>>

\* The business call: a result, a classified failure, or an error without a
\* class (a panic included).
Execute(w) ==
    /\ At(w, "execute")
    /\ executed' = [executed EXCEPT ![local[w].msg] = @ + 1]
    /\ \/ Resolve(w, "ok", "receipt")
       \/ \E r \in {"classified", "manual_review_required"} : Resolve(w, r, "settle")
    /\ StoreSame /\ BusSame /\ UNCHANGED <<cursor, faults>>

KeepReceipt(w) ==
    LET t == local[w].msg
        may == MayExecute(t, Owner(w), local[w].tok) /\ task[t].token = local[w].tok
    IN
    /\ At(w, "receipt") /\ BusSame /\ RestSame
    /\ \/ StoreReceipt(t, Owner(w), local[w].tok) /\ Goto(w, "settle")
       \/ ~may /\ Resolve(w, "manual_review_required", "settle") /\ StoreSame

\* A lost heartbeat abandons the delivery; an expired execution context
\* overrides every result but a classified failure.
LeaseLost(w) ==
    LET t == local[w].msg IN
    \/ ~Bus!HoldsDelivery(t, local[w].sid, local[w].tok)
    \/ ~RenewTaskLease(t, Owner(w), local[w].tok)

Settle(w) ==
    /\ At(w, "settle") /\ StoreSame /\ BusSame /\ RestSame
    /\ \/ LeaseLost(w) /\ Abandon(w)
       \/ Resolve(w, IF pastDeadline /\ local[w].out # "classified"
                      THEN "run.deadline" ELSE local[w].out, "finish")

\* Mutant: writes the task record alone, without version and event.
FinishOp_PlainWrite(w) ==
    LET t == local[w].msg IN
    /\ task[t].status = "running" /\ HoldsLease(t, Owner(w), local[w].tok)
    /\ task' = [task EXCEPT ![t].status = IF local[w].out = "ok" THEN "completed" ELSE "failed",
                            ![t].reason = IF local[w].out = "ok" THEN "" ELSE local[w].out]
    /\ UNCHANGED <<run, plan, outbox, events, pastDeadline>>

FinishOp(w) ==
    LET t == local[w].msg IN
    IF local[w].out = "ok"
    THEN CompleteTask(run.version, t, Owner(w), local[w].tok)
    ELSE FailTask(run.version, t, Owner(w), local[w].tok, local[w].out)

CanFinish(w) ==
    LET t == local[w].msg IN
    /\ run.rev = Revision(t) /\ Open
    /\ task[t].status = "running" /\ HoldsLease(t, Owner(w), local[w].tok)

Finish(w) ==
    /\ At(w, "finish") /\ BusSame /\ RestSame
    /\ \/ /\ FinishOp(w)
          /\ local' = [local EXCEPT ![w].pc = "ack", ![w].acked = "r_read"]
       \/ ~CanFinish(w) /\ StoreSame /\ Abandon(w)

-----------------------------------------------------------------------------
(* ProcessPlanningDelivery.                                                *)
CheckPlanning(w) ==
    /\ At(w, "p_check") /\ StoreSame /\ BusSame /\ RestSame
    /\ \/ /\ run.rev > 0 \/ Terminal
          /\ local' = [local EXCEPT ![w].pc = "ack",
                                     ![w].acked = IF Terminal THEN "idle" ELSE "r_start"]
       \/ /\ run.rev = 0 /\ ~Terminal
          /\ run.status # "planning" \/ pastDeadline
          /\ Abandon(w)
       \/ /\ run.rev = 0 /\ run.status = "planning" /\ ~pastDeadline
          /\ local' = [local EXCEPT ![w].pc = "p_lease", ![w].ver = run.version]

\* Without a retry: the version read by the check is the one that must hold.
LeasePlanning(w) ==
    /\ At(w, "p_lease")
    /\ \/ QueueWaitExpired(w, local[w].ver)
       \/ /\ LeaseTask(local[w].ver, PlanningTaskID, Owner(w), local[w].tok)
          /\ local' = [local EXCEPT ![w].pc = "p_start", ![w].ver = @ + 1]
          /\ BusSame /\ RestSame
       \/ /\ ~CanLease(w, local[w].ver)
          /\ Abandon(w) /\ StoreSame /\ BusSame /\ RestSame

BeginPlanning(w) ==
    /\ At(w, "p_start")
    /\ CallStore(w, StartTask(local[w].ver, PlanningTaskID, Owner(w), local[w].tok),
                 CanStart(w, local[w].ver), "p_build", "idle")

Build(w) ==
    /\ At(w, "p_build") /\ StoreSame /\ BusSame /\ RestSame
    /\ \/ (LeaseLost(w) \/ pastDeadline) /\ Abandon(w)
       \/ ~pastDeadline /\ Goto(w, "p_commit")
       \/ ~pastDeadline /\ Goto(w, "p_fail")

\* Install the plan; an invalid plan or a lost lease leaves the delivery.
CommitPlan(w) ==
    /\ At(w, "p_commit") /\ BusSame /\ RestSame
    /\ \E p \in Plans :
         \/ /\ CompletePlanning(run.version, Owner(w), local[w].tok, p)
            /\ local' = [local EXCEPT ![w].pc = "ack", ![w].acked = "r_start"]
         \/ /\ ~(ValidPlan(p) /\ CanFinish(w) /\ ~pastDeadline)
            /\ StoreSame /\ Abandon(w)

FailPlanning(w) ==
    /\ At(w, "p_fail") /\ BusSame /\ RestSame
    /\ \/ Terminal /\ StoreSame /\ Goto(w, "ack")
       \/ /\ FailTask(run.version, PlanningTaskID, Owner(w), local[w].tok, "planner.failed")
          /\ Goto(w, "p_expire")
       \/ ~Terminal /\ ~CanFinish(w) /\ StoreSame /\ Abandon(w)

\* ExpirePlanning commits, or finds nothing to expire.
CanExpirePlanning ==
    /\ run.rev = 0
    /\ \/ run.status = "accepted" /\ pastDeadline
       \/ run.status = "planning" /\ PlanningExpiry # ""

CloseFailedPlanning(w) ==
    /\ At(w, "p_expire")
    /\ CallStore(w, ExpirePlanning, CanExpirePlanning, "ack", "ack")

-----------------------------------------------------------------------------
(* RecoverRun: StartPlanning, ExpirePlanning, ReconcilePlan and, while the *)
(* run is open, DispatchPending.                                           *)
Scan(p) ==
    /\ At(p, "idle") /\ Open
    /\ Goto(p, "r_start")
    /\ StoreSame /\ BusSame /\ RestSame

RecoverStart(p) ==
    /\ At(p, "r_start")
    /\ CallStore(p, StartPlanning,
                 run.rev = 0 /\ run.status = "accepted" /\ ~pastDeadline, "r_expire", "r_expire")

RecoverExpire(p) ==
    /\ At(p, "r_expire")
    /\ CallStore(p, ExpirePlanning, CanExpirePlanning, "r_read", "r_read")

\* RecoverRun or ReconcilePlan returned without an error.
Return(p) ==
    IF local[p].then = "ack"
    THEN local' = [local EXCEPT ![p] = [@ EXCEPT !.pc = "ack", !.then = "idle", !.ver = 0,
                                          !.dec = NoDecision, !.todo = <<>>, !.pos = 0]]
    ELSE Abandon(p)

ReconcileRead(p) ==
    /\ At(p, "r_read") /\ StoreSame /\ BusSame /\ RestSame
    /\ \/ (Terminal \/ run.status \in {"absent", "accepted"}) /\ Return(p)
       \/ Open /\ run.rev = 0 /\ run.status = "planning" /\ Goto(p, "d_read")
       \/ Open /\ run.rev = 1
          /\ local' = [local EXCEPT ![p].pc = "r_tasks", ![p].ver = run.version]

StepsIn(S) == {s \in Steps : task[s].status \in S}

\* Mutant: completed work hides a step under review.
Outcome_PartialFirst ==
    LET failed == StepsIn({"failed"})
        bad == StepsIn({"failed", "skipped", "cancelled"})
    IN CASE bad = {} -> "completed"
         [] bad # {} /\ StepsIn({"completed"}) # {} -> "partial"
         [] OTHER -> IF \E s \in failed : task[s].reason = "manual_review_required"
                     THEN "blocked" ELSE "failed"

\* The final status the outcomes of the steps add up to.
Outcome ==
    LET failed == StepsIn({"failed"})
        bad == StepsIn({"failed", "skipped", "cancelled"})
    IN CASE \E s \in failed : task[s].reason = "manual_review_required" -> "blocked"
         [] bad = {} -> "completed"
         [] OTHER -> IF StepsIn({"completed"}) # {} THEN "partial" ELSE "failed"

\* One round of ReconcilePlan over the tasks it read: the first list that is
\* not empty decides; any member stands for the first one of the plan.
Decide(op, S) == [op : {op}, arg : S]

Decisions ==
    LET unstarted == StepsIn({"queued", "pending_dependency"})
        overdue == {s \in StepsIn({"queued"}) : task[s].waited}
        pending == StepsIn({"pending_dependency"})
        blocked == {s \in pending : plan[s] \cap StepsIn({"failed", "skipped", "cancelled"}) # {}}
        ready == {s \in pending : plan[s] \subseteq StepsIn({"completed"})}
    IN IF pastDeadline /\ unstarted # {} THEN Decide("expire", unstarted)
       ELSE IF overdue # {} THEN Decide("timeout", overdue)
       ELSE IF ~pastDeadline /\ blocked \cup ready # {}
            THEN Decide("skip", blocked) \cup Decide("queue", ready)
       ELSE IF StepsIn(Finished) = Steps THEN Decide("close", {Outcome})
       ELSE {NoDecision}

\* The tasks are read after the version, so a commit under that version acts
\* on what was read.
ReconcileTasks(p) ==
    /\ At(p, "r_tasks") /\ StoreSame /\ BusSame /\ RestSame
    /\ \E d \in Decisions :
         local' = [local EXCEPT ![p].dec = d,
                                ![p].ver = IF d = NoDecision THEN 0 ELSE @,
                                ![p].pc = IF d = NoDecision THEN "d_read" ELSE "r_commit"]

DecidedOp(v, d) ==
    \/ d.op = "expire" /\ ExpireUnstartedTask(v, d.arg)
    \/ d.op = "timeout" /\ ExpireQueuedTask(v, d.arg)
    \/ d.op = "skip" /\ SkipTask(v, d.arg)
    \/ d.op = "queue" /\ QueueTask(v, d.arg)
    \/ d.op = "close" /\ Transition(v, d.arg)

\* Every conflict, and every commit but the last, starts another round.
ReconcileCommit(p) ==
    LET d == local[p].dec IN
    /\ At(p, "r_commit") /\ BusSame /\ RestSame
    /\ \/ /\ DecidedOp(local[p].ver, d)
          /\ IF d.op = "close" THEN Return(p)
             ELSE local' = [local EXCEPT ![p].pc = "r_read", ![p].dec = NoDecision, ![p].ver = 0]
       \/ /\ run.version # local[p].ver /\ StoreSame
          /\ local' = [local EXCEPT ![p].pc = "r_read", ![p].dec = NoDecision, ![p].ver = 0]

\* DispatchPending: on a terminal run it returns ErrConflict.
DispatchRead(p) ==
    LET entries == SubSeq(outbox, cursor + 1, Len(outbox)) IN
    /\ At(p, "d_read") /\ StoreSame /\ BusSame /\ RestSame
    /\ \/ Terminal /\ Abandon(p)
       \/ ~Terminal /\ entries = <<>> /\ Return(p)
       \/ /\ ~Terminal /\ entries # <<>>
          /\ local' = [local EXCEPT ![p].pc = "d_enq", ![p].todo = entries, ![p].pos = cursor]

DispatchEnqueue(p) ==
    /\ At(p, "d_enq")
    /\ Bus!Enqueue(Head(local[p].todo)) /\ Goto(p, "d_adv")
    /\ StoreSame /\ RestSame

\* Mutant: skips to the end of the outbox instead of the entry it dispatched.
DispatchAdvance_ToEnd(p) ==
    /\ At(p, "d_adv") /\ StoreSame /\ BusSame /\ UNCHANGED <<executed, faults>>
    /\ \/ Terminal /\ Abandon(p) /\ UNCHANGED cursor
       \/ /\ ~Terminal /\ cursor' = Len(outbox)
          /\ IF Len(local[p].todo) = 1 THEN Return(p)
             ELSE local' = [local EXCEPT ![p].pc = "d_enq", ![p].todo = Tail(@),
                                         ![p].pos = @ + 1]

\* advanceDispatchCursor: a plain SET, refused once the run is terminal.
DispatchAdvance(p) ==
    /\ At(p, "d_adv") /\ StoreSame /\ BusSame /\ UNCHANGED <<executed, faults>>
    /\ \/ Terminal /\ Abandon(p) /\ UNCHANGED cursor
       \/ /\ ~Terminal /\ cursor' = local[p].pos + 1
          /\ IF Len(local[p].todo) = 1 THEN Return(p)
             ELSE local' = [local EXCEPT ![p].pc = "d_enq", ![p].todo = Tail(@),
                                         ![p].pos = @ + 1]

-----------------------------------------------------------------------------
(* Faults.                                                                 *)
\* The process dies, or a Redis error makes the handler return.
Crash(p) ==
    /\ ~At(p, "idle") /\ Fault /\ Abandon(p)
    /\ StoreSame /\ BusSame /\ UNCHANGED <<cursor, executed>>

\* A worker is slow: its heartbeats no longer keep its leases.
Stall(w) ==
    /\ local[w].pc \in DeliveryPCs /\ ~local[w].stalled /\ Fault
    /\ local' = [local EXCEPT ![w].stalled = TRUE]
    /\ StoreSame /\ BusSame /\ UNCHANGED <<cursor, executed>>

\* Shutdown, or the capacity lease is lost: the execution context is cancelled.
Interrupt(w) ==
    /\ local[w].pc \in {"claim", "execute", "receipt", "settle"}
    /\ local[w].out # "classified" /\ Fault
    /\ Resolve(w, "manual_review_required", "finish")
    /\ StoreSame /\ BusSame /\ UNCHANGED <<cursor, executed>>

-----------------------------------------------------------------------------
(* Time.  What a worker that is not stalled holds does not lapse: it is    *)
(* renewed three times per lease.                                          *)
Attended(m) ==
    \E w \in Workers : /\ local[w].pc \in DeliveryPCs \cup RecoveryPCs
                       /\ local[w].tok # 0 /\ local[w].msg = m /\ ~local[w].stalled

StoreLeaseElapses(m) ==
    /\ ~Attended(m) /\ LeaseElapses(m)
    /\ BusSame /\ RestSame /\ UNCHANGED local

BusLeaseExpires(m) ==
    /\ ~Attended(m) /\ Bus!LeaseExpires(m)
    /\ StoreSame /\ RestSame /\ UNCHANGED local

\* The three leases of a delivery have one TTL and lapse together, up to
\* skew: an entry that idles before the others is a fault.
EntryIdles(m) ==
    /\ ~Attended(m) /\ Bus!EntryIdles(m)
    /\ IF bus[m].lease = 0 /\ ~task[m].live THEN UNCHANGED faults ELSE Fault
    /\ StoreSame /\ UNCHANGED <<cursor, executed, local>>

Promote(m) ==
    /\ Bus!PromoteDue(m)
    /\ StoreSame /\ RestSame /\ UNCHANGED local

Deadline == DeadlinePasses /\ BusSame /\ RestSame /\ UNCHANGED local

QueueTimeout(m) == QueueWaitElapses(m) /\ BusSame /\ RestSame /\ UNCHANGED local

-----------------------------------------------------------------------------
WorkerStep(w) ==
    \/ Dequeue(w) \/ AcquireLease(w) \/ Accept(w) \/ DeferDelivery(w) \/ AckDelivery(w)
    \/ CheckDelivery(w) \/ TakeLease(w) \/ Start(w) \/ Claim(w) \/ Execute(w)
    \/ KeepReceipt(w) \/ Settle(w) \/ Finish(w)
    \/ CheckPlanning(w) \/ LeasePlanning(w) \/ BeginPlanning(w) \/ Build(w)
    \/ CommitPlan(w) \/ FailPlanning(w) \/ CloseFailedPlanning(w)

RecoverStep(p) ==
    \/ RecoverStart(p) \/ RecoverExpire(p) \/ ReconcileRead(p) \/ ReconcileTasks(p)
    \/ ReconcileCommit(p) \/ DispatchRead(p) \/ DispatchEnqueue(p) \/ DispatchAdvance(p)

ApiStep == Admit \/ CancelRun \/ \E p \in Services : Submit(p)

FaultStep ==
    \/ \E p \in Processes : Crash(p)
    \/ \E w \in Workers : Stall(w) \/ Interrupt(w) \/ Refuse(w)

TimeStep ==
    \/ Deadline
    \/ \E m \in Tasks : \/ StoreLeaseElapses(m) \/ BusLeaseExpires(m) \/ EntryIdles(m)
                         \/ Promote(m) \/ QueueTimeout(m)

\* The run is over, every process is idle and no delivery is left.
Over ==
    /\ Terminal /\ \A p \in Processes : At(p, "idle")
    /\ UNCHANGED vars

Next ==
    \/ \E w \in Workers : WorkerStep(w)
    \/ \E p \in Processes : RecoverStep(p)
    \/ \E p \in Services : Scan(p)
    \/ ApiStep \/ FaultStep \/ TimeStep \/ Over

Spec == Init /\ [][Next]_vars

\* The scheduler runs every process, time passes, the scanner repeats.  It has
\* a goroutine of its own, so submissions cannot keep it from running.
Fairness ==
    /\ \A w \in Workers : WF_vars(WorkerStep(w))
    /\ \A p \in Processes : WF_vars(RecoverStep(p))
    /\ \A p \in Services : SF_vars(Scan(p))
    /\ \A m \in Tasks : /\ WF_vars(StoreLeaseElapses(m)) /\ WF_vars(BusLeaseExpires(m))
                         /\ WF_vars(EntryIdles(m)) /\ WF_vars(Promote(m))
    /\ WF_vars(Deadline)

FairSpec == Spec /\ Fairness

-----------------------------------------------------------------------------
(* Safety.                                                                 *)

\* ProcessDelivery and executionReceipt: whatever is redelivered, stalled,
\* crashed or taken over, the business call of a step begins at most once,
\* and never before the steps it depends on completed.
AtMostOnceExecution ==
    \A s \in Steps : /\ executed[s] <= 1
                     /\ executed[s] = 1 => \A d \in plan[s] : task[d].status = "completed"

\* CompleteTask: a step is completed only with the receipt of its one
\* execution; a takeover that reuses the receipt does not execute again.
CompletedHasReceipt ==
    \A s \in Steps : task[s].status = "completed" => task[s].receipt /\ executed[s] = 1

\* QueueTask to Ack: a task of an open run that waits for or is with a worker
\* is always still in the undispatched outbox or on the bus.  No crash between
\* Enqueue, cursor and Ack loses it, and nothing is acknowledged too early.
NoLostTask ==
    Open => \A t \in Tasks :
        task[t].status \in {"queued", "leased", "running"} =>
            \/ \E i \in 1..Len(outbox) : i > cursor /\ outbox[i] = t
            \/ bus[t].place \in {"stream", "pending", "delay"}

\* RunContract under this refinement mapping.
StepOutcome(s) ==
    CASE task[s].status \notin Finished -> "open"
      [] task[s].status = "failed" /\ task[s].reason = "manual_review_required" -> "review"
      [] OTHER -> task[s].status

Contract == INSTANCE RunContract WITH
    status <- IF Terminal THEN run.status ELSE "open",
    planned <- run.rev = 1,
    deps <- plan,
    granted <- {s \in Steps : task[s].token # 0},
    outcome <- [s \in Steps |-> StepOutcome(s)]

\* The system keeps the contract: rights are granted once and in order,
\* outcomes are decided once, the final status is what they add up to.
KeepsContract == Contract!ContractSpec

\* Every step of the system is a transaction of the store under arbitrary
\* clients or leaves the store alone: what StoreSpec satisfies holds here.
UsesStore == StoreSpec

\* The documented rule for a step that was claimed under an earlier lease and
\* left no receipt: whoever settles it after the takeover must not classify
\* the failure, it asks for manual review.
ReclaimedUncertainNeedsReview ==
    \A s \in Steps :
        /\ task[s].status = "failed" /\ ~task[s].receipt
        /\ task[s].token # 0 /\ task[s].token # task[s].fence
        => task[s].reason = "manual_review_required"

\* Recovery, redelivery and the deadline together end every admitted run.
EventuallyTerminal == Open ~> Terminal
=============================================================================
